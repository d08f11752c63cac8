SPECIFICATION FairSpec
CONSTANTS
  Network = {n1, n2}
  NoNetwork = none
  QueueLength = 1
  CheckBound = 1
  Name = {a, b}
  NoName = noname
  AuthMode = {0, 3}
  Rssi <- Signals
  Domain = {a, b}
  DnsSizes <- Octets
  ListBound = 4
  NameBound = 2
  LongBound = 4
INVARIANTS
  TypeOK
  PageHonest
  ServedWhole
  ListShowsNetworks
  NamesComeThrough
  AnswersPlainQueries
PROPERTIES
  SavesWhatWorked
  PageUnlocks
