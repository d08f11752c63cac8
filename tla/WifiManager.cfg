SPECIFICATION Spec
CONSTANTS
  Network = {n1}
  NoNetwork = none
  QueueLength = 1
  TimerQueueLength = 1
  MaxRetry = 1
  EventBound = 1
  PortalRequests <- Connects
INVARIANTS
  TypeOK
  BitsFollowDriver
  BeliefFollowsDriver
  StatusHonest
  RestoreBitTracksAttempt
  DnsNeedsAp
PROPERTIES
  ApStopsOnlyOnline
  LinkNewsDelivered
