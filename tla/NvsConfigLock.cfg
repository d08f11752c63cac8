SPECIFICATION FairSpec
CONSTANTS
  n1 = n1
  Network = {n1}
  Empty = Empty
  Absent = Absent
  ErrorBound = 1
PROPERTIES
  LockComesBack
CHECK_DEADLOCK FALSE
