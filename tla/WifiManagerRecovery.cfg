SPECIFICATION FairSpec
CONSTANTS
  Network = {n1}
  NoNetwork = none
  QueueLength = 1
  TimerQueueLength = 6
  MaxRetry = 1
  EventBound = 1
  PortalRequests <- DropsLooks
INVARIANTS
  AlwaysAWayBack
PROPERTIES
  EventuallyReachable
  KeepsTrying
  ScanEnds
  ApCloses
CHECK_DEADLOCK FALSE
