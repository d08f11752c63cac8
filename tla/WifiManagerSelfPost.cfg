SPECIFICATION FairSpec
CONSTANTS
  Network = {n1}
  NoNetwork = none
  QueueLength = 3
  TimerQueueLength = 10
  MaxRetry = 1
  EventBound = 1
  PortalRequests <- DropsLooks
PROPERTIES
  ManagerPostsEnd
CHECK_DEADLOCK FALSE
