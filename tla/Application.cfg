SPECIFICATION FairSpec
CONSTANTS
  TxSize = 2
INVARIANTS
  TypeOK
  LedHasNews
PROPERTIES
  TasksStart
  RequestAnswered
CHECK_DEADLOCK FALSE
