SPECIFICATION Spec
CONSTANTS
  TxSize = 1
PROPERTIES
  AlignmentWaits
CHECK_DEADLOCK FALSE
