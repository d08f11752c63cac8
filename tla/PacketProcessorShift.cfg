SPECIFICATION Spec
CONSTANTS
  Byte <- Bytes0to5
  Magic = 5
  Packet <- ClockPackets
  RxBufferSize = 11
  StreamSize = 8
  SentBound = 11
  LossBound = 0
PROPERTIES
  ShiftMakesSpace
CHECK_DEADLOCK FALSE
