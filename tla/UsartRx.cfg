SPECIFICATION FairSpec
CONSTANTS
  HalfBufferSize = 2
  RxTimeout = 2
  LastByte = 9
INVARIANTS TypeOK InOrder HandedOnce
PROPERTY Drained
CHECK_DEADLOCK FALSE
