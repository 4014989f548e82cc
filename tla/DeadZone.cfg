CONSTANTS
  Depth = 3
  Bound = 4
  MaxRecords = 4
  Records <- MCRecords
  NoRecord = blank
  Erased = erased
  MarkOnly = mark_only
  REISSUEDATA_COUNT = 2
  SectorRecords = 2
  MaxResets = 2
SPECIFICATION FairSpec
INVARIANTS TypeOK SentAtMostOnce
PROPERTIES SentInOrder KeepsWaiting Drains
