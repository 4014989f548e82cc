CONSTANTS
  r1 = r1
  r2 = r2
  r3 = r3
  r4 = r4
  NoRecord = none
  Depth = 3
  Records <- MCRecords
SPECIFICATION FifoSpec
INVARIANT RingOK
PROPERTY QueueRefined
