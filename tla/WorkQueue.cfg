SPECIFICATION FairSpec
CONSTANTS
  WORKER_MAX_NBR = 2
  Starters <- MCStarters
  Works <- MCWorks
  Starts <- MCStarts
  Priority <- MCPriority
  SEM_MAX = 3
  None = None
INVARIANTS UsedCoversQueue NoLostWakeup AcceptedIsQueued
PROPERTIES RunsOnlyWhatIsDue StartupReturns
CHECK_DEADLOCK FALSE
