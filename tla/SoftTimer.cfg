SPECIFICATION FairSpec
CONSTANTS
  TMR_ID_COUNT = 3
  Types = {"10MS", "100MS"}
  Boot <- MCBoot
  Users <- MCUsers
  Cancels = {"netMonitor", "sleep"}
  Owner <- MCOwner
  TypeOf <- MCTypeOf
  Cyclic <- MCCyclic
  Value <- MCValue
  Priority <- MCPriority
  MaxPending = 1
  CallsAfterRace = FALSE
  None = None
INVARIANTS TypeOK CountersExact HandlesOwnSlots
PROPERTIES FiresOnTime EveryTimerFires
