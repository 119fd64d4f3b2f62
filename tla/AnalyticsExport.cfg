SPECIFICATION FairSpec
CONSTANTS
  Slots = {s1, s2}
  BLOCKED = BLOCKED  PENDING_RESET = PENDING_RESET  NONE = NONE
  MaxKey = 2
  MaxDay = 3
  MaxValue = 1
  InitTable <- MCTable
  InitStatus <- MCStatus
  MaxEvents = 1
INVARIANT ReportedAsStored
PROPERTY ReportCatchesUp
CHECK_DEADLOCK FALSE
