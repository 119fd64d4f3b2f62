SPECIFICATION FairSpec
CONSTANTS
  teamA = teamA  modelX = modelX  NoTeam = NoTeam  Untagged = Untagged  None = None
  Slots = {s1, s2}
  Teams = {teamA}
  Lines <- MCLines
  MaxDay = 3
  MaxPeriod = 2
  Period <- MCPeriod
  Window = 1
  MaxCost = 1
  InitBill <- MCBill
  MaxEvents = 2
INVARIANT CostAddsUp
PROPERTIES PeriodForward DashboardCatchesUp
CHECK_DEADLOCK FALSE
