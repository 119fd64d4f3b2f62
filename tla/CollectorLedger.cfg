SPECIFICATION FairSpec
CONSTANTS
  teamA = teamA  teamB = teamB  modelX = modelX  modelY = modelY
  r1 = r1  q1 = q1  q2 = q2  q3 = q3  obj1 = obj1  obj2 = obj2  p1 = p1  p2 = p2
  Unmapped = Unmapped  None = None
  Roles = {r1}
  Teams = {teamA}
  Callers = {w1, w2}
  Models = {modelX}
  MaxDay = 1
  Requests = {q1, q2, q3}
  RoleOf <- OneRole
  SlotOf <- SlotX
  Events = {obj1, obj2}
  LinesOf <- LinesEndingUndated
  Attempts = 2
  Projects = {}
  MantleModels = {}
  InitProjects <- NoProjects
  MaxMetric = 0
  Limit <- LCollect
INVARIANTS RowsWereHeld ChargeExplained
PROPERTIES ChargedOnce NeverGivenUp EntriesCounted
CHECK_DEADLOCK FALSE
