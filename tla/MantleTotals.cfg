SPECIFICATION Spec
CONSTANTS
  teamA = teamA  teamB = teamB  modelX = modelX  modelY = modelY
  r1 = r1  q1 = q1  q2 = q2  q3 = q3  obj1 = obj1  obj2 = obj2  p1 = p1  p2 = p2
  Unmapped = Unmapped  None = None
  Roles = {r1}
  Teams = {teamA, teamB}
  Callers = {}
  Models = {modelX}
  MaxDay = 2
  Requests = {q1}
  RoleOf <- OneRole
  SlotOf <- SlotX
  Events = {}
  LinesOf <- NoLines
  Attempts = 3
  Projects = {p1, p2}
  MantleModels = {modelX}
  InitProjects <- SoleTeams
  MaxMetric = 2
  Limit <- LMantle
INVARIANTS TypeOK MantleSettled
CHECK_DEADLOCK FALSE
