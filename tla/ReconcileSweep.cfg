SPECIFICATION Spec
CONSTANTS
  r1 = r1  r3 = r3 r2 = r2
  Unmapped = Unmapped  None = None
  Roles = {r1, r2}
  Teams = {teamA}
  Callers = {w1}
  Jobs = {j1}
  Pages = 2
  PageOf <- TwoPages
  MaxReceive = 2
  MaxPolls = 0
  MaxOutside = 1
INVARIANTS SweepCorrects
CHECK_DEADLOCK FALSE
