SPECIFICATION FairSpec
CONSTANTS
  r1 = r1  r2 = r2  r3 = r3
  Unmapped = Unmapped  None = None
  Roles = {r1, r2, r3}
  Teams = {teamA}
  Callers = {}
  Jobs = {j1}
  Pages = 2
  PageOf <- TwoPages
  MaxReceive = 2
  MaxPolls = 1
  MaxOutside = 0
INVARIANTS NoSilentStall ReportCovers ScreenTrue
PROPERTIES JobEnds PollingEnds
CHECK_DEADLOCK FALSE
