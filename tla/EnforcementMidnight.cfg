SPECIFICATION RaceSpec
CONSTANTS
  teamA = teamA  teamB = teamB  modelX = modelX  modelY = modelY
  r1 = r1  r2 = r2  shard1 = shard1  shard2 = shard2
  NoTeam = NoTeam
  Teams = {teamA, teamB}
  Models = {modelX}
  Roles = {r1}
  MantleModels = {modelX}
  Shards = {shard1}
  ShardOf <- OneShard
  Admins = {}
  Taggers = {}
  InitTeamOf <- AllOfA
  InitQuota <- QuotaA2
  BatchSize = 2
  MaxDeliveries = 2
  Attempts = 2
  Overlap = TRUE
  MaxDay = 2
  MaxTokens = 2
  Limit <- LMidnight
INVARIANTS BlockJustified SweptDaysAreClear EnforcedUnlessMissed RecordedUnlessStray
CHECK_DEADLOCK FALSE
