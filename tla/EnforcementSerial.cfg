SPECIFICATION Spec
CONSTANTS
  teamA = teamA  teamB = teamB  modelX = modelX  modelY = modelY
  r1 = r1  r2 = r2  shard1 = shard1  shard2 = shard2
  NoTeam = NoTeam
  Teams = {teamA, teamB}
  Models = {modelX}
  Roles = {r1, r2}
  MantleModels = {}
  Shards = {shard1}
  ShardOf <- OneShard
  Admins = {adm1}
  Taggers = {w1}
  InitTeamOf <- OnlyR1
  InitQuota <- Quota1
  BatchSize = 2
  MaxDeliveries = 3
  Attempts = 2
  Overlap = FALSE
  MaxDay = 2
  MaxTokens = 2
  Limit <- LSerial
INVARIANTS EnforcedWhenIdle DenyHasRow
CHECK_DEADLOCK FALSE
