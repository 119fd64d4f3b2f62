SPECIFICATION Spec
CONSTANTS
  teamA = teamA  teamB = teamB  modelX = modelX  modelY = modelY
  r1 = r1  r2 = r2  shard1 = shard1  shard2 = shard2
  NoTeam = NoTeam
  Teams = {teamA}
  Models = {modelX}
  Roles = {r1}
  MantleModels = {}
  Shards = {shard1}
  ShardOf <- OneShard
  Admins = {}
  Taggers = {}
  InitTeamOf <- AllOfA
  InitQuota <- Quota1
  BatchSize = 2
  MaxDeliveries = 3
  Attempts = 2
  Overlap = FALSE
  MaxDay = 3
  MaxTokens = 1
  Limit <- LPending
INVARIANT PendingStaysInReach
CHECK_DEADLOCK FALSE
