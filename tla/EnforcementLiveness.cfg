SPECIFICATION FairSpec
CONSTANTS
  teamA = teamA  teamB = teamB  modelX = modelX  modelY = modelY
  r1 = r1  r2 = r2  shard1 = shard1  shard2 = shard2
  NoTeam = NoTeam
  Teams = {teamA}
  Models = {modelX}
  Roles = {r1}
  MantleModels = {modelX}
  Shards = {shard1}
  ShardOf <- OneShard
  Admins = {}
  Taggers = {w1}
  InitTeamOf <- InOrOut
  InitQuota <- Quota1
  BatchSize = 2
  MaxDeliveries = 3
  Attempts = 2
  Overlap = TRUE
  MaxDay = 2
  MaxTokens = 1
  Limit <- LLive
PROPERTIES BreachRecorded ResetReachesYesterday TaggedRoleInherits
CHECK_DEADLOCK FALSE
