-------------------------- MODULE QuotaEnforcement --------------------------
(***************************************************************************)
(* Enforcement of daily token quotas by IAM deny policies.                 *)
(*                                                                         *)
(* Four kinds of Lambda invocation share the Blocked_State table, the      *)
(* Team_Role_Cache and the inline policies of IAM roles, and hold no lock: *)
(*                                                                         *)
(*   - the Quota_Enforcer stream handler (src/quotaEnforcer.ts), one       *)
(*     invocation at a time for each shard of the usage stream;            *)
(*   - the Daily_Reset and the administrator's removeDenyPolicy            *)
(*     (src/dailyReset.ts), which share resetBlockedStatePair;             *)
(*   - the TagRole handler (src/tagRoleHandler.ts).                        *)
(*                                                                         *)
(* A step of this specification is what runs between two awaits of one     *)
(* handler: it holds one call to DynamoDB or to IAM and the local work     *)
(* that follows its answer.                                                *)
(***************************************************************************)
EXTENDS Naturals, Sequences, FiniteSets

CONSTANTS
  Teams,          \* values of the team tag
  Models,         \* model ids
  Roles,          \* IAM roles
  NoTeam,         \* a role with no row in the Team_Role_Cache
  MantleModels,   \* the models whose usage is also metered on bedrock-mantle
  Shards,         \* shards of the Usage_Aggregation stream
  ShardOf,        \* [Pairs -> Shards]: the shard of a (team, model) partition
  Admins,         \* concurrent removeDenyPolicy requests
  Taggers,        \* concurrent TagRole handler invocations
  InitTeamOf,     \* the caches a behaviour may start from
  InitQuota,      \* the quota tables a behaviour may start from
  BatchSize,      \* records of a stream batch (10 in infra/stack.ts)
  MaxDeliveries,  \* deliveries of a stream batch before it is dropped (11)
  Attempts,       \* deliveries of an asynchronous Lambda event (3)
  Overlap,        \* FALSE: no handler starts while another one is running
  MaxDay,         \* bound: the last Usage_Day
  MaxTokens,      \* bound: running totals and quotas
  Limit           \* bound: how often the environment may take each kind of step

Endpoints == {"bedrock-runtime", "bedrock-mantle"}
Statuses  == {"BLOCKED", "PENDING_RESET"}
Pairs     == Teams \X Models
Days      == 1 .. MaxDay
Policies  == Models \X Endpoints
Budgets   == {"use", "edit", "tag", "remap", "manual", "fault"}

ASSUME ConstantsAssumption ==
  /\ NoTeam \notin Teams
  /\ MantleModels \subseteq Models
  /\ ShardOf \in [Pairs -> Shards]
  /\ InitTeamOf \subseteq [Roles -> Teams \cup {NoTeam}]
  /\ InitQuota \subseteq [Pairs -> 0 .. MaxTokens]
  /\ "reset" \notin Admins
  /\ BatchSize \in Nat \ {0}
  /\ MaxDeliveries \in Nat \ {0}
  /\ Attempts \in Nat \ {0}
  /\ Overlap \in BOOLEAN
  /\ MaxDay \in Nat \ {0}
  /\ MaxTokens \in Nat
  /\ Limit \in [Budgets -> Nat]

VARIABLES
  day,       \* the current Usage_Day (UTC)
  quota,     \* Quota_Configuration: daily token quota of a pair, 0 when absent
  usage,     \* Usage_Aggregation: the pair's running total for the current day
  stream,    \* [Shards -> Seq(Record)]: records from the shard's checkpoint on
  blocked,   \* Blocked_State: the row of each pair
  teamOf,    \* Team_Role_Cache
  deny,      \* inline deny policies: a set of <<role, model, endpoint>>
  enf,       \* [Shards -> enforcer invocation]
  rem,       \* [Removers -> Daily_Reset or removeDenyPolicy invocation]
  due,       \* deliveries of today's Daily_Reset event still allowed
  tag,       \* [Taggers -> TagRole invocation]
  left,      \* what is left of each bound in Limit
  \* History, read by no action:
  peak,      \* the greatest total a pair's row of each day has held
  reached,   \* <<pair, day>> whose total has been at or above a quota in force
  served,    \* <<pair, endpoint>> for which usage was recorded
  mapped,    \* <<role, team>> the Team_Role_Cache has ever held
  swept,     \* days whose Daily_Reset ran to its end
  late       \* <<pair, day>> recorded BLOCKED after the day was over

tables  == <<quota, usage, stream>>
history == <<peak, reached, served, mapped, swept, late>>
vars    == <<day, tables, blocked, teamOf, deny, enf, rem, due, tag, left, history>>

-----------------------------------------------------------------------------
(* What the tables and the invocations hold.                               *)

Removers == {"reset"} \cup Admins

Record == [pair : Pairs, day : Days, total : 0 .. MaxTokens, endpoint : Endpoints]

Row   == [status : Statuses \cup {"NONE"}, day : 0 .. MaxDay, endpoint : Endpoints]
NoRow == [status |-> "NONE", day |-> 0, endpoint |-> "bedrock-runtime"]

(* A pair as queryPairsByStatusDay or removeDenyPolicy passes it to        *)
(* resetBlockedStatePair.                                                  *)
Job == [pair : Pairs, status : Statuses, day : Days, endpoint : Endpoints]

EnfState == [pc : {"idle", "fetch", "guard", "list", "attach",
                   "liftGuard", "liftList", "detach"},
             now : Days, n : Nat, i : Nat, todo : SUBSET Roles,
             failed : BOOLEAN, tries : Nat]
EnfIdle == [pc |-> "idle", now |-> 1, n |-> 0, i |-> 0, todo |-> {},
            failed |-> FALSE, tries |-> 0]

RemState == [pc : {"idle", "query", "next", "remove"}, prev : 0 .. MaxDay,
             ask : SUBSET Statuses, queue : SUBSET Job, cur : SUBSET Job,
             todo : SUBSET Roles, failed : BOOLEAN]
RemIdle == [pc |-> "idle", prev |-> 0, ask |-> {}, queue |-> {}, cur |-> {},
            todo |-> {}, failed |-> FALSE]

TagState == [pc : {"idle", "cache", "query", "attach"}, role : SUBSET Roles,
             team : SUBSET Teams, todo : SUBSET Policies, tries : Nat]
TagIdle == [pc |-> "idle", role |-> {}, team |-> {}, todo |-> {}, tries |-> 0]

(* Mutant: only the first page of the TeamIndex query is read.             *)
RolesOf_firstPage(t) ==
  LET all == {r \in Roles : teamOf[r] = t}
  IN  IF all = {} THEN {} ELSE {CHOOSE r \in all : TRUE}

RolesOf(t) == {r \in Roles : teamOf[r] = t}

(* The record under evaluation, and the row of its pair.                   *)
Rec(s) == stream[s][enf[s].i]
RowOf(s) == blocked[Rec(s).pair]

Idle ==
  /\ \A s \in Shards : enf[s].pc = "idle"
  /\ \A x \in Removers : rem[x].pc = "idle"
  /\ \A w \in Taggers : tag[w].pc = "idle"

MayStart == Overlap \/ Idle

Spend(b) == left[b] > 0 /\ left' = [left EXCEPT ![b] = @ - 1]

Earlier(a, b) == IF a < b THEN a ELSE b

-----------------------------------------------------------------------------
Init ==
  /\ day = 1
  /\ quota \in InitQuota
  /\ usage = [p \in Pairs |-> 0]
  /\ stream = [s \in Shards |-> <<>>]
  /\ blocked = [p \in Pairs |-> NoRow]
  /\ teamOf \in InitTeamOf
  /\ deny = {}
  /\ enf = [s \in Shards |-> EnfIdle]
  /\ rem = [x \in Removers |-> RemIdle]
  /\ due = 0
  /\ tag = [w \in Taggers |-> TagIdle]
  /\ left = Limit
  /\ peak = [p \in Pairs |-> [d \in Days |-> 0]]
  /\ reached = {}
  /\ served = {}
  /\ mapped = {rt \in Roles \X Teams : teamOf[rt[1]] = rt[2]}
  /\ swept = {}
  /\ late = {}

-----------------------------------------------------------------------------
(* The environment: usage, administrators' edits, the clock.               *)

(* A collector leaves the total v on today's row of pair p, stamps the row *)
(* with its own endpoint, and the stream carries the new image.            *)
WriteUsage(p, v, e) ==
  LET top == IF v > peak[p][day] THEN v ELSE peak[p][day]
  IN  /\ Spend("use")
      /\ usage' = [usage EXCEPT ![p] = v]
      /\ stream' = [stream EXCEPT ![ShardOf[p]] = Append(@,
                      [pair |-> p, day |-> day, total |-> v, endpoint |-> e])]
      /\ peak' = [peak EXCEPT ![p][day] = top]
      /\ reached' = IF quota[p] > 0 /\ top >= quota[p]
                    THEN reached \cup {<<p, day>>} ELSE reached
      /\ served' = served \cup {<<p, e>>}
      /\ UNCHANGED <<day, quota, blocked, teamOf, deny, enf, rem, due, tag,
                     mapped, swept, late>>

(* Usage_Collector: ADD to the running total (processInvocationLogEntry).  *)
AddUsage(p, k) ==
  /\ usage[p] + k <= MaxTokens
  /\ WriteUsage(p, usage[p] + k, "bedrock-runtime")

(* Mantle collector: SET the same attribute to CloudWatch's sum for the    *)
(* day, whatever the row held (writeMantleUsageRecord).                    *)
SetUsage(p, v) ==
  /\ p[2] \in MantleModels
  /\ WriteUsage(p, v, "bedrock-mantle")

(* handlePutQuota: a positive integer; there is no operation to delete a   *)
(* quota.  The enforcer is not told.                                       *)
PutQuota(p, q) ==
  /\ Spend("edit")
  /\ quota[p] # q
  /\ quota' = [quota EXCEPT ![p] = q]
  /\ reached' = reached \cup {<<p, d>> : d \in {d \in Days : peak[p][d] >= q}}
  /\ UNCHANGED <<day, usage, stream, blocked, teamOf, deny, enf, rem, due, tag,
                 peak, served, mapped, swept, late>>

(* The Team_Role_Cache row of a role changes by another writer: resolveTeam, *)
(* the reconcile sweep, mapRoleToTeam or DynamoDB's TTL.                    *)
Remap(r, t) ==
  /\ Spend("remap")
  /\ teamOf[r] # t
  /\ teamOf' = [teamOf EXCEPT ![r] = t]
  /\ mapped' = IF t = NoTeam THEN mapped ELSE mapped \cup {<<r, t>>}
  /\ UNCHANGED <<day, tables, blocked, deny, enf, rem, due, tag,
                 peak, reached, served, swept, late>>

(* Midnight UTC.  A day is longer than any invocation: what runs across    *)
(* midnight started on the day that ends, and the Daily_Reset event of     *)
(* that day has been delivered for the last time.                          *)
NextDay ==
  /\ day < MaxDay
  /\ due = 0 /\ rem["reset"].pc = "idle"
  /\ \A s \in Shards : enf[s].pc # "idle" => enf[s].now = day
  /\ day' = day + 1
  /\ usage' = [p \in Pairs |-> 0]
  /\ due' = Attempts
  /\ UNCHANGED <<quota, stream, blocked, teamOf, deny, enf, rem, tag, left, history>>

-----------------------------------------------------------------------------
(* Quota_Enforcer, stream trigger (handleUsageAggregationStreamEvent and   *)
(* evaluateUsageAggregationChange).                                        *)

enforcerUnchanged == <<day, tables, teamOf, rem, due, tag,
                       peak, reached, served, mapped, swept>>

(* An invocation receives a batch; it reads the clock once for all of it.  *)
StartBatch(s) ==
  /\ enf[s].pc = "idle" /\ MayStart
  /\ stream[s] # <<>>
  /\ \E n \in 1 .. Earlier(BatchSize, Len(stream[s])) :
       enf' = [enf EXCEPT ![s] = [enf[s] EXCEPT !.pc = "fetch", !.now = day, !.n = n, !.i = 1]]
  /\ UNCHANGED <<enforcerUnchanged, blocked, deny, left, late>>

NextRecord(s) == [enf[s] EXCEPT !.pc = "fetch", !.i = @ + 1]

(* The record is not about the day the invocation started on.              *)
SkipRecord(s) ==
  /\ enf[s].pc = "fetch" /\ enf[s].i <= enf[s].n
  /\ Rec(s).day # enf[s].now
  /\ enf' = [enf EXCEPT ![s] = NextRecord(s)]
  /\ UNCHANGED <<enforcerUnchanged, blocked, deny, left, late>>

(* Mutant: a breach is seen one token early.                               *)
ReadQuota_early(s) ==
  /\ enf[s].pc = "fetch" /\ enf[s].i <= enf[s].n
  /\ Rec(s).day = enf[s].now
  /\ LET q == quota[Rec(s).pair]
     IN  enf' = [enf EXCEPT ![s].pc =
                   IF q = 0 \/ Rec(s).total + 1 < q THEN "liftGuard" ELSE "guard"]
  /\ UNCHANGED <<enforcerUnchanged, blocked, deny, left, late>>

(* getQuota answers: no quota or a total below it leads to the removal     *)
(* path, a total at or above it to the attachment path.                    *)
ReadQuota(s) ==
  /\ enf[s].pc = "fetch" /\ enf[s].i <= enf[s].n
  /\ Rec(s).day = enf[s].now
  /\ LET q == quota[Rec(s).pair]
     IN  enf' = [enf EXCEPT ![s].pc =
                   IF q = 0 \/ Rec(s).total < q THEN "liftGuard" ELSE "guard"]
  /\ UNCHANGED <<enforcerUnchanged, blocked, deny, left, late>>

(* getBlockedState on the attachment path: any row at all means the pair   *)
(* is already blocked.                                                     *)
CheckBlocked(s) ==
  /\ enf[s].pc = "guard"
  /\ enf' = [enf EXCEPT ![s] = IF RowOf(s).status # "NONE" THEN NextRecord(s)
                               ELSE [enf[s] EXCEPT !.pc = "list"]]
  /\ UNCHANGED <<enforcerUnchanged, blocked, deny, left, late>>

(* listRolesForTeam, on either path.                                       *)
ListRoles(s) ==
  /\ enf[s].pc \in {"list", "liftList"}
  /\ enf' = [enf EXCEPT ![s] = [enf[s] EXCEPT
               !.pc = IF @ = "list" THEN "attach" ELSE "detach",
               !.todo = RolesOf(Rec(s).pair[1]), !.failed = FALSE]]
  /\ UNCHANGED <<enforcerUnchanged, blocked, deny, left, late>>

(* One role of a loop: the retried IAM call succeeds, or it fails for good *)
(* and IAM may or may not have applied one of the attempts.                *)
EnforcerRole(s, r, policies) ==
  \/ /\ deny' = policies
     /\ enf' = [enf EXCEPT ![s].todo = @ \ {r}]
     /\ UNCHANGED left
  \/ /\ Spend("fault")
     /\ deny' \in {deny, policies}
     /\ enf' = [enf EXCEPT ![s] = [enf[s] EXCEPT !.todo = @ \ {r}, !.failed = TRUE]]

(* attachModelDenyPolicy, under the endpoint of the record.                *)
AttachDeny(s, r) ==
  /\ enf[s].pc = "attach" /\ r \in enf[s].todo
  /\ EnforcerRole(s, r, deny \cup {<<r, Rec(s).pair[2], Rec(s).endpoint>>})
  /\ UNCHANGED <<enforcerUnchanged, blocked, late>>

(* Mutant: putBlockedState is called without the endpoint and takes its    *)
(* default.                                                                *)
PutBlockedState_noEndpoint(s) ==
  /\ enf[s].pc = "attach" /\ enf[s].todo = {}
  /\ blocked' = [blocked EXCEPT ![Rec(s).pair] =
       [status |-> "BLOCKED", day |-> Rec(s).day, endpoint |-> "bedrock-runtime"]]
  /\ late' = IF Rec(s).day < day THEN late \cup {<<Rec(s).pair, Rec(s).day>>} ELSE late
  /\ enf' = [enf EXCEPT ![s] = NextRecord(s)]
  /\ UNCHANGED <<enforcerUnchanged, deny, left>>

(* putBlockedState, whatever became of the attachments and of the row      *)
(* since it was read; the day is the record's.                             *)
PutBlockedState(s) ==
  /\ enf[s].pc = "attach" /\ enf[s].todo = {}
  /\ blocked' = [blocked EXCEPT ![Rec(s).pair] =
       [status |-> "BLOCKED", day |-> Rec(s).day, endpoint |-> Rec(s).endpoint]]
  /\ late' = IF Rec(s).day < day THEN late \cup {<<Rec(s).pair, Rec(s).day>>} ELSE late
  /\ enf' = [enf EXCEPT ![s] = NextRecord(s)]
  /\ UNCHANGED <<enforcerUnchanged, deny, left>>

(* removeDenyForConfigChange: only a BLOCKED row is lifted.                *)
LiftGuard(s) ==
  /\ enf[s].pc = "liftGuard"
  /\ enf' = [enf EXCEPT ![s] = IF RowOf(s).status # "BLOCKED" THEN NextRecord(s)
                               ELSE [enf[s] EXCEPT !.pc = "liftList"]]
  /\ UNCHANGED <<enforcerUnchanged, blocked, deny, left, late>>

(* removeModelDenyPolicy, under the endpoint of the record and not of the  *)
(* row.                                                                    *)
DetachDeny(s, r) ==
  /\ enf[s].pc = "detach" /\ r \in enf[s].todo
  /\ EnforcerRole(s, r, deny \ {<<r, Rec(s).pair[2], Rec(s).endpoint>>})
  /\ UNCHANGED <<enforcerUnchanged, blocked, late>>

(* Mutant: the row is cleared although the removal failed for a role.      *)
FinishLift_clears(s) ==
  /\ enf[s].pc = "detach" /\ enf[s].todo = {}
  /\ blocked' = [blocked EXCEPT ![Rec(s).pair] = NoRow]
  /\ enf' = [enf EXCEPT ![s] = NextRecord(s)]
  /\ UNCHANGED <<enforcerUnchanged, deny, left, late>>

(* clearBlockedState, unless the removal failed for a role.                *)
FinishLift(s) ==
  /\ enf[s].pc = "detach" /\ enf[s].todo = {}
  /\ blocked' = IF enf[s].failed THEN blocked
                ELSE [blocked EXCEPT ![Rec(s).pair] = NoRow]
  /\ enf' = [enf EXCEPT ![s] = NextRecord(s)]
  /\ UNCHANGED <<enforcerUnchanged, deny, left, late>>

(* The checkpoint moves past a batch: the invocation returned, or it was   *)
(* the last delivery the event source grants.                              *)
Checkpoint(s) == stream' = [stream EXCEPT ![s] = SubSeq(@, enf[s].n + 1, Len(@))]

checkpointUnchanged == <<day, quota, usage, blocked, teamOf, deny, rem, due, tag, history>>

FinishBatch(s) ==
  /\ enf[s].pc = "fetch" /\ enf[s].i > enf[s].n
  /\ Checkpoint(s)
  /\ enf' = [enf EXCEPT ![s] = EnfIdle]
  /\ UNCHANGED <<checkpointUnchanged, left>>

(* Mutant: a batch is acknowledged although its invocation failed.         *)
CrashEnforcer_acknowledged(s) ==
  /\ enf[s].pc # "idle"
  /\ Spend("fault")
  /\ Checkpoint(s)
  /\ enf' = [enf EXCEPT ![s] = EnfIdle]
  /\ UNCHANGED checkpointUnchanged

(* The invocation throws (a DynamoDB call failed) or is killed: the batch  *)
(* is delivered again from its first record, until it has been delivered   *)
(* MaxDeliveries times.                                                    *)
CrashEnforcer(s) ==
  /\ enf[s].pc # "idle"
  /\ Spend("fault")
  /\ IF enf[s].tries + 1 = MaxDeliveries
     THEN /\ Checkpoint(s)
          /\ enf' = [enf EXCEPT ![s] = EnfIdle]
     ELSE /\ enf' = [enf EXCEPT ![s] = [EnfIdle EXCEPT !.tries = enf[s].tries + 1]]
          /\ UNCHANGED stream
  /\ UNCHANGED checkpointUnchanged

-----------------------------------------------------------------------------
(* Daily_Reset and removeDenyPolicy.                                       *)

removerUnchanged == <<day, tables, teamOf, enf, tag,
                      peak, reached, served, mapped, late>>

(* EventBridge's rule fired at midnight; the event is delivered again when *)
(* the invocation fails.                                                   *)
StartReset ==
  /\ due > 0 /\ rem["reset"].pc = "idle" /\ MayStart
  /\ due' = due - 1
  /\ rem' = [rem EXCEPT !["reset"] =
       [RemIdle EXCEPT !.pc = "query", !.prev = day - 1, !.ask = Statuses]]
  /\ UNCHANGED <<removerUnchanged, blocked, deny, left, swept>>

(* Mutant: the answer of the second query replaces that of the first.      *)
QueryPairs_lastAnswerWins(st) ==
  /\ rem["reset"].pc = "query" /\ st \in rem["reset"].ask
  /\ LET prev  == rem["reset"].prev
         found == {p \in Pairs : blocked[p].status = st /\ blocked[p].day = prev}
         jobs  == {[pair |-> p, status |-> st, day |-> prev,
                    endpoint |-> blocked[p].endpoint] : p \in found}
         ask   == rem["reset"].ask \ {st}
     IN  rem' = [rem EXCEPT !["reset"] = [rem["reset"] EXCEPT
                   !.queue = jobs, !.ask = ask,
                   !.pc = IF ask = {} THEN "next" ELSE "query"]]
  /\ UNCHANGED <<removerUnchanged, blocked, deny, due, left, swept>>

(* queryPairsByStatusDay: both queries are issued at once, and each reads  *)
(* the StatusDayIndex when DynamoDB serves it.                             *)
QueryPairs(st) ==
  /\ rem["reset"].pc = "query" /\ st \in rem["reset"].ask
  /\ LET prev  == rem["reset"].prev
         found == {p \in Pairs : blocked[p].status = st /\ blocked[p].day = prev}
         jobs  == {[pair |-> p, status |-> st, day |-> prev,
                    endpoint |-> blocked[p].endpoint] : p \in found}
         ask   == rem["reset"].ask \ {st}
     IN  rem' = [rem EXCEPT !["reset"] = [rem["reset"] EXCEPT
                   !.queue = @ \cup jobs, !.ask = ask,
                   !.pc = IF ask = {} THEN "next" ELSE "query"]]
  /\ UNCHANGED <<removerUnchanged, blocked, deny, due, left, swept>>

(* Mutant: no defaults when the pair has no row.                           *)
StartManual_noDefaults(x, p) ==
  /\ rem[x].pc = "idle" /\ MayStart
  /\ Spend("manual")
  /\ LET row == blocked[p]
         job == [pair |-> p, status |-> row.status, day |-> row.day,
                 endpoint |-> row.endpoint]
     IN  rem' = [rem EXCEPT ![x] = [RemIdle EXCEPT !.pc = "next", !.queue = {job}]]
  /\ UNCHANGED <<removerUnchanged, blocked, deny, due, swept>>

(* removeDenyPolicy reads the row; without one it takes today and          *)
(* bedrock-runtime.                                                        *)
StartManual(x, p) ==
  /\ rem[x].pc = "idle" /\ MayStart
  /\ Spend("manual")
  /\ LET row == blocked[p]
         job == IF row.status = "NONE"
                THEN [pair |-> p, status |-> "BLOCKED", day |-> day,
                      endpoint |-> "bedrock-runtime"]
                ELSE [pair |-> p, status |-> row.status, day |-> row.day,
                      endpoint |-> row.endpoint]
     IN  rem' = [rem EXCEPT ![x] = [RemIdle EXCEPT !.pc = "next", !.queue = {job}]]
  /\ UNCHANGED <<removerUnchanged, blocked, deny, due, swept>>

(* resetBlockedStatePair begins with listRolesForTeam.  BLOCKED pairs come *)
(* before PENDING_RESET pairs.                                             *)
BeginPair(x, j) ==
  /\ rem[x].pc = "next" /\ j \in rem[x].queue
  /\ j.status = "PENDING_RESET" => \A k \in rem[x].queue : k.status = "PENDING_RESET"
  /\ rem' = [rem EXCEPT ![x] = [rem[x] EXCEPT
               !.pc = "remove", !.queue = @ \ {j}, !.cur = {j},
               !.todo = RolesOf(j.pair[1]), !.failed = FALSE]]
  /\ UNCHANGED <<removerUnchanged, blocked, deny, due, left, swept>>

(* deleteRolePolicy for one role, under the endpoint of the job.  A policy *)
(* that is not there counts as deleted (iamClient.deleteRolePolicy).       *)
RemoveDeny(x, r) ==
  /\ rem[x].pc = "remove" /\ r \in rem[x].todo
  /\ \E j \in rem[x].cur :
       LET policies == deny \ {<<r, j.pair[2], j.endpoint>>}
       IN  \/ /\ deny' = policies
              /\ rem' = [rem EXCEPT ![x].todo = @ \ {r}]
              /\ UNCHANGED left
           \/ /\ Spend("fault")
              /\ deny' \in {deny, policies}
              /\ rem' = [rem EXCEPT ![x] = [rem[x] EXCEPT !.todo = @ \ {r}, !.failed = TRUE]]
  /\ UNCHANGED <<removerUnchanged, blocked, due, swept>>

(* Mutant: the row is deleted although the removal failed for a role.      *)
SettlePair_clears(x) ==
  /\ rem[x].pc = "remove" /\ rem[x].todo = {}
  /\ \E j \in rem[x].cur : blocked' = [blocked EXCEPT ![j.pair] = NoRow]
  /\ rem' = [rem EXCEPT ![x] = [rem[x] EXCEPT !.pc = "next", !.cur = {}, !.failed = FALSE]]
  /\ UNCHANGED <<removerUnchanged, deny, due, left, swept>>

(* The pair's row: PENDING_RESET for the day of its block when a role      *)
(* failed, deleted otherwise; both writes are unconditional.               *)
SettlePair(x) ==
  /\ rem[x].pc = "remove" /\ rem[x].todo = {}
  /\ \E j \in rem[x].cur :
       blocked' = [blocked EXCEPT ![j.pair] =
         IF rem[x].failed
         THEN [status |-> "PENDING_RESET", day |-> j.day, endpoint |-> j.endpoint]
         ELSE NoRow]
  /\ rem' = [rem EXCEPT ![x] = [rem[x] EXCEPT !.pc = "next", !.cur = {}, !.failed = FALSE]]
  /\ UNCHANGED <<removerUnchanged, deny, due, left, swept>>

FinishRemover(x) ==
  /\ rem[x].pc = "next" /\ rem[x].queue = {}
  /\ rem' = [rem EXCEPT ![x] = RemIdle]
  /\ IF x = "reset" THEN due' = 0 /\ swept' = swept \cup {rem[x].prev}
                    ELSE UNCHANGED <<due, swept>>
  /\ UNCHANGED <<removerUnchanged, blocked, deny, left>>

(* Mutant: a failed Daily_Reset is not delivered again.                    *)
CrashRemover_noRetry(x) ==
  /\ rem[x].pc # "idle"
  /\ Spend("fault")
  /\ rem' = [rem EXCEPT ![x] = RemIdle]
  /\ due' = 0
  /\ UNCHANGED <<removerUnchanged, blocked, deny, swept>>

(* The invocation throws or is killed; StartReset delivers the scheduled   *)
(* event again while due allows it, a request of an administrator is lost. *)
CrashRemover(x) ==
  /\ rem[x].pc # "idle"
  /\ Spend("fault")
  /\ rem' = [rem EXCEPT ![x] = RemIdle]
  /\ UNCHANGED <<removerUnchanged, blocked, deny, due, swept>>

-----------------------------------------------------------------------------
(* TagRole handler (handleTagRoleEvent).                                   *)

taggerUnchanged == <<day, tables, blocked, enf, rem, due,
                     peak, reached, served, swept, late>>

(* cacheRoleTeam: the first call of every delivery of the event.           *)
CacheRole(w, r, t) ==
  /\ teamOf' = [teamOf EXCEPT ![r] = t]
  /\ mapped' = mapped \cup {<<r, t>>}
  /\ tag' = [tag EXCEPT ![w] = [tag[w] EXCEPT !.pc = "query", !.role = {r}, !.team = {t},
                                         !.tries = @ + 1]]
  /\ UNCHANGED <<taggerUnchanged, deny>>

TagRole(w, r, t) ==
  /\ tag[w].pc = "idle" /\ MayStart
  /\ Spend("tag")
  /\ CacheRole(w, r, t)

RedeliverTagRole(w, r, t) ==
  /\ tag[w].pc = "cache" /\ r \in tag[w].role /\ t \in tag[w].team
  /\ CacheRole(w, r, t)
  /\ UNCHANGED left

(* listBlockedModelsForTeam: PENDING_RESET rows are left out.              *)
QueryBlocked(w, t) ==
  /\ tag[w].pc = "query" /\ t \in tag[w].team
  /\ LET found == {m \in Models : blocked[<<t, m>>].status = "BLOCKED"}
         todo  == {<<m, blocked[<<t, m>>].endpoint>> : m \in found}
     IN  tag' = [tag EXCEPT ![w] = IF todo = {} THEN TagIdle
                                   ELSE [tag[w] EXCEPT !.pc = "attach", !.todo = todo]]
  /\ UNCHANGED <<taggerUnchanged, teamOf, mapped, deny, left>>

(* Mutant: the Converse policy is attached whatever the endpoint.          *)
AttachInherited_runtimeOnly(w, r, me) ==
  /\ tag[w].pc = "attach" /\ r \in tag[w].role /\ me \in tag[w].todo
  /\ deny' = deny \cup {<<r, me[1], "bedrock-runtime">>}
  /\ tag' = [tag EXCEPT ![w] = IF tag[w].todo = {me} THEN TagIdle
                               ELSE [tag[w] EXCEPT !.todo = @ \ {me}]]
  /\ UNCHANGED <<taggerUnchanged, teamOf, mapped, left>>

AttachInherited(w, r, me) ==
  /\ tag[w].pc = "attach" /\ r \in tag[w].role /\ me \in tag[w].todo
  /\ deny' = deny \cup {<<r, me[1], me[2]>>}
  /\ tag' = [tag EXCEPT ![w] = IF tag[w].todo = {me} THEN TagIdle
                               ELSE [tag[w] EXCEPT !.todo = @ \ {me}]]
  /\ UNCHANGED <<taggerUnchanged, teamOf, mapped, left>>

(* Mutant: a failed TagRole event is not delivered again.                  *)
CrashTagger_noRetry(w) ==
  /\ tag[w].pc \in {"query", "attach"}
  /\ Spend("fault")
  /\ deny' \in {deny} \cup {deny \cup {<<r, me[1], me[2]>>} :
                              r \in tag[w].role, me \in tag[w].todo}
  /\ tag' = [tag EXCEPT ![w] = TagIdle]
  /\ UNCHANGED <<taggerUnchanged, teamOf, mapped>>

(* The invocation throws: a call failed for good (an attachment may have   *)
(* been applied) or the Lambda was killed.  The event is delivered again   *)
(* Attempts times at most.                                                 *)
CrashTagger(w) ==
  /\ tag[w].pc \in {"query", "attach"}
  /\ Spend("fault")
  /\ deny' \in {deny} \cup {deny \cup {<<r, me[1], me[2]>>} :
                              r \in tag[w].role, me \in tag[w].todo}
  /\ tag' = [tag EXCEPT ![w] = IF tag[w].tries >= Attempts THEN TagIdle
                               ELSE [tag[w] EXCEPT !.pc = "cache", !.todo = {}]]
  /\ UNCHANGED <<taggerUnchanged, teamOf, mapped>>

-----------------------------------------------------------------------------
Environment ==
  \/ \E p \in Pairs, k \in 1 .. MaxTokens : AddUsage(p, k)
  \/ \E p \in Pairs, v \in 1 .. MaxTokens : SetUsage(p, v)
  \/ \E p \in Pairs, q \in 1 .. MaxTokens : PutQuota(p, q)
  \/ \E r \in Roles, t \in Teams \cup {NoTeam} : Remap(r, t)
  \/ NextDay

EnforcerStep(s) ==
  \/ StartBatch(s)
  \/ SkipRecord(s)
  \/ ReadQuota(s)
  \/ CheckBlocked(s)
  \/ ListRoles(s)
  \/ \E r \in Roles : AttachDeny(s, r)
  \/ PutBlockedState(s)
  \/ LiftGuard(s)
  \/ \E r \in Roles : DetachDeny(s, r)
  \/ FinishLift(s)
  \/ FinishBatch(s)

ResetStep ==
  \/ StartReset
  \/ \E st \in Statuses : QueryPairs(st)

RemoverStep(x) ==
  \/ \E j \in rem[x].queue : BeginPair(x, j)
  \/ \E r \in Roles : RemoveDeny(x, r)
  \/ SettlePair(x)
  \/ FinishRemover(x)

TaggerStep(w) ==
  \/ \E r \in Roles, t \in Teams : RedeliverTagRole(w, r, t)
  \/ \E t \in Teams : QueryBlocked(w, t)
  \/ \E r \in Roles, me \in Policies : AttachInherited(w, r, me)

Request ==
  \/ \E x \in Admins, p \in Pairs : StartManual(x, p)
  \/ \E w \in Taggers, r \in Roles, t \in Teams : TagRole(w, r, t)

Crash ==
  \/ \E s \in Shards : CrashEnforcer(s)
  \/ \E x \in Removers : CrashRemover(x)
  \/ \E w \in Taggers : CrashTagger(w)

Next ==
  \/ Environment
  \/ \E s \in Shards : EnforcerStep(s)
  \/ ResetStep
  \/ \E x \in Removers : RemoverStep(x)
  \/ \E w \in Taggers : TaggerStep(w)
  \/ Request
  \/ Crash

Spec == Init /\ [][Next]_vars

(* Lambda, the event source and EventBridge keep running what has started  *)
(* and deliver what is pending; usage, edits, tagging, requests, the clock *)
(* and failures are under no obligation.                                   *)
Fairness ==
  /\ \A s \in Shards : WF_vars(EnforcerStep(s))
  /\ WF_vars(ResetStep)
  /\ \A x \in Removers : WF_vars(RemoverStep(x))
  /\ \A w \in Taggers : WF_vars(TaggerStep(w))

FairSpec == Spec /\ Fairness

-----------------------------------------------------------------------------
(* Type invariant: what the tables and the in-flight invocations hold.     *)
TypeOK ==
  /\ day \in Days
  /\ quota \in [Pairs -> 0 .. MaxTokens]
  /\ usage \in [Pairs -> 0 .. MaxTokens]
  /\ stream \in [Shards -> Seq(Record)]
  /\ blocked \in [Pairs -> Row]
  /\ teamOf \in [Roles -> Teams \cup {NoTeam}]
  /\ deny \subseteq Roles \X Models \X Endpoints
  /\ enf \in [Shards -> EnfState]
  /\ rem \in [Removers -> RemState]
  /\ due \in 0 .. Attempts
  /\ tag \in [Taggers -> TagState]
  /\ left \in [Budgets -> Nat]
  /\ peak \in [Pairs -> [Days -> 0 .. MaxTokens]]
  /\ reached \subseteq Pairs \X Days
  /\ served \subseteq Pairs \X Endpoints
  /\ mapped \subseteq Roles \X Teams
  /\ swept \subseteq 0 .. MaxDay
  /\ late \subseteq Pairs \X Days

(* A role is denied a model on an endpoint only if some team it has been   *)
(* mapped to used that very model on that very endpoint and reached a      *)
(* quota for it: redeliveries, races of the handlers, retagging and quota  *)
(* edits in between never deny another model, another endpoint or another  *)
(* team's role (quotaEnforcer.ts attachModelDenyPolicy, tagRoleHandler.ts).*)
DenyJustified ==
  \A r \in Roles, m \in Models, e \in Endpoints :
    <<r, m, e>> \in deny =>
      \E t \in Teams : /\ <<r, t>> \in mapped
                       /\ <<<<t, m>>, e>> \in served
                       /\ \E d \in Days : <<<<t, m>>, d>> \in reached

(* A BLOCKED row names a day on which the pair did reach a quota in force, *)
(* and an endpoint it was used on, however old the record, the quota and   *)
(* the row the handler read before it wrote (quotaEnforcer.ts              *)
(* putBlockedState).                                                       *)
BlockJustified ==
  \A p \in Pairs :
    blocked[p].status = "BLOCKED" => /\ <<p, blocked[p].day>> \in reached
                                     /\ <<p, blocked[p].endpoint>> \in served

(* Once the Daily_Reset of a day has run to its end no pair is BLOCKED for *)
(* that day, the pairs an enforcer recorded after midnight excepted        *)
(* (dailyReset.ts runDailyReset).                                          *)
SweptDaysAreClear ==
  \A p \in Pairs :
    blocked[p].status = "BLOCKED" /\ blocked[p].day \in swept
      => <<p, blocked[p].day>> \in late

-----------------------------------------------------------------------------
(* What holds between two invocations when handlers do not overlap         *)
(* (Overlap = FALSE), nothing fails (fault = 0) and only the TagRole       *)
(* handler writes the Team_Role_Cache (remap = 0: no resolveTeam, mapping  *)
(* by hand, sweep or expiry).  EnforcementRaces says what holds otherwise. *)

(* Every role the cache maps to a blocked team is denied, tagged before or *)
(* after the breach (quotaEnforcer.ts and tagRoleHandler.ts together).     *)
EnforcedWhenIdle ==
  Idle => \A p \in Pairs, r \in Roles :
            blocked[p].status = "BLOCKED" /\ teamOf[r] = p[1]
              => <<r, p[2], blocked[p].endpoint>> \in deny

(* A role that has belonged to one team only is denied a model only while  *)
(* a row records it: lifting, reset and manual removal leave no stray      *)
(* policy behind (removeDenyForConfigChange, resetBlockedStatePair).       *)
DenyHasRow ==
  Idle => \A r \in Roles, p \in Pairs, e \in Endpoints :
            /\ <<r, p[2], e>> \in deny
            /\ <<r, p[1]>> \in mapped
            /\ \A t \in Teams : <<r, t>> \in mapped => t = p[1]
            => blocked[p].status # "NONE" /\ blocked[p].endpoint = e

-----------------------------------------------------------------------------
(* Liveness, under Fairness and fewer faults than deliveries.              *)

(* A record of the current day at or above the quota that waits in the     *)
(* stream leads to a row for its pair, unless the quota is raised above it *)
(* or the day ends first: no redelivery, skipped record or crash loses a   *)
(* breach (handleUsageAggregationStreamEvent).                             *)
BreachRecorded ==
  \A p \in Pairs, d \in Days, v \in 1 .. MaxTokens :
    /\ day = d /\ quota[p] \in 1 .. v
    /\ enf[ShardOf[p]].pc = "idle"
    /\ \E i \in DOMAIN stream[ShardOf[p]] :
         /\ stream[ShardOf[p]][i].pair = p
         /\ stream[ShardOf[p]][i].day = d
         /\ stream[ShardOf[p]][i].total = v
    ~> blocked[p].status # "NONE" \/ quota[p] > v \/ day # d

(* A pair BLOCKED for yesterday when the Daily_Reset falls due is not left *)
(* so, a crash of the reset and concurrent handlers notwithstanding.       *)
ResetReachesYesterday ==
  \A p \in Pairs, d \in Days :
    day = d + 1 /\ due = Attempts /\ blocked[p].status = "BLOCKED" /\ blocked[p].day = d
      ~> blocked[p].status # "BLOCKED" \/ blocked[p].day # d

(* A role tagged into a team that is blocked for a model when the handler  *)
(* is about to look ends up denied that model, unless the block is gone    *)
(* first: redelivery of the event makes up for a crash.                    *)
TaggedRoleInherits ==
  \A w \in Taggers, r \in Roles, p \in Pairs, e \in Endpoints :
    /\ tag[w].pc = "query" /\ r \in tag[w].role /\ p[1] \in tag[w].team
    /\ blocked[p].status = "BLOCKED" /\ blocked[p].endpoint = e
    ~> <<r, p[2], e>> \in deny \/ blocked[p].status # "BLOCKED" \/ blocked[p].endpoint # e

-----------------------------------------------------------------------------
(* What the source says and the code does not do.                          *)

(* dailyReset.ts: a PENDING_RESET pair is retried by a later Daily_Reset   *)
(* "indefinitely, with no abandonment".  A reset queries yesterday's       *)
(* partitions only, so a pair it may still find is at most a day old.      *)
PendingStaysInReach ==
  \A p \in Pairs :
    blocked[p].status = "PENDING_RESET" /\ day - 1 \in swept => blocked[p].day >= day - 1
=============================================================================
