# Verification of bedrock-cost-control

TLA+ models of the quota system in `src/`: AWS Lambda handlers written in
TypeScript that meter each team's use of Bedrock models, compare it with daily
token quotas and enforce a breach with inline IAM deny policies. The handlers
share DynamoDB tables and IAM; they hold no locks, and every one of them can be
delivered twice, die half way or overlap another. Around them are an
administrator's web page, an SQS chain that reconciles a cache with IAM, and two
scheduled reports read by dashboards. That, and not the arithmetic,
is where this system can be wrong, so that is what the models keep.

Contents: 1 inventory, 2 modules, 3 runs, 4 fairness, 5 proofs, 6 disagreements
between text and code, 7 what is not modelled, 8 plan.

## 1. Inventory

| Component (source under `src/src`) | State | Operations | Hard part | Correct when |
|---|---|---|---|---|
| Usage_Collector (`usageCollector.ts`, its entry) | Usage_Aggregation rows, Processed_Requests | parse a log object's lines; one transaction per line: dedup record and ADD | S3 events at least once, crash between lines | every invocation counted once, for the right team and day |
| Mantle collector (`mantleUsageCollector.ts`, `mantleMetrics.ts`) | the same rows | SET the day's total per project and model | shares rows with the ADD path | the row is the day's total |
| Team_Role_Cache (`teamRoleCache.ts`) | role to team rows, some with expiry | `resolveTeam` (read, IAM, write), `cacheRoleTeam`, `deleteRoleTeam`, `listRolesForTeam` | a read of IAM written back later | the cache follows the tags |
| Quota_Configuration (`quotaConfigStore.ts`) | quota per team and model | `putQuota`, `getQuota` | edits do not notify anyone | - |
| Quota_Enforcer (`quotaEnforcer.ts`) | Blocked_State rows, inline policies | attach on a breach, lift when quota or total say so | stream batches redelivered from their first record; stale reads | a breach is denied on every role and recorded |
| TagRole handler (`tagRoleHandler.ts`) | cache row, inline policies | map the role, copy the team's blocks to it | races the enforcer, the reset and its own redelivery | a new role inherits the team's blocks |
| Daily_Reset, removeDenyPolicy (`dailyReset.ts`) | Blocked_State rows, inline policies | remove a pair's policies role by role, delete the row or mark it PENDING_RESET | acts on a snapshot; redelivery; midnight | yesterday's blocks are gone, today's are not |
| Reconciliation (`reconciliation.ts`, `reconcileWorker.ts`, `reconcileJobStore.ts`) | job row, SQS queue, cache rows | one IAM page per message, next page re-enqueued | at-least-once messages | the job ends, having seen every page |
| Admin API (`adminApi.ts`, its entry), Model_Registry (`pricing/`) | registry rows | quota, allow-list, catalog, mapping, removal, reconcile requests | rows from before regions were part of the key | the page shows what is stored; what it allows can be invoked |
| Budget page (`web/src/App.tsx`, `api.ts`) | fields, tables, an allow-list and a catalog copied from the API | type, load, save, add, allow, remove, refresh | answers that come late or out of order, a field changed during a call | a budget goes to the team it was typed under; what is shown is stored |
| Analytics export (`analyticsExportEntry.ts`, `analyticsExport.ts`), Audit_Log (`auditLog.ts`) | one object per table and day in S3 | read an index page by page, put a file | tables change between pages, runs overlap or die between files | a file says what the table says |
| CUR cost report (`curTeamCostEntry.ts`, `cur/`, `athenaClient.ts`) | one file of month-to-date dollars per day, a view | query, page the result, parse, add up, put | midnight at the end of a month, restated bills, result pages | dollars add up and are counted once |
| Notifications, DLQ handler, deployment resources | none | publish, classify, deploy | - | see section 7 |

Interactions. Both collectors write Usage_Aggregation, whose DynamoDB stream
feeds the Quota_Enforcer in batches, one invocation at a time per shard. The
enforcer, the reset, the administrator's removal and the TagRole handler all
read the Team_Role_Cache and read and write Blocked_State and IAM, one call at a
time. The reconciliation writes the same cache from what IAM says, one page of
roles per SQS message. The budget page reaches the tables through the Admin API
only. The export and the cost report read the tables and the bill and write
files nothing but dashboards read. EventBridge starts the reset at 00:00 UTC and delivers TagRole events;
both are asynchronous invocations that Lambda retries twice. PROJECT.json lists
the hazards at their lines.

## 2. Modules

**QuotaEnforcement** is the core: the four handlers over the tables they share.
One action is what runs between two awaits: one DynamoDB or IAM call and the
local work after its answer.

| Variable | In the code |
|---|---|
| `day`, `usage`, `quota` | UTC date, `runningTotalTokens` of today's rows, Quota_Configuration (0: no row) |
| `stream[s]` | records of shard `s` from the checkpoint on |
| `blocked[p]` | the Blocked_State row of `<<team, model>>`; `NoRow` when absent |
| `teamOf[r]` | the cache row of role `r`, as `listRolesForTeam` sees it |
| `deny` | inline policies `<<role, model, endpoint>>`: a policy's name is a hash of model and endpoint |
| `enf[s]`, `rem[x]`, `tag[w]` | the local variables of an invocation: batch position and clock reading; work list and PENDING flag; attempts made |
| `due` | deliveries left of today's scheduled reset event |
| `left` | bounds on environment steps |
| `peak`, `reached`, `served`, `mapped`, `swept`, `late` | history read by no action |

| Actions | Code |
|---|---|
| `AddUsage`, `SetUsage` | the collectors' writes, and the stream record they cause |
| `PutQuota`, `Remap`, `NextDay` | `putQuota`; another writer of the cache; midnight |
| `StartBatch`, `SkipRecord`, `FinishBatch`, `CrashEnforcer` | `handleUsageAggregationStreamEvent` under its event source |
| `ReadQuota`, `CheckBlocked`, `ListRoles`, `AttachDeny`, `PutBlockedState` | `evaluateUsageAggregationChange` |
| `LiftGuard`, `ListRoles`, `DetachDeny`, `FinishLift` | `removeDenyForConfigChange` |
| `StartReset`, `QueryPairs`, `StartManual`, `FinishRemover`, `CrashRemover` | `runDailyReset`, `removeDenyPolicy` |
| `BeginPair`, `RemoveDeny`, `SettlePair` | `resetBlockedStatePair` |
| `TagRole`, `RedeliverTagRole`, `QueryBlocked`, `AttachInherited`, `CrashTagger` | `handleTagRoleEvent` |

Choices worth knowing. Roles of a loop are visited in any order. A retried IAM
call either succeeds or fails for good, and then IAM may or may not have applied
it (`EnforcerRole`, `RemoveDeny`); a role whose audit entry cannot be written is
in the second case, since the code's `try` covers both. A record for another day
is skipped (`SkipRecord`), which also stands for the records the handler ignores
because of their shape. Usage is written for the current day only; late log
lines and late metrics write rows of a day the enforcer skips. Reads of the
indexes are taken to be current: lag of a global secondary index is not
modelled. `Remap` stands for every writer of the cache outside these handlers,
including expiry.

**RoleMapping** is the Team_Role_Cache between IAM and its callers. `resolveTeam`
is three calls (row, tags, write) with nothing held between them, while TagRole
events, `mapRoleToTeam` and expiry change the row. It has no `Next` of its own:
a module that calls `resolveTeam` extends it and takes its steps.

| Variable, actions | In the code |
|---|---|
| `tagOf`, `tagEvents`; `ChangeTag` | the `team` tag in IAM, the CloudTrail events it causes (any order, repeated) |
| `row`; `CacheRoleTeam`, `DeliverTagRole`, `MapRoleToTeam`, `PassTtl`, `DeleteExpired` | the table: durable rows, rows with a `ttl`, expired rows DynamoDB has not deleted yet |
| `res[w]`; `LookUp`, `ReadTags`, `TagsUnreadable`, `PutRow` | the call of `resolveTeam` in invocation `w` and its fallbacks: the stale row, else UNMAPPED without a row |
| `held`, `unresolved` | history read by no action |

**UsageCollection** is the two writers of Usage_Aggregation. A running total is
kept as the bag of the invocations added to it since a total was last stored
(`added`), and that total (`base`), so that a lost, doubled or overwritten
addition is visible as such. Token types are not told apart.

| Variable | In the code |
|---|---|
| `usage[<<team, <<model, day>>>>]`, `processed` | rows of Usage_Aggregation, of Processed_Requests |
| `owed[e]`, `inv[w]` | deliveries of an S3 event Lambda may still make; an invocation's event and line |
| `day`, `metric`, `projectOf` | UTC date, CloudWatch's sums, Team_Project_Mapping |
| `run` | the Mantle collector's locals: lookup, days to pull, points to write |
| `covered` | whether a run that read the clock after yesterday's last datapoint is under way or has ended |
| `assigned` | history: every project/team pair the mapping ever said |

| Actions | Code |
|---|---|
| `Deliver`, `SkipLine`, `FinishEvent`, `CrashCollector` | `usageCollectorEntry.ts`, and Lambda's two retries |
| `BeginEntry`, `Resolve`, `RejectEntry`, `RecordEntry` | `processInvocationLogEntry`: `resolveTeam`, `computeUsageDay` which throws on a timestamp that is no date, the transaction on condition that the request is new |
| `StartRun`, `TargetDays`, `PullDay`, `WritePoint`, `FinishRun`, `CrashRun` | `mantleUsageCollectorEntry.ts`, `collectMantleUsage`, `writeMantleUsage` |
| `MapProject`, `Emit`, `NextDay` | `putTeamProjectMapping`; CloudWatch, late datapoints included; midnight |

Assumptions: one Mantle run at a time (its timeout is a third of its schedule);
the pages of one day's pull are one step; midnight comes only after one of the
day's 96 runs has covered the day before (`NextDay`); Processed_Requests rows
outlive every retry (seven days against hours), so their expiry is left out. A
transaction whose answer is lost is `RecordEntry` followed by `CrashCollector`.

**UsageLedger** is the abstract promise of the metering: an invocation is charged
once, to one owner, for good. UsageCollection implements it (`ChargedOnce`) with
`charged` mapped to the `added` parts of the rows.

**Reconciliation** extends RoleMapping, whose rows it corrects: the other writers
of the cache go on beside it as its environment.

| Variable | In the code |
|---|---|
| `job[j]`, `starter[j]`, `screen[j]` | the job row; `handleReconcileTeamRoles`; `handleReconcile` of the page and its polls |
| `queue`, `sent`, `dead` | messages of the SQS queue with their receive count, the id of the last one, the dead-letter queue |
| `worker`, `seen`, `left` | the one worker invocation (`reservedConcurrentExecutions: 1`, batch of one): its message, what it read of each role's tag, the roles not written back yet |
| `stray` | calls that go on after `Promise.all` rejected and the invocation went to its `catch` |
| `swept`, `disturbed` | history: roles a job wrote back; roles whose tag or row another actor changed since |

| Actions | Code |
|---|---|
| `CreateJob`, `SendFirst`, `StartFails` | `handleReconcileTeamRoles`: the row first, then the message, either of which may fail |
| `StartAnswered`, `Poll`, `PollsExhausted` | `handleReconcile` in `App.tsx` |
| `Receive`, `DeadLetter`, `Delete`, `Crash` | the queue and its event source: a deletion may be lost, a message comes back until `maxReceiveCount` |
| `ReadRole`, `WriteRole`, `SweepFails`, `StrayRead`, `StrayWrite` | `reconcileTeamRoleCache`, role by role in any order |
| `RecordProgress`, `SendNext`, `Complete`, `ReportFails`, `FailJob` | `processReconcileMessage` and the job store |
| `Environment` | TagRole events, direct mappings, expiry and `resolveTeam` calls of RoleMapping |

The 25-role batches of a page are one batch; a message the worker is processing
is not received a second time before the worker ends, since the visibility
timeout exceeds the function's.

**AdminApi** and **BudgetConsole**. AdminApi is the server's side of the budget
page: the two stores, the validation and dispatch of a request (`Valid`,
`SetQuota`, `Store`, `Reply`), the catalog of an endpoint and region, and the
listing that keeps one entry per model and endpoint. BudgetConsole extends it
with the page. A call is sent, served and answered in three moments, and may
fail before or after it was served.

| Variable | In the code |
|---|---|
| `quota`, `registry` | Daily_Token_Quotas, Model_Registry |
| `team`, `loaded`, `newModel`, `models`, `pick`, `catalog` | React state: the team field; `loadedTeam`, `quotas` and `edits`; the field of "Add"; the allow-list; the dropdowns of the allow panel; their models |
| `call` | the handler behind `busy`, with what it closed over |
| `loading`, `reads` | the catalog's call behind `catalogLoading`; refreshes nobody waits for |
| `typedFor`, `unsure`, `moved`, `doubtful` | history read by no action |

The operator's actions (`TypeTeam`, `EditRow`, `PickNewModel`, `Load`, `SaveRow`,
`Add`, `Choose`, `LoadCatalog`, `PickModel`, `AllowModel`, `RemoveAllowed`) are
the controls that are enabled while a call is out; `ServeCall`, `Land...`,
`CallFails` and their likes for the catalog and the refreshes are the answers.
`OtherAdministrator` is a request from elsewhere.

**AnalyticsExport**: `Start` lists the five files of a run, `ReadPage` reads the
next keys of a partition as they are at that moment, `AllRead` ends a query,
`Put` and `Skip` write the file or leave out an empty one, `Fail` ends a run.
`table` and `status` stand for Usage_Aggregation, Audit_Log and Blocked_State;
`doubt` is history: the keys that changed since a file's rows were read. A row is
a key and a value.

**CurTeamCost**: `Start`, `EnsureView`, `Succeed` (the query, with what the bill
then says), `FetchPage` (with `DataRows`, the header's removal), `Put`, `Fail`.
`ParseUsageType` tries the patterns in the parser's order on a usage type given
by the parts they look for, `AggregatePerTeamCost` adds up, `Latest` and `Shown`
are the view and the dashboard's data set. `Rebill` is AWS's: any line at any time, also
of an ended period. Assumption: when a result has data rows, its first page has
one besides the header (the code would drop a row of the second page
otherwise).

**EnforcementRaces** is QuotaEnforcement with a history. A Blocked_State row and
the policies on the roles of its team are written by different calls, and the
code has holes through which they come apart. The module repeats each step that
opens one with what it adds to the history; the guards and the effects are those
of QuotaEnforcement, and the history is read by none of them.

| Variable | Holds | Set by |
|---|---|---|
| `missed` | `<<role, pair>>`: the pair's block may have missed the role | an attachment that failed; a removal that takes the policy before the row is written, or for a team the role has left; a lift that failed for one role; an invocation that dies while it removes; a tagger that looks before the row is written, or dies for good; another writer of the cache |
| `stray` | policies no later removal is sure to look for | an attachment for a team the role has left, behind a removal, or from a list read before the row was written again; a change of team; a row cleared or replaced under another endpoint; an enforcer that dies before it writes the row |
| `outdated` | `<<tagger, model>>`: the row was written since the tagger read it | whoever writes or deletes the row |

A new list of the team's roles clears `missed` for the pair, a new attachment
clears `stray` for the policy. `EnforcedUnlessMissed` and `RecordedUnlessStray` say, of
every state, that rows and policies agree but for a handler at work and for this
history: the list of holes is complete.

`X_proofs` holds the theorems about module `X` (section 5), `MCX` its constants
for TLC.

## 3. Runs

`Overlap = FALSE` lets a handler start only when none is running; it isolates
what a sequential reading of the code promises from what survives interleaving.
All runs set `CHECK_DEADLOCK FALSE`: the environment's bounds are finite, and a
system with nothing to do is quiet.

| Run | Instance | Shows |
|---|---|---|
| `midnight` | 2 teams, 1 role, 1 model on both endpoints, 2 days, totals to 2, an edit, a remap, a fault; overlap | `BlockJustified`, `SweptDaysAreClear`, `EnforcedUnlessMissed`, `RecordedUnlessStray` |
| `tagging` | 2 teams, 2 models, 1 role tagged twice, a manual removal, a fault; overlap | `TypeOK`, `DenyJustified`, `EnforcedUnlessMissed`, `RecordedUnlessStray` |
| `serial` | 2 teams, 2 roles, 2 days, edit, tagging, manual removal; no overlap, no fault, no other writer of the cache, no model on bedrock-mantle | `EnforcedWhenIdle`, `DenyHasRow` |
| `liveness` | 1 team, 1 role in it or not, 1 model on both endpoints, 2 days, a tag, a remap, a fault; overlap, fair | `BreachRecorded`, `ResetReachesYesterday`, `TaggedRoleInherits` |
| `collector` | 2 objects delivered up to twice, 2 concurrent collectors, 1 role retagged, expiry, a fault; fair | `RowsWereHeld`, `ChargeExplained`, `ChargedOnce`, `NeverGivenUp`, `EntriesCounted` |
| `mantle` | 2 projects of 2 teams, one mapped late or remapped mid-run, 2 days, sums to 2 with late datapoints, a crashed run | `TypeOK`, `MantleSettled` |
| `reconcile_sweep` | 1 job, 2 roles on the first of 2 pages, each message received up to twice, a caller of `resolveTeam`, 1 change from outside | `SweepCorrects` |
| `reconcile_jobs` | 1 job, 3 roles on 2 pages, 2 receives, 1 poll, no change from outside; fair | `NoSilentStall`, `ReportCovers`, `ScreenTrue`, `JobEnds`, `PollingEnds` |
| `budget_console` | 2 teams, 2 models, 1 region, quotas to 2, 5 inputs, 1 request from elsewhere | `SavedWhereTyped`, `ShownIsStored`, `AllowedWhenSteady` |
| `analytics_export` | 2 overlapping runs, 3 days, 2 keys, 1 event (a change or a failure) on top of an existing block; fair | `ReportedAsStored`, `ReportCatchesUp` |
| `cur_cost` | 2 overlapping runs, 3 days in 2 billing periods, 4 lines, 2 events; fair | `CostAddsUp`, `PeriodForward`, `DashboardCatchesUp` |
| `pending_reset` | the smallest instance | the disagreement of section 6 |

Why the bounds are enough. Two days give one midnight, and with it a reset
concurrent with the enforcer of both days; the third day of `pending_reset` is
the first on which a pair can be out of reach. Two tokens give totals below, at
and above a quota of 1 or 2, and a batch of two gives a redelivered older
record. Two teams and two roles are what retagging and an incomplete role list
need; the liveness properties follow one role through its moves (a crash before or
after its attachment is a crash in the loop). One fault reaches every crash point once, and `Attempts` and
`MaxDeliveries` (2 or 3 here, 3 and 11 in the deployment) exceed the faults of
the liveness run, which is the assumption its properties need: with as many
faults as deliveries the event is dropped and all three fail.

`serial` is the sequential reading of the code: what rows and policies promise
each other outright, once overlap, faults and the other writers of the cache
(`resolveTeam`, mapping by hand, the sweep, expiry) are put aside. `midnight` and
`tagging` run EnforcementRaces, the system as it is: a reset and lifts against the
enforcer over midnight with a role remapped, and two teams with a tagger and a
removal within a day. One fault reaches every crash point; a tagger that dies for
good needs as many faults as `Attempts`, and a tagger against a reset needs both
instances in one: these are left to the proofs. The mutants show what the two
properties catch: a row recorded under the default endpoint, an event not
delivered again, a row cleared although a role's removal failed.

In `collector` two deliveries of two objects are what a duplicate needs to meet
its original at any line, one retagging lets them resolve to different owners,
and `Attempts = 2` exceeds the one fault. One object holds a line that is not
JSON before its entry, the other a line without a date as its last. In `mantle` two
days are one midnight: a run can straddle it, yesterday's sums can still grow,
and the second project shows that a mapping in motion leaves the first one's
totals alone; sums up to 2 tell a stored total from an added one.

In `reconcile_jobs` two receives per message are what forks a chain (a page
delivered again after it sent its successor) and two pages make a fork outlive
the job's end; two roles on a page are what a rejected `Promise.all` needs, one
failing and one left running. `reconcile_sweep` trades the polling for a change
from outside at any moment. Five inputs on the page are enough to type, load,
edit, retype and save, or to choose, load, choose again, pick and allow, with
answers arriving anywhere in between; symmetry of the two teams is used there,
and the run has no liveness property. In `analytics_export` one key to a page is
among the page sizes, so a change falls between two pages of one query; three
days let yesterday, today and a run that straddles midnight differ. In `cur_cost`
the last day is the first of a new period: a run that read its clock before
midnight puts its file after it, and `Window = 1` makes the oldest day leave
the view.

## 4. Fairness

Weak fairness on each shard's enforcer, on the reset, on each remover and on
each tagger: Lambda runs an invocation it has started, the event source polls
its shard, EventBridge delivers. None on usage, edits, tags, requests, midnight
or faults. Redelivery is part of the handlers' own steps (`StartBatch` after a
crash, `StartReset` while `due > 0`, `RedeliverTagRole`).

In UsageCollection, weak fairness on `CollectorStep(w)` of each collector:
Lambda delivers the events it owes (the retries of a failed asynchronous
invocation) and runs what it started. `EntriesCounted` rests on it. The Mantle
run needs none: `MantleSettled` is a safety property, and what the 15-minute
schedule contributes to it is the guard of `NextDay`.

In Reconciliation, weak fairness on the queue's deliveries, on the worker's
invocation, on the starter once it has written the row and on the page's
polling; none on crashes, changes or pressing the button. `JobEnds` needs no
bound on failures beyond the queue's own: after `MaxReceive` receives a message
is a dead letter. AnalyticsExport and CurTeamCost have weak fairness on each
run's steps: the schedule starts runs and a started run goes on unless it fails.
Failures and changes are bounded by `MaxEvents`, and `ReportCatchesUp` and
`DashboardCatchesUp` say what holds once they have ended. BudgetConsole states
safety only: nobody has to answer a page.

## 5. Proofs

All modules `X_proofs` are checked by TLAPS for every value of the constants that
satisfies the assumptions named in `X`. `QuotaEnforcement_proofs` has four
theorems, all `Spec => []...`:

- `TypeCorrect` (`TypeOK`). `TypeOK` alone is not inductive: `SettlePair` writes
  the day of its job into the row, `Checkpoint` cuts a sequence at a length it
  read earlier. `Shape` adds that a row has a day exactly when it has a status
  (`RowsDated`) and that an invocation's position lies within its batch and the
  batch within the stream (`InvocationInBatch`).
- `DeniesAreJustified` (`DenyJustified`) and `BlocksAreJustified`
  (`BlockJustified`). `Justified` carries the justification along every path it
  travels: records of the stream were counted (`RecordsCounted`), peaks at a
  quota are in `reached` (`PeaksReached`), an invocation past the quota read
  holds a record that reached it (`BreachesReached`), roles and policies on
  work lists are mapped and justified when they are read
  (`RolesMapped`, `TaggedMapped`, `InheritedReached`). It is history that makes
  this inductive: quota and total may have changed again by the time the
  policy is attached.
- `SweptDaysStayClear` (`SweptDaysAreClear`). `Sweep` says what the running
  reset still owes: while it queries, a pair BLOCKED for yesterday and not
  late either is still to be asked for or is queued; afterwards it is queued
  or current. Both queries, in either order, must be counted, which is what
  the mutant of that run breaks.

`Justified` and `Sweep` were checked by TLC on the `midnight` and `tagging`
instances before they were proved.

`EnforcementRaces_proofs` is about rows and policies agreeing under any overlap, any
number of faults, both endpoints and every writer of the cache.
`RacesAreEnforcement` (`RaceSpec => Spec`) carries over what is proved of
QuotaEnforcement; that the history holds no step up is seen step by step: each
conjoins one of QuotaEnforcement with a value for the history (the `\E j` over
`rem[x].cur` and the `\E t` over `tag[w].team` range over one element, `OneJob` and
`OneTag`). `Held` is what the handlers hold, `Shape` and that a record is in the
stream of its pair's shard (`RecordsInShard`: one enforcer works at a pair at a
time), that a remover is at one pair and a tagger at one role and team, and that
an enforcer about to attach has seen no block (`RowAway`).

- `BlockedRolesAreDenied` (`EnforcedUnlessMissed`). The property is not inductive:
  the row is written after the loop. `AttachWork` says what the loop has done: each
  role of the team is on its list, denied, in `missed`, or about to be seen to by a
  tagger that has not looked yet.
- `PoliciesAreRecorded` (`RecordedUnlessStray`). The step that can break it is the one
  that deletes a row. `LiftedInFull` says that a removal that has not failed has on
  its list every role of the team that still has the policy, strays excepted (the
  reason why the list must be read before the first removal), and `AnswersCurrent`
  that what a tagger is about to copy is still in its row or `outdated`.

TLC checked these conjuncts on instances with two days, two roles and a tagger, and
with a remapped role and a removal, first. `EnforcedWhenIdle` and
`DenyHasRow`, the special cases for handlers that take turns, are left to TLC: as
theorems they would need hypotheses (no overlap, no faults, one writer of the
cache, one endpoint) that the code does not justify, and the two theorems above
hold without any.

`RoleMapping_proofs` shows that every step of a `resolveTeam` call and of its
environment keeps `MappingInv`: rows and calls in progress carry only what was
held. `UsageCollection_proofs` builds on it:

- `TypeCorrect`, `RowsAreHeld`, `ChargesAreExplained` from the invariant
  `Counted`: types, `MappingInv`, a call of `resolveTeam` in progress belongs to
  the line its invocation is at (`CallsOfLines`; without it a charge could be
  for another line's role), and what is added to a total was recorded as
  processed and is in its own cell (`AddsRecorded`).
- `ChargesOnce`, the refinement: every step is a step of `UsageLedger` or leaves
  the charges alone. It assumes `SeparateModels` (no logged invocation is of a
  model registered for bedrock-mantle). The assumption is needed: where both
  collectors write one row, `WritePoint` erases charges, which is how the
  registry's freedom to list a model on both endpoints (`modelRegistry.ts:53`)
  meets the table.
- `AcknowledgedIsCounted` (`NeverGivenUp`): the safety half of `EntriesCounted`. An
  object's deliveries are spent by invocations that begin, or given up by one
  that went through it when every entry of it is charged. From `NothingPassed`:
  a deduplication record stands for a charge (one transaction writes both), and
  an invocation leaves an entry behind only with its deduplication record,
  whoever made it. `SeparateModels` is needed here as well: without it a
  charge may be gone again.
- `TotalsSettle` (`MantleSettled`) from `Settling`. A stored total follows its
  metric (`Follows`): it never overtakes it, it equals it on a finished day,
  and while the covering run is under way it equals it, or the point that will
  make it so is in the run's hands, or the day is yet to be pulled. Points in
  hand were read from the metric and are the metric for a day that no longer
  changes (`PointsRead`); lookups come from mappings once in force
  (`RunFollowsMappings`), so a row whose team has one project is written by
  that project only.

`Reconciliation_proofs` rests on one idea: `Reached(j, p)`, what a job has to show
for the pages before `p` (roles swept, pages and roles counted). A message of
page `p`, in the queue or in the worker's hands, stands for `Reached(j, p)`, the
status "complete" for `Reached(j, Pages + 1)`, and no step takes it back
(`ReachedStays`), so redelivery and forks are harmless to it. `WorkerInv` adds
what the worker has done of its page and that it deletes a message only when
another message or the status stands for the job. `SeenInv` says when a tag read
earlier may have become old, and `MappingInv` is taken over from RoleMapping.
From `RInv`: `ReconcileTypes`, `ChainNeverLost` (`NoSilentStall`),
`CompleteMeansSwept` (`ReportCovers`), `SweptRowsAgree` (`SweepCorrects`),
`ScreenTellsTheTruth` (`ScreenTrue`). Left to TLC: `JobEnds`, `PollingEnds`.

`AnalyticsExport_proofs`: `ExportTypes` and `ExportReportsTables`
(`ReportedAsStored`). The invariant goes row by row: a run holds, of the keys that
have not moved under it, exactly the rows the tables show up to where each
query has got (`Reading`), and a file agrees with the tables on its keys that
are not in doubt (`FilesAgree`).

`CurTeamCost_proofs`: `CostTypes` and `DashboardForward` (`PeriodForward`), since a
file's period is that of its day (`PeriodOfDay`) and the latest day only moves
forward; and that the dollars add up.

- `ParsedCostsAddUp`: a file not overtaken by a change of the bill gives every
  team and endpoint the dollars of exactly the lines the parser puts there,
  whatever the usage types are. The invariant `ReadInv` says what a run that
  the bill did not overtake has in hand: the rows it has read and those of the
  pages left are together the bill's rows, none is read before the header and
  only an empty result leaves none after it (`RunsRead`); a file holds the
  aggregate of them all (`FilesRead`).
- `CostsAddUp` (`CostAddsUp`) replaces the parser by what a usage type documents.
  It assumes `KnownLines`: every line's usage type is a documented one or one
  the parser skips. The assumption is needed, because the parser misreads some others:
  Mantle cache tokens are booked under bedrock-runtime (section 6). The instance
  of `cur_cost` satisfies it.

The sums are folds over finite sets. The library's induction theorems take a
predicate as a parameter, which the provers cannot instantiate; here the
parameter is a set of subsets, and induction is well-foundedness of the strict
subset order (`SubsetInduction`), from which the lemmas on sums follow: adding an
element, a disjoint union, a renaming, and summing by groups, which is what
`AggregatePerTeamCost` does. TLC checked `ReadInv` on the `cur_cost` instance first.

`BudgetConsole_proofs` proves the three properties of the page (`SavedToItsTeam`,
`TableIsStored`, `AllowedCanBeInvoked`) and `ConsoleTypes`, for any number of
inputs and of requests from elsewhere. None of the three is inductive.
`EditsOfTeam` adds that a budget on its way is of the table's team, whichever button sent it; `TableFresh` that between a put that was served and the
reload it leads to the table may lag (`Overdue`), and that an answer in hand is
still what is stored; `PicksOffered` that a catalog in hand is that of its
request, a list not out of date that of the dropdowns, and so is the model picked
from it and the request made of it. Every conjunct but the types was checked by
TLC on the `budget_console` instance first.

`ChargedOnce`, `ChargeExplained` and `RowsWereHeld` hold for any number of
collectors and `MantleSettled` for any number of projects, where TLC has two.

Left to TLC: the liveness properties (`BreachRecorded`, `ResetReachesYesterday`,
`TaggedRoleInherits`, `EntriesCounted`, `JobEnds`, `PollingEnds`, `ReportCatchesUp`,
`DashboardCatchesUp`). They rest on weak fairness, whose definition has an
`ENABLED` that TLAPS does not reason about. Every other property of a passing run
is a theorem but `EnforcedWhenIdle` and `DenyHasRow`, which `EnforcedUnlessMissed` and
`RecordedUnlessStray` replace.

## 6. Where text and code disagree

With a run:

- `pending_reset`: "retries it - indefinitely, with no abandonment"
  (`dailyReset.ts:149`). One failed reset is enough: the pair keeps the day it was
  blocked, and every later reset queries a later day.

Met while modelling, without a run of their own:

- A block is lifted because "the running total dropped below the quota"
  (`quotaEnforcer.ts:287`). `evaluateUsageAggregationChange` compares the total of
  the record (333), not of the row: a batch delivered again after its second
  record blocked the team lifts that block on its first record.
- `removeDenyForConfigChange` removes the policy of the record's endpoint
  (`quotaEnforcer.ts:423`), not of the row's, and clears the row: a model metered
  on both endpoints keeps the other policy without a row. `RecordedUnlessStray` puts
  it in `stray`; `DenyHasRow` is checked on an instance whose models have one
  endpoint each.
- "Malformed lines are skipped without blocking the rest of the batch"
  (`usageCollectorEntry.ts:17`). A timestamp that is any non-empty string passes
  the parser and makes `computeUsageDay` throw: every delivery of the object
  fails at that line, and what follows it is never counted. `EntriesCounted` is
  checked with such lines last in their object.
- Usage "is never silently lost" (`mantleUsageCollector.ts:41`). Two projects of
  one team write the same row with SET; the last one's total stands alone.
- A job that has failed can become complete, or the other way round, when a page
  is delivered again: no write of the job row asks for its status, where
  `reconcileWorker.ts` says of the failure that "the UI immediately sees a
  terminal state".
- The "Currently Blocked" data set reads every day's snapshot of the blocks
  (`stack.ts:2291`), while the export writes it "so the admin 'currently blocked'
  view reflects live state" (`analyticsExportEntry.ts:124`): a block lifted since
  is still in the older files.
- Billed cost that AWS adds after a month has ended is not exported: the query
  asks for the period of the day it runs on, while `README.md:1117` says the
  dollars reconcile to the invoice. Mantle cache tokens are booked under
  bedrock-runtime, since the parser tries its cache patterns first.
- The page shows a catalog under whatever the dropdowns say when the answer
  comes (`App.tsx:191`), so a model can be allowed where it cannot be invoked
  although the panel (659) promises "the exact id a team will invoke"; and the
  budget form accepts a model that is on no list (647) when the picker is empty.
- `README.md` ("Mapping IAM roles to teams") calls every mapping durable, on-use
  ones included, while `resolveTeam` writes its rows with a `ttl` and, when a
  TagRole event or `mapRoleToTeam` was handled between its read of the tags and
  its write, replaces the durable row with an expiring and older one; the
  attribution function keeps unknown projects as UNMAPPED, but its entry point
  queries mapped projects only.

Things the models show and no line contradicts: the races that fill `missed` and
`stray` in EnforcementRaces (section 2); an enforcer that crosses midnight
records a block for the ended day that no reset sees (`late` in
`SweptDaysAreClear`); yesterday's row makes the enforcer ignore a breach of the
new day until the reset has run; a starter whose `sendMessage` fails leaves a job
row that says "running" until it expires; a sweep writes an older tag over a
newer TagRole event (`disturbed` in `SweepCorrects`).

## 7. Not modelled

- Notifications, the DLQ handler's classification, the deny policy's text, JSON
  and ARN parsing, IAM grants, the logging custom resource, deployment and test
  scripts: they keep no state that a handler reads back.
- Of the Admin API and the page: the mapping panel, the list of teams, the block
  and audit listings, sign-in and authorisation.
- Of the export: lag of the secondary indexes, token types, endpoints and prices;
  usage recorded for a day after the following day has passed is written to the
  table and never exported again. Of the cost report: token amounts.
- Expiry of Processed_Requests and of job rows; delays of retries.

Each component is listed with its reason in PROJECT.json.

## 8. Plan

1. Done: QuotaEnforcement; RoleMapping, UsageLedger, UsageCollection;
   Reconciliation; AdminApi and BudgetConsole; AnalyticsExport; CurTeamCost; their
   runs and proofs, a theorem for every safety property of a passing run that is
   not restricted to handlers taking turns.
2. The mapping panel of the page with RoleMapping's `MapRoleToTeam` behind it, and
   the list of teams the page refreshes.
3. Pure algorithms against reference definitions over bounded inputs: retry
   delays, the metrics result parser, the DLQ's classification.
