--------------------------- MODULE UsageCollection ---------------------------
(***************************************************************************)
(* The two writers of the Usage_Aggregation table.                         *)
(*                                                                         *)
(*   - the Usage_Collector (src/usageCollector.ts and its entry point)     *)
(*     walks the lines of the log objects an S3 event names, resolves the  *)
(*     team of each invocation and adds its tokens in one transaction with *)
(*     a deduplication record;                                             *)
(*   - the Mantle collector (src/mantleUsageCollector.ts and its entry     *)
(*     point) pulls the sums of yesterday and today from CloudWatch and    *)
(*     stores each as the row's total.                                     *)
(*                                                                         *)
(* A row's running total is kept as the bag of the invocations added to it *)
(* since a total was last stored, and that total.                          *)
(***************************************************************************)
EXTENDS RoleMapping, Sequences

CONSTANTS
  Models,
  MaxDay,        \* bound: the last Usage_Day
  Requests,      \* request ids of logged invocations
  RoleOf,        \* [Requests -> Roles]
  SlotOf,        \* [Requests -> Slots]: model and day of the invocation
  Events,        \* S3 events
  LinesOf,       \* [Events -> Seq(Line)]: the lines of the objects it names
  Attempts,      \* deliveries of an event (Lambda retries twice)
  Projects,      \* Mantle projects
  MantleModels,  \* the models registered for bedrock-mantle
  InitProjects,  \* the project mappings a behaviour may start from
  MaxMetric,     \* bound: CloudWatch sums
  Limit          \* bound: tag changes, mappings and faults

Days  == 1 .. MaxDay
Slots == Models \X Days
Cells == Owners \X Slots
Line  == [kind : {"entry", "malformed", "undated"}, req : Requests]
Kinds == {"tag", "map", "project", "fault"}

ASSUME UsageCollectionAssumption ==
  /\ MaxDay \in Nat \ {0}
  /\ RoleOf \in [Requests -> Roles]
  /\ SlotOf \in [Requests -> Slots]
  /\ LinesOf \in [Events -> Seq(Line)]
  /\ None \notin Events
  /\ Attempts \in Nat \ {0}
  /\ MantleModels \subseteq Models
  /\ InitProjects \subseteq [Projects -> Teams \cup {None}]
  /\ MaxMetric \in Nat
  /\ Limit \in [Kinds -> Nat]

VARIABLES
  usage,      \* [Cells -> Total]: Usage_Aggregation
  processed,  \* request ids with a row in Processed_Requests
  owed,       \* [Events -> deliveries still possible]
  inv,        \* [Callers -> Usage_Collector invocation]
  day,        \* the current UTC date
  metric,     \* CloudWatch: [Projects \X MantleModels \X Days -> 0 .. MaxMetric]
  projectOf,  \* Team_Project_Mapping: [Projects -> Teams \cup {None}]
  run,        \* the Mantle collector's invocation
  left,       \* what is left of each bound in Limit
  covered,    \* whether a run that began after yesterday's last datapoint has ended
  \* History, read by no action:
  assigned    \* <<project, team or None>> that the mapping has ever said

collectorVars == <<usage, processed, owed, inv>>
mantleVars    == <<day, metric, projectOf, run, covered, assigned>>
vars          == <<mappingVars, collectorVars, mantleVars, left>>

Total    == [added : [Requests -> Nat], base : 0 .. MaxMetric]
NoAdds   == [q \in Requests |-> 0]
Points   == Projects \X MantleModels \X (1 .. MaxMetric)
Invocation == [pc : {"idle", "line", "resolve"}, event : Events \cup {None}, at : Nat]
Run      == [pc : {"idle", "target", "pull", "write"},
             lookup : [Projects -> Teams \cup {None}],
             days : SUBSET Days, now : 0 .. MaxDay, points : SUBSET Points]
InvIdle  == [pc |-> "idle", event |-> None, at |-> 0]
RunIdle  == [pc |-> "idle", lookup |-> [p \in Projects |-> None],
             days |-> {}, now |-> 0, points |-> {}]

TypeOK ==
  /\ MappingTypeOK
  /\ usage \in [Cells -> Total]
  /\ processed \subseteq Requests
  /\ owed \in [Events -> 0 .. Attempts]
  /\ inv \in [Callers -> Invocation]
  /\ day \in Days
  /\ metric \in [Projects \X MantleModels \X Days -> 0 .. MaxMetric]
  /\ projectOf \in [Projects -> Teams \cup {None}]
  /\ run \in Run
  /\ left \in [Kinds -> Nat]
  /\ covered \in {"no", "running", "yes"}
  /\ assigned \subseteq Projects \X (Teams \cup {None})

Spend(k) == left[k] > 0 /\ left' = [left EXCEPT ![k] = @ - 1]

Init ==
  /\ MappingInit
  /\ usage = [c \in Cells |-> [added |-> NoAdds, base |-> 0]]
  /\ processed = {}
  /\ owed = [e \in Events |-> Attempts]
  /\ inv = [w \in Callers |-> InvIdle]
  /\ day = 1
  /\ metric = [k \in Projects \X MantleModels \X Days |-> 0]
  /\ projectOf \in InitProjects
  /\ run = RunIdle
  /\ left = Limit
  /\ covered = "no"
  /\ assigned = {pt \in Projects \X (Teams \cup {None}) : projectOf[pt[1]] = pt[2]}

-----------------------------------------------------------------------------
(* The role mapping changes while the collectors run.                      *)

MappingChange ==
  /\ \/ \E r \in Roles, o \in Owners : ChangeTag(r, o) /\ Spend("tag")
     \/ \E r \in Roles, t \in Teams : MapRoleToTeam(r, t) /\ Spend("map")
     \/ /\ \/ \E r \in Roles, t \in Teams : DeliverTagRole(r, t)
           \/ \E r \in Roles : PassTtl(r) \/ DeleteExpired(r)
        /\ UNCHANGED left
  /\ UNCHANGED <<collectorVars, mantleVars>>

-----------------------------------------------------------------------------
(* Usage_Collector.                                                        *)

AtLine(w) == /\ inv[w].pc # "idle"
             /\ inv[w].at \in DOMAIN LinesOf[inv[w].event]
LineAt(w) == LinesOf[inv[w].event][inv[w].at]
NextLine(w) ==
  inv' = [inv EXCEPT ![w] = [inv[w] EXCEPT !.pc = "line", !.at = inv[w].at + 1]]

(* Lambda receives the event: for the first time, after a failure, or as a *)
(* duplicate while another invocation still works on it.                   *)
Deliver(w, e) ==
  /\ inv[w].pc = "idle"
  /\ owed[e] > 0
  /\ owed' = [owed EXCEPT ![e] = @ - 1]
  /\ inv' = [inv EXCEPT ![w] = [pc |-> "line", event |-> e, at |-> 1]]
  /\ UNCHANGED <<mappingVars, usage, processed, mantleVars, left>>

(* Not JSON, or parseInvocationLogEntry returned null.                     *)
SkipLine(w) ==
  /\ inv[w].pc = "line" /\ AtLine(w)
  /\ LineAt(w).kind = "malformed"
  /\ NextLine(w)
  /\ UNCHANGED <<mappingVars, usage, processed, owed, mantleVars, left>>

(* processInvocationLogEntry begins with resolveTeam.                      *)
BeginEntry(w) ==
  /\ inv[w].pc = "line" /\ AtLine(w)
  /\ LineAt(w).kind # "malformed"
  /\ LookUp(w, RoleOf[LineAt(w).req])
  /\ inv' = [inv EXCEPT ![w].pc = "resolve"]
  /\ UNCHANGED <<usage, processed, owed, mantleVars, left>>

Resolve(w) ==
  /\ \/ ReadTags(w) /\ UNCHANGED left
     \/ TagsUnreadable(w) /\ Spend("fault")
     \/ PutRow(w) /\ UNCHANGED left
  /\ UNCHANGED <<collectorVars, mantleVars>>

(* computeUsageDay throws on a timestamp that is no date: the invocation   *)
(* fails.                                                                  *)
RejectEntry(w) ==
  /\ res[w].pc = "done" /\ AtLine(w)
  /\ LineAt(w).kind = "undated"
  /\ DropCall(w)
  /\ inv' = [inv EXCEPT ![w] = InvIdle]
  /\ UNCHANGED <<tagOf, row, tagEvents, held, unresolved, usage, processed, owed,
                 mantleVars, left>>

(* Mutant: the total is increased although the request id is known.        *)
RecordEntry_unconditional(w) ==
  /\ res[w].pc = "done" /\ AtLine(w)
  /\ LineAt(w).kind = "entry"
  /\ LET q == LineAt(w).req
         c == <<res[w].team, SlotOf[q]>>
     IN  /\ processed' = processed \cup {q}
         /\ usage' = [usage EXCEPT ![c] = [usage[c] EXCEPT
                        !.added = [usage[c].added EXCEPT ![q] = usage[c].added[q] + 1]]]
  /\ DropCall(w)
  /\ NextLine(w)
  /\ UNCHANGED <<tagOf, row, tagEvents, held, unresolved, owed, mantleVars, left>>

(* TransactWriteItems: the deduplication record, on condition that there   *)
(* is none, and ADD.  A request id seen before is a harmless duplicate.    *)
RecordEntry(w) ==
  /\ res[w].pc = "done" /\ AtLine(w)
  /\ LineAt(w).kind = "entry"
  /\ LET q == LineAt(w).req
         c == <<res[w].team, SlotOf[q]>>
     IN  IF q \in processed THEN UNCHANGED <<usage, processed>>
         ELSE /\ processed' = processed \cup {q}
              /\ usage' = [usage EXCEPT ![c] = [usage[c] EXCEPT
                             !.added = [usage[c].added EXCEPT ![q] = usage[c].added[q] + 1]]]
  /\ DropCall(w)
  /\ NextLine(w)
  /\ UNCHANGED <<tagOf, row, tagEvents, held, unresolved, owed, mantleVars, left>>

(* The invocation returns; a duplicate of the event may still come.        *)
FinishEvent(w) ==
  /\ inv[w].pc = "line" /\ ~ AtLine(w)
  /\ inv' = [inv EXCEPT ![w] = InvIdle]
  /\ owed' \in {owed, [owed EXCEPT ![inv[w].event] = 0]}
  /\ UNCHANGED <<mappingVars, usage, processed, mantleVars, left>>

(* Mutant: a failed event is not delivered again.                          *)
CrashCollector_noRetry(w) ==
  /\ inv[w].pc # "idle"
  /\ Spend("fault")
  /\ DropCall(w)
  /\ inv' = [inv EXCEPT ![w] = InvIdle]
  /\ owed' = [owed EXCEPT ![inv[w].event] = 0]
  /\ UNCHANGED <<tagOf, row, tagEvents, held, unresolved, usage, processed, mantleVars>>

(* A call of DynamoDB or S3 fails, or the invocation is killed.  A write   *)
(* whose answer is lost is the write followed by this step.                *)
CrashCollector(w) ==
  /\ inv[w].pc # "idle"
  /\ Spend("fault")
  /\ DropCall(w)
  /\ inv' = [inv EXCEPT ![w] = InvIdle]
  /\ UNCHANGED <<tagOf, row, tagEvents, held, unresolved, usage, processed, owed, mantleVars>>

-----------------------------------------------------------------------------
(* Mantle collector.                                                       *)

mantleUnchanged == <<mappingVars, processed, owed, inv>>

(* CloudWatch's sum for a day grows during the day and through the next.   *)
Emit(p, m, d) ==
  /\ d \in {day - 1, day}
  /\ metric[<<p, m, d>>] < MaxMetric
  /\ metric' = [metric EXCEPT ![<<p, m, d>>] = @ + 1]
  /\ covered' = IF d = day THEN covered ELSE "no"
  /\ UNCHANGED <<mantleUnchanged, usage, day, projectOf, run, left, assigned>>

(* putTeamProjectMapping.                                                  *)
MapProject(p, t) ==
  /\ Spend("project")
  /\ projectOf[p] # t
  /\ projectOf' = [projectOf EXCEPT ![p] = t]
  /\ assigned' = assigned \cup {<<p, t>>}
  /\ UNCHANGED <<mantleUnchanged, usage, day, metric, run, covered>>

(* Midnight, after the day's 96 scheduled runs: one of them began after    *)
(* the last datapoint of the day before and ended.                         *)
NextDay ==
  /\ day < MaxDay /\ covered = "yes"
  /\ day' = day + 1
  /\ covered' = "no"
  /\ UNCHANGED <<mantleUnchanged, usage, metric, projectOf, run, left, assigned>>

(* The schedule fires: the mappings are read; without one the run ends.    *)
StartRun ==
  /\ run.pc = "idle"
  /\ \E p \in Projects : projectOf[p] # None
  /\ run' = [RunIdle EXCEPT !.pc = "target", !.lookup = projectOf]
  /\ UNCHANGED <<mantleUnchanged, usage, day, metric, projectOf, left, covered, assigned>>

Cover == covered' = IF covered = "yes" THEN "yes" ELSE "running"

(* Mutant: only the current day is pulled.                                 *)
TargetDays_today ==
  /\ run.pc = "target"
  /\ run' = [run EXCEPT !.pc = "pull", !.days = {day}]
  /\ Cover
  /\ UNCHANGED <<mantleUnchanged, usage, day, metric, projectOf, left, assigned>>

(* targetUsageDays: yesterday and today by the clock.                      *)
TargetDays ==
  /\ run.pc = "target"
  /\ run' = [run EXCEPT !.pc = "pull", !.days = {day - 1, day} \cap Days]
  /\ Cover
  /\ UNCHANGED <<mantleUnchanged, usage, day, metric, projectOf, left, assigned>>

(* GetMetricData for the next day, oldest first: the points of the mapped  *)
(* projects with usage.                                                    *)
PullDay(d) ==
  /\ run.pc = "pull" /\ d \in run.days
  /\ \A other \in run.days : d <= other
  /\ LET found == {pmv \in Points : /\ run.lookup[pmv[1]] # None
                                    /\ metric[<<pmv[1], pmv[2], d>>] = pmv[3]}
     IN  run' = [run EXCEPT !.pc = IF found = {} THEN "pull" ELSE "write",
                            !.days = @ \ {d}, !.now = d, !.points = found]
  /\ UNCHANGED <<mantleUnchanged, usage, day, metric, projectOf, left, covered, assigned>>

(* Mutant: the total is added to the row.                                  *)
WritePoint_added(pmv) ==
  /\ run.pc = "write" /\ pmv \in run.points
  /\ LET c == <<run.lookup[pmv[1]], <<pmv[2], run.now>>>>
     IN  usage' = [usage EXCEPT ![c] = [usage[c] EXCEPT !.base = usage[c].base + pmv[3]]]
  /\ run' = [run EXCEPT !.pc = IF run.points = {pmv} THEN "pull" ELSE "write",
                        !.points = @ \ {pmv}]
  /\ UNCHANGED <<mantleUnchanged, day, metric, projectOf, left, covered, assigned>>

(* writeMantleUsage: SET, one record after another.                        *)
WritePoint(pmv) ==
  /\ run.pc = "write" /\ pmv \in run.points
  /\ usage' = [usage EXCEPT ![<<run.lookup[pmv[1]], <<pmv[2], run.now>>>>] =
                 [added |-> NoAdds, base |-> pmv[3]]]
  /\ run' = [run EXCEPT !.pc = IF run.points = {pmv} THEN "pull" ELSE "write",
                        !.points = @ \ {pmv}]
  /\ UNCHANGED <<mantleUnchanged, day, metric, projectOf, left, covered, assigned>>

FinishRun ==
  /\ run.pc = "pull" /\ run.days = {}
  /\ run' = RunIdle
  /\ covered' = IF covered = "running" THEN "yes" ELSE covered
  /\ UNCHANGED <<mantleUnchanged, usage, day, metric, projectOf, left, assigned>>

(* The run fails; the next one is at most 15 minutes away.                 *)
CrashRun ==
  /\ run.pc # "idle"
  /\ Spend("fault")
  /\ run' = RunIdle
  /\ covered' = IF covered = "running" THEN "no" ELSE covered
  /\ UNCHANGED <<mantleUnchanged, usage, day, metric, projectOf, assigned>>

-----------------------------------------------------------------------------
CollectorStep(w) ==
  \/ \E e \in Events : Deliver(w, e)
  \/ SkipLine(w)
  \/ BeginEntry(w)
  \/ Resolve(w)
  \/ RejectEntry(w)
  \/ RecordEntry(w)
  \/ FinishEvent(w)

MantleStep ==
  \/ StartRun
  \/ TargetDays
  \/ \E d \in Days : PullDay(d)
  \/ \E pmv \in Points : WritePoint(pmv)
  \/ FinishRun
  \/ CrashRun

MantleWorld ==
  \/ \E p \in Projects, m \in MantleModels, d \in Days : Emit(p, m, d)
  \/ \E p \in Projects, t \in Teams : MapProject(p, t)
  \/ NextDay

Next ==
  \/ MappingChange
  \/ \E w \in Callers : CollectorStep(w) \/ CrashCollector(w)
  \/ MantleStep
  \/ MantleWorld

Spec == Init /\ [][Next]_vars

(* Lambda delivers what it owes and runs what it has started.              *)
Fairness == \A w \in Callers : WF_vars(CollectorStep(w))

FairSpec == Spec /\ Fairness

-----------------------------------------------------------------------------
(* No logged invocation is of a model registered for bedrock-mantle.  The  *)
(* registry allows one on both endpoints; the Mantle collector's write     *)
(* (WritePoint) then replaces what was added.                              *)
SeparateModels == \A q \in Requests : SlotOf[q][1] \notin MantleModels

(* With SeparateModels the Usage_Collector keeps the ledger's promise,     *)
(* whatever is delivered twice, retried after a crash, or attributed to    *)
(* another team the second time (processInvocationLogEntry).               *)
Ledger == INSTANCE UsageLedger WITH charged <- [c \in Cells |-> usage[c].added]
ChargedOnce == Ledger!Spec

(* An invocation is charged to a team its role was tagged or mapped into   *)
(* at some time, and to UNMAPPED only if the role once had no tag or its   *)
(* tags could not be read when nothing was known of it (resolveTeam).      *)
ChargeExplained ==
  \A c \in Cells, q \in Requests :
    usage[c].added[q] > 0 => \/ <<RoleOf[q], c[1]>> \in held
                             \/ c[1] = Unmapped /\ RoleOf[q] \in unresolved

(* Every well-formed entry of a delivered object is counted in the end:    *)
(* "Malformed lines are skipped without blocking the rest of the batch"    *)
(* (usageCollectorEntry.ts), and retries make up for crashes.              *)
EntriesCounted ==
  \A e \in Events : \A i \in DOMAIN LinesOf[e] :
    LinesOf[e][i].kind = "entry"
      => <>(\E c \in Cells : usage[c].added[LinesOf[e][i].req] > 0)

AllCounted(e) ==
  \A i \in DOMAIN LinesOf[e] : LinesOf[e][i].kind = "entry"
    => \E c \in Cells : usage[c].added[LinesOf[e][i].req] > 0

(* A delivery of an event is used up by an invocation that begins, and the *)
(* rest are given up only when every entry of its objects is counted, by   *)
(* whichever invocation, however often others failed on them               *)
(* (handler and processInvocationLogEntry).                                *)
NeverGivenUp ==
  [][\A e \in Events : owed'[e] < owed[e] =>
       \/ AllCounted(e)
       \/ \E w \in Callers : inv[w].pc = "idle" /\ inv'[w].event = e]_vars

(* From the start t has been the team of p and of no other project.        *)
Sole(p, t) == \A pt \in assigned : pt[1] = p <=> pt[2] = t

(* CloudWatch's last word on day d has been pulled.                        *)
Finished(d) == d < day - 1 \/ (d = day - 1 /\ covered = "yes")

(* The total of a finished day is what CloudWatch finally says of it, late *)
(* datapoints and crashed runs included, for a project that has its team   *)
(* to itself, whatever happens to the mappings of other projects           *)
(* (mantleUsageCollectorEntry.ts pulls yesterday again).                   *)
MantleSettled ==
  \A p \in Projects, t \in Teams, m \in MantleModels, d \in Days :
    Sole(p, t) /\ Finished(d) => usage[<<t, <<m, d>>>>].base = metric[<<p, m, d>>]
=============================================================================
