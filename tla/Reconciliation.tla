--------------------------- MODULE Reconciliation ---------------------------
(***************************************************************************)
(* The on-demand reconciliation of the Team_Role_Cache with IAM            *)
(* (src/adminApi.ts, src/reconcileWorker.ts, src/reconciliation.ts,        *)
(* src/reconcileJobStore.ts) between the tags and rows of RoleMapping.     *)
(*                                                                         *)
(* The starter writes a job row and sends the first message; each message  *)
(* makes the one worker sweep one page of IAM roles, add to the job row    *)
(* and send the message of the next page.  A message is received at most   *)
(* MaxReceive times and may be received again after it was dealt with; a   *)
(* call may fail, an invocation may die at any step.  The operator's page  *)
(* polls the job row.                                                      *)
(***************************************************************************)
EXTENDS RoleMapping, FiniteSets

CONSTANTS
  Jobs,         \* job ids, one per reconciliation asked for
  Pages,        \* number of iam:ListRoles pages
  PageOf,       \* [Roles -> 1..Pages]
  MaxReceive,   \* maxReceiveCount of the queue
  MaxPolls,     \* MAX_POLLS of the page
  MaxOutside    \* bound: tag changes, direct mappings and lookups by others

ASSUME ReconciliationAssumption ==
  /\ Pages \in Nat \ {0}
  /\ PageOf \in [Roles -> 1..Pages]
  /\ MaxReceive \in Nat \ {0}
  /\ MaxPolls \in Nat
  /\ MaxOutside \in Nat
  /\ IsFiniteSet(Roles)

VARIABLES
  job,        \* [Jobs -> the job row]
  starter,    \* [Jobs -> handleReconcileTeamRoles]
  screen,     \* [Jobs -> handleReconcile of the page], with its polls
  queue,      \* messages not deleted yet
  sent,       \* messages sent so far; the id of the last one
  dead,       \* messages in the dead-letter queue
  worker,     \* the invocation of the worker
  seen,       \* [Roles -> what the tags of the role said in this invocation]
  left,       \* roles of the page not written back yet
  stray,      \* calls left behind by an invocation that failed
  outside,    \* how many of those there have been
  \* History, read by no action:
  swept,      \* [Jobs -> roles written back for the job]
  disturbed   \* [Jobs -> roles whose tag or row others changed since]

jobVars    == <<job, starter, screen>>
queueVars  == <<queue, sent, dead>>
workerVars == <<worker, seen, left, stray>>
sweepVars  == <<swept, disturbed>>
vars == <<mappingVars, jobVars, queueVars, workerVars, outside, sweepVars>>

Messages == [id : Nat, job : Jobs, page : 1..Pages, receives : Nat]
Statuses == {"none", "running", "complete", "failed"}
JobRow   == [status : Statuses, roles : Nat, pages : Nat]
NoJob    == [status |-> "none", roles |-> 0, pages |-> 0]

Worker == [pc : {"idle", "sweep", "send", "delete", "fail"}, msg : Messages \cup {None},
           found : Nat]
Idle   == [pc |-> "idle", msg |-> None, found |-> 0]
Unseen == [r \in Roles |-> None]

PageRoles(p) == {r \in Roles : PageOf[r] = p}

TypeOK ==
  /\ MappingTypeOK
  /\ job \in [Jobs -> JobRow]
  /\ starter \in [Jobs -> {"none", "created", "sent", "failed"}]
  /\ screen \in [Jobs -> [at : {"none", "starting", "polling", "ok", "error", "stopped"},
                          polls : Nat]]
  /\ queue \subseteq Messages /\ dead \subseteq Messages
  /\ sent \in Nat
  /\ worker \in Worker
  /\ seen \in [Roles -> Owners \cup {None}]
  /\ left \subseteq Roles
  /\ stray \subseteq Roles \X (Owners \cup {None})
  /\ outside \in Nat
  /\ swept \in [Jobs -> SUBSET Roles] /\ disturbed \in [Jobs -> SUBSET Roles]

Init ==
  /\ MappingInit
  /\ job = [j \in Jobs |-> NoJob]
  /\ starter = [j \in Jobs |-> "none"]
  /\ screen = [j \in Jobs |-> [at |-> "none", polls |-> 0]]
  /\ queue = {} /\ dead = {} /\ sent = 0
  /\ worker = Idle /\ seen = Unseen /\ left = {} /\ stray = {}
  /\ outside = 0
  /\ swept = [j \in Jobs |-> {}] /\ disturbed = [j \in Jobs |-> {}]

-----------------------------------------------------------------------------
(* Tags, rows and their other writers.                                     *)

(* The row says what the tag says; an untagged role needs no row.          *)
Agrees(r) ==
  IF tagOf[r] = Unmapped THEN row[r].team \in {None, Unmapped} ELSE row[r].team = tagOf[r]

(* A step of another actor disturbs a role whose tag it changes and one    *)
(* whose row it writes to say something else.                              *)
Disturbs ==
  disturbed' = [j \in Jobs |-> disturbed[j] \cup
    {r \in Roles : \/ tagOf'[r] # tagOf[r]
                   \/ row'[r] # row[r] /\ ~Agrees(r)'}]

Environment ==
  /\ \/ /\ outside < MaxOutside
        /\ outside' = outside + 1
        /\ \/ \E r \in Roles, o \in Owners : ChangeTag(r, o)
           \/ \E r \in Roles, t \in Teams : MapRoleToTeam(r, t)
           \/ \E w \in Callers, r \in Roles : LookUp(w, r)
     \/ /\ UNCHANGED outside
        /\ \/ \E r \in Roles, t \in Teams : DeliverTagRole(r, t)
           \/ \E r \in Roles : PassTtl(r) \/ DeleteExpired(r)
           \/ \E w \in Callers : ReadTags(w) \/ TagsUnreadable(w) \/ PutRow(w)
           \/ \E w \in Callers : /\ res[w].pc = "done"
                                 /\ DropCall(w)
                                 /\ UNCHANGED <<tagOf, row, tagEvents, held, unresolved>>
  /\ UNCHANGED <<jobVars, queueVars, workerVars, swept>>
  /\ Disturbs

-----------------------------------------------------------------------------
(* The starter: handleReconcile of the page calls handleReconcileTeamRoles.*)

Send(j, p) ==
  /\ sent' = sent + 1
  /\ queue' = queue \cup {[id |-> sent', job |-> j, page |-> p, receives |-> 0]}

(* createReconcileJob, before the message is sent.                         *)
CreateJob(j) ==
  /\ starter[j] = "none"
  /\ job' = [job EXCEPT ![j].status = "running"]
  /\ starter' = [starter EXCEPT ![j] = "created"]
  /\ screen' = [screen EXCEPT ![j].at = "starting"]
  /\ swept' = [swept EXCEPT ![j] = {}]
  /\ disturbed' = [disturbed EXCEPT ![j] = {}]
  /\ UNCHANGED <<mappingVars, queueVars, workerVars, outside>>

SendFirst(j) ==
  /\ starter[j] = "created"
  /\ Send(j, 1)
  /\ starter' = [starter EXCEPT ![j] = "sent"]
  /\ UNCHANGED <<mappingVars, job, screen, dead, workerVars, outside, sweepVars>>

(* The message could not be sent, or the handler died before sending it:   *)
(* the row stays as it was created.                                        *)
StartFails(j) ==
  /\ starter[j] = "created"
  /\ starter' = [starter EXCEPT ![j] = "failed"]
  /\ UNCHANGED <<mappingVars, job, screen, queueVars, workerVars, outside, sweepVars>>

(* The page gets the job id, or an error: the handler failed, or its       *)
(* answer was lost.                                                        *)
StartAnswered(j) ==
  /\ screen[j].at = "starting"
  /\ \/ /\ starter[j] = "sent"
        /\ screen' = [screen EXCEPT ![j].at = "polling"]
     \/ /\ starter[j] \in {"sent", "failed"}
        /\ screen' = [screen EXCEPT ![j].at = "error"]
  /\ UNCHANGED <<mappingVars, job, starter, queueVars, workerVars, outside, sweepVars>>

(* Mutant: an error answer is tried again without counting as a poll.      *)
Poll_uncounted(j) ==
  /\ screen[j].at = "polling" /\ screen[j].polls < MaxPolls
  /\ \/ /\ job[j].status = "complete"
        /\ screen' = [screen EXCEPT ![j].at = "ok"]
     \/ /\ job[j].status = "failed"
        /\ screen' = [screen EXCEPT ![j].at = "error"]
     \/ UNCHANGED screen
  /\ UNCHANGED <<mappingVars, job, starter, queueVars, workerVars, outside, sweepVars>>

(* Mutant: whatever is not running any more is reported as done.           *)
Poll_done(j) ==
  /\ screen[j].at = "polling" /\ screen[j].polls < MaxPolls
  /\ \/ /\ job[j].status # "running"
        /\ screen' = [screen EXCEPT ![j].at = "ok"]
     \/ screen' = [screen EXCEPT ![j].polls = @ + 1]
  /\ UNCHANGED <<mappingVars, job, starter, queueVars, workerVars, outside, sweepVars>>

(* One poll: a terminal status ends the loop, anything else, an error      *)
(* answer included, is tried again; a call that throws ends it too.        *)
Poll(j) ==
  /\ screen[j].at = "polling" /\ screen[j].polls < MaxPolls
  /\ \/ /\ job[j].status = "complete"
        /\ screen' = [screen EXCEPT ![j].at = "ok"]
     \/ /\ job[j].status = "failed"
        /\ screen' = [screen EXCEPT ![j].at = "error"]
     \/ screen' = [screen EXCEPT ![j].polls = @ + 1]
     \/ screen' = [screen EXCEPT ![j].at = "error"]
  /\ UNCHANGED <<mappingVars, job, starter, queueVars, workerVars, outside, sweepVars>>

PollsExhausted(j) ==
  /\ screen[j].at = "polling" /\ screen[j].polls = MaxPolls
  /\ screen' = [screen EXCEPT ![j].at = "stopped"]
  /\ UNCHANGED <<mappingVars, job, starter, queueVars, workerVars, outside, sweepVars>>

-----------------------------------------------------------------------------
(* The queue.                                                              *)

(* Mutant: the message is deleted when it is received.                     *)
Receive_deletes(m) ==
  /\ worker.pc = "idle"
  /\ m \in queue /\ m.receives < MaxReceive
  /\ queue' = queue \ {m}
  /\ worker' = [Idle EXCEPT !.pc = "sweep", !.msg = [m EXCEPT !.receives = @ + 1]]
  /\ seen' = Unseen
  /\ left' = PageRoles(m.page)
  /\ UNCHANGED <<mappingVars, jobVars, sent, dead, stray, outside, sweepVars>>

(* One message at a time: batchSize 1, reservedConcurrentExecutions 1.     *)
Receive(m) ==
  /\ worker.pc = "idle"
  /\ m \in queue /\ m.receives < MaxReceive
  /\ LET received == [m EXCEPT !.receives = @ + 1] IN
       /\ queue' = (queue \ {m}) \cup {received}
       /\ worker' = [Idle EXCEPT !.pc = "sweep", !.msg = received]
  /\ seen' = Unseen
  /\ left' = PageRoles(m.page)
  /\ UNCHANGED <<mappingVars, jobVars, sent, dead, stray, outside, sweepVars>>

DeadLetter(m) ==
  /\ m \in queue /\ m.receives = MaxReceive /\ worker.msg # m
  /\ queue' = queue \ {m}
  /\ dead' = dead \cup {m}
  /\ UNCHANGED <<mappingVars, jobVars, sent, workerVars, outside, sweepVars>>

-----------------------------------------------------------------------------
(* The worker: processReconcileMessage.                                    *)

To(pc) == worker' = [worker EXCEPT !.pc = pc]

(* resolveTeamFromIam for a role of the page; the calls run side by side.  *)
ReadRole(r) ==
  /\ worker.pc = "sweep"
  /\ r \in left /\ seen[r] = None
  /\ seen' = [seen EXCEPT ![r] = tagOf[r]]
  /\ UNCHANGED <<mappingVars, jobVars, queueVars, worker, left, stray, outside, sweepVars>>

(* Mutant: the row of a role without the tag is left alone.                *)
WriteBack_keeps(r, o) == IF o = Unmapped THEN row' = row ELSE CacheRoleTeam(r, o)

(* deleteRoleTeam, or cacheRoleTeam, whatever the row says by now.         *)
WriteBack(r, o) ==
  IF o = Unmapped THEN row' = [row EXCEPT ![r] = Absent] ELSE CacheRoleTeam(r, o)

WriteRole(r) ==
  /\ worker.pc = "sweep"
  /\ r \in left /\ seen[r] # None
  /\ WriteBack(r, seen[r])
  /\ left' = left \ {r}
  /\ worker' = [worker EXCEPT !.found = IF seen[r] = Unmapped THEN @ ELSE @ + 1]
  /\ swept' = [swept EXCEPT ![worker.msg.job] = @ \cup {r}]
  /\ UNCHANGED <<tagOf, tagEvents, res, held, unresolved, jobVars, queueVars, seen, stray,
                 outside, disturbed>>

(* ListRoles, or a call for one role, fails for good: Promise.all rejects  *)
(* at once and the calls for the other roles are left to themselves.       *)
SweepFails ==
  /\ worker.pc = "sweep" /\ left # {}
  /\ \/ stray' = stray
     \/ \E r \in left : stray' = stray \cup {<<x, seen[x]>> : x \in left \ {r}}
  /\ To("fail")
  /\ UNCHANGED <<mappingVars, jobVars, queueVars, seen, left, outside, sweepVars>>

(* They go on while the container runs: in this invocation's last steps or *)
(* in a later one.                                                         *)
StrayRead(r) ==
  /\ worker.pc # "idle" /\ <<r, None>> \in stray
  /\ stray' = (stray \ {<<r, None>>}) \cup {<<r, tagOf[r]>>}
  /\ UNCHANGED <<mappingVars, jobVars, queueVars, worker, seen, left, outside, sweepVars>>

StrayWrite(r, o) ==
  /\ worker.pc # "idle" /\ <<r, o>> \in stray
  /\ WriteBack(r, o)
  /\ stray' = stray \ {<<r, o>>}
  /\ UNCHANGED <<tagOf, tagEvents, res, held, unresolved, jobVars, queueVars, worker, seen,
                 left, outside, swept>>
  /\ Disturbs

AddCounts(j, status) ==
  job' = [job EXCEPT ![j] = [status |-> status, roles |-> @.roles + worker.found,
                             pages |-> @.pages + 1]]

(* Mutant: a next marker is taken for the end one page early.              *)
LastPage_early == worker.msg.page + 1 >= Pages

LastPage == worker.msg.page = Pages

(* recordReconcileProgress adds and leaves the status alone.               *)
RecordProgress ==
  /\ worker.pc = "sweep" /\ left = {} /\ ~LastPage
  /\ AddCounts(worker.msg.job, job[worker.msg.job].status)
  /\ To("send")
  /\ UNCHANGED <<mappingVars, starter, screen, queueVars, seen, left, stray, outside, sweepVars>>

SendNext ==
  /\ worker.pc = "send"
  /\ Send(worker.msg.job, worker.msg.page + 1)
  /\ To("delete")
  /\ UNCHANGED <<mappingVars, jobVars, dead, seen, left, stray, outside, sweepVars>>

(* Mutant: the last page is recorded like the others.                      *)
Complete_records ==
  /\ worker.pc = "sweep" /\ left = {} /\ LastPage
  /\ AddCounts(worker.msg.job, job[worker.msg.job].status)
  /\ To("delete")
  /\ UNCHANGED <<mappingVars, starter, screen, queueVars, seen, left, stray, outside, sweepVars>>

(* completeReconcileJob sets the status whatever it was.                   *)
Complete ==
  /\ worker.pc = "sweep" /\ left = {} /\ LastPage
  /\ AddCounts(worker.msg.job, "complete")
  /\ To("delete")
  /\ UNCHANGED <<mappingVars, starter, screen, queueVars, seen, left, stray, outside, sweepVars>>

(* One of the three calls above fails.                                     *)
ReportFails ==
  /\ \/ worker.pc = "sweep" /\ left = {}
     \/ worker.pc = "send"
  /\ To("fail")
  /\ UNCHANGED <<mappingVars, jobVars, queueVars, seen, left, stray, outside, sweepVars>>

(* failReconcileJob, which may fail itself, then the error is rethrown and *)
(* the message stays in the queue.                                         *)
FailJob ==
  /\ worker.pc = "fail"
  /\ job' \in {job, [job EXCEPT ![worker.msg.job].status = "failed"]}
  /\ worker' = Idle /\ seen' = Unseen /\ left' = {}
  /\ UNCHANGED <<mappingVars, starter, screen, queueVars, stray, outside, sweepVars>>

(* The event source deletes the message, or the deletion is lost.          *)
Delete ==
  /\ worker.pc = "delete"
  /\ queue' \in {queue, queue \ {worker.msg}}
  /\ worker' = Idle /\ seen' = Unseen /\ left' = {}
  /\ UNCHANGED <<mappingVars, jobVars, sent, dead, stray, outside, sweepVars>>

(* The invocation times out or its container dies.                         *)
Crash ==
  /\ worker.pc # "idle"
  /\ worker' = Idle /\ seen' = Unseen /\ left' = {} /\ stray' = {}
  /\ UNCHANGED <<mappingVars, jobVars, queueVars, outside, sweepVars>>

-----------------------------------------------------------------------------
Starter(j) == CreateJob(j) \/ SendFirst(j) \/ StartFails(j)
Screen(j)  == StartAnswered(j) \/ Poll(j) \/ PollsExhausted(j)
Queue      == \E m \in queue : Receive(m) \/ DeadLetter(m)
Invocation ==
  \/ \E r \in Roles : ReadRole(r) \/ WriteRole(r)
  \/ SweepFails \/ RecordProgress \/ SendNext \/ Complete \/ ReportFails
  \/ FailJob \/ Delete
Strays == \E r \in Roles : StrayRead(r) \/ \E o \in Owners : StrayWrite(r, o)

Next ==
  \/ Environment
  \/ \E j \in Jobs : Starter(j) \/ Screen(j)
  \/ Queue \/ Invocation \/ Strays \/ Crash

Spec == Init /\ [][Next]_vars

(* The queue delivers, an invocation goes on or dies, a handler goes on or *)
(* dies, the page polls; nobody has to press the button or change a tag.   *)
FairSpec ==
  /\ Spec
  /\ WF_vars(Queue)
  /\ WF_vars(Invocation)
  /\ \A j \in Jobs : WF_vars(SendFirst(j) \/ StartFails(j)) /\ WF_vars(Screen(j))

-----------------------------------------------------------------------------
(* Properties.                                                             *)

Owed(j) == \E m \in queue : m.job = j

(* A job that was started and still says "running" has a message that will *)
(* drive it on, or one in the dead-letter queue to show for it: no order   *)
(* of record, send, delete, failure and redelivery loses the chain.        *)
NoSilentStall ==
  \A j \in Jobs : starter[j] = "sent" /\ job[j].status = "running" =>
    Owed(j) \/ \E m \in dead : m.job = j

(* The roles a job cannot but have found tagged.                           *)
Expected(j) == {r \in Roles \ disturbed[j] : tagOf[r] # Unmapped}

(* A job that says "complete" has written back every role and has counted  *)
(* each page, and each role that is tagged and that nobody else touched,   *)
(* at least once, through every redelivery and fork of the chain.          *)
ReportCovers ==
  \A j \in Jobs : job[j].status = "complete" =>
    /\ swept[j] = Roles
    /\ job[j].pages >= Pages
    /\ job[j].roles >= Cardinality(Expected(j))

(* A role the job has written back agrees with its tag, except where       *)
(* another actor has changed the tag or the row since the job began: a     *)
(* removed tag leaves no row behind, a changed one no old team.            *)
SweepCorrects == \A j \in Jobs : \A r \in swept[j] \ disturbed[j] : Agrees(r)

(* The operator is told "Reconciled" only of a job whose pages were all    *)
(* swept.                                                                  *)
ScreenTrue == \A j \in Jobs : screen[j].at = "ok" => swept[j] = Roles

(* Every job that was started comes to rest: its messages are gone for     *)
(* good and the row has a final status, or a dead letter says why not.     *)
JobEnds ==
  \A j \in Jobs : starter[j] = "sent" ~>
    [](~Owed(j) /\ (job[j].status # "running" \/ \E m \in dead : m.job = j))

(* The page stops polling.                                                 *)
PollingEnds == \A j \in Jobs : screen[j].at \in {"starting", "polling"} ~>
                                 screen[j].at \in {"ok", "error", "stopped"}
=============================================================================
