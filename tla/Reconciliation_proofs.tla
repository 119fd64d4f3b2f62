------------------------ MODULE Reconciliation_proofs ------------------------
(***************************************************************************)
(* Proofs about Reconciliation, for every number of jobs, pages, roles,    *)
(* redeliveries and steps of the environment.                              *)
(*                                                                         *)
(* Reached(j, p) says what the job has to show for the pages before p.  It *)
(* is what a message of page p stands for, in the queue and in the hands   *)
(* of the worker; "complete" stands for Reached(j, Pages + 1).  No step    *)
(* takes it back (ReachedStays), whatever is redelivered meanwhile.        *)
(***************************************************************************)
EXTENDS Reconciliation, RoleMapping_proofs, FiniteSetTheorems

Before(p) == {r \in Roles : PageOf[r] < p}

Reached(j, p) ==
  /\ Before(p) \subseteq swept[j]
  /\ job[j].pages >= p - 1
  /\ job[j].roles >= Cardinality(Before(p) \cap Expected(j))

(* A message carries the chain of its job up to its page.                  *)
Carries(m) ==
  /\ starter[m.job] = "sent"
  /\ m.id =< sent
  /\ Reached(m.job, m.page)

(* The worker holds a message, and behind it what it has done of its page. *)
Swept(m) == PageRoles(m.page) \ left

WorkerInv ==
  LET m == worker.msg IN
  /\ worker.pc = "idle" => seen = Unseen
  /\ worker.pc # "idle" => m \in Messages /\ Carries(m)
  /\ worker.pc = "sweep" =>
       /\ Swept(m) \subseteq swept[m.job]
       /\ worker.found >= Cardinality(Swept(m) \cap Expected(m.job))
  /\ worker.pc = "send" => m.page < Pages /\ Reached(m.job, m.page + 1)
  (* A message is deleted only when another one, or the status, stands for it. *)
  /\ worker.pc = "delete" =>
       \/ job[m.job].status = "complete"
       \/ \E n \in queue \cup dead : n # m /\ n.job = m.job

(* What the worker has read is the tag, except where every job it might    *)
(* mislead knows the role as disturbed.                                    *)
SeenInv ==
  \A r \in Roles : seen[r] # None =>
    /\ <<r, seen[r]>> \in held
    /\ \A j \in Jobs : \/ seen[r] = tagOf[r]
                       \/ r \in disturbed[j]
                       \/ r \notin swept[j] /\ (worker.pc # "idle" => j # worker.msg.job)

StrayHeld == \A x \in stray : x[2] # None => x \in held

CompleteReached ==
  \A j \in Jobs : job[j].status = "complete" => starter[j] = "sent" /\ Reached(j, Pages + 1)

RInv ==
  /\ TypeOK /\ MappingInv
  /\ \A m \in queue \cup dead : Carries(m)
  /\ WorkerInv /\ SeenInv /\ StrayHeld
  /\ CompleteReached /\ NoSilentStall /\ SweepCorrects
  /\ \A j \in Jobs : screen[j].at = "ok" => starter[j] = "sent"
  /\ ScreenTrue

USE ReconciliationAssumption, RoleMappingAssumption DEF Owners, Lives

-----------------------------------------------------------------------------
(* What no step takes back.                                                *)

Grows(j) ==
  /\ starter'[j] = "sent"
  /\ swept[j] \subseteq swept'[j]
  /\ job'[j].pages >= job[j].pages /\ job'[j].roles >= job[j].roles
  /\ Expected(j)' \subseteq Expected(j)

LEMMA DisturbsShrinks ==
  ASSUME Disturbs, NEW j \in Jobs
  PROVE  /\ Expected(j)' \subseteq Expected(j)
         /\ disturbed[j] \subseteq disturbed'[j]
         /\ \A r \in Roles : r \notin disturbed'[j] =>
              tagOf'[r] = tagOf[r] /\ (row'[r] = row[r] \/ Agrees(r)')
  BY DEF Disturbs, Expected

LEMMA CountsGrow ==
  ASSUME TypeOK, NEW j \in Jobs, NEW k \in Jobs, NEW s \in Statuses, AddCounts(k, s)
  PROVE  /\ job' \in [Jobs -> JobRow]
         /\ job'[j].pages >= job[j].pages /\ job'[j].roles >= job[j].roles
         /\ job'[k].pages = job[k].pages + 1 /\ job'[k].status = s
         /\ job'[k].roles = job[k].roles + worker.found
         /\ j # k => job'[j] = job[j]
  BY DEF AddCounts, TypeOK, JobRow, Worker

LEMMA StatusTyped ==
  ASSUME TypeOK, NEW j \in Jobs, NEW s \in Statuses
  PROVE  [job EXCEPT ![j].status = s] \in [Jobs -> JobRow]
  <1>1. job[j] \in JobRow /\ job \in [Jobs -> JobRow]
    BY DEF TypeOK
  <1>2. [job[j] EXCEPT !.status = s] \in JobRow
    BY <1>1 DEF JobRow
  <1> QED
    BY <1>1, <1>2

LEMMA HeldMessage ==
  ASSUME TypeOK, WorkerInv, worker.pc # "idle"
  PROVE  /\ worker.msg \in Messages /\ worker.msg.job \in Jobs /\ worker.msg.page \in 1..Pages
         /\ worker.found \in Nat /\ job[worker.msg.job].status \in Statuses
         /\ starter[worker.msg.job] = "sent"
  BY DEF TypeOK, WorkerInv, Carries, Messages, Worker, JobRow

LEMMA GrowsStep ==
  ASSUME TypeOK, WorkerInv, [Next]_vars, NEW j \in Jobs, starter[j] = "sent"
  PROVE  Grows(j)
  <1> USE DEF Grows
  <1>1. ASSUME UNCHANGED <<starter, swept, job, disturbed, tagOf>> PROVE Grows(j)
    BY <1>1 DEF Expected, TypeOK, JobRow
  <1>2. CASE Environment \/ Strays
    <2>1. CASE Environment
      BY <2>1, DisturbsShrinks DEF Environment, jobVars, TypeOK, JobRow
    <2>2. ASSUME NEW r \in Roles, StrayRead(r) PROVE Grows(j)
      BY <1>1, <2>2 DEF StrayRead, mappingVars, jobVars, sweepVars
    <2>3. ASSUME NEW r \in Roles, NEW o \in Owners, StrayWrite(r, o) PROVE Grows(j)
      BY <2>3, DisturbsShrinks DEF StrayWrite, jobVars, TypeOK, JobRow
    <2> QED
      BY <1>2, <2>1, <2>2, <2>3 DEF Strays
  <1>3. ASSUME NEW k \in Jobs, Starter(k) \/ Screen(k) PROVE Grows(j)
    <2>1. CASE CreateJob(k)
      BY <2>1 DEF CreateJob, mappingVars, Expected, TypeOK, JobRow
    <2>2. CASE SendFirst(k) \/ StartFails(k)
      BY <2>2 DEF SendFirst, StartFails, mappingVars, sweepVars, Expected, TypeOK, JobRow
    <2>3. CASE Screen(k)
      BY <1>1, <2>3 DEF Screen, StartAnswered, Poll, PollsExhausted, mappingVars, sweepVars
    <2> QED
      BY <1>3, <2>1, <2>2, <2>3 DEF Starter
  <1>4. CASE Queue
    BY <1>1, <1>4 DEF Queue, Receive, DeadLetter, mappingVars, jobVars, sweepVars
  <1>5. CASE Invocation \/ Crash
    <2>1. ASSUME NEW r \in Roles, ReadRole(r) PROVE Grows(j)
      BY <1>1, <2>1 DEF ReadRole, mappingVars, jobVars, sweepVars
    <2>2. ASSUME NEW r \in Roles, WriteRole(r) PROVE Grows(j)
      BY <2>2, HeldMessage DEF WriteRole, jobVars, Expected, TypeOK, JobRow
    <2>3. CASE SweepFails \/ SendNext \/ ReportFails \/ Delete \/ Crash
      BY <1>1, <2>3 DEF SweepFails, SendNext, ReportFails, Delete, Crash, mappingVars,
                        jobVars, sweepVars
    <2>4. CASE RecordProgress \/ Complete
      <3>1. PICK s \in Statuses : AddCounts(worker.msg.job, s)
        BY <2>4, HeldMessage DEF RecordProgress, Complete, Statuses
      <3>2. UNCHANGED <<starter, swept, disturbed, tagOf>>
        BY <2>4 DEF RecordProgress, Complete, mappingVars, sweepVars
      <3> QED
        BY <2>4, <3>1, <3>2, HeldMessage, CountsGrow DEF Expected, RecordProgress, Complete
    <2>5. CASE FailJob
      <3>1. job[j] \in JobRow /\ UNCHANGED <<starter, swept, disturbed, tagOf>>
        BY <2>5 DEF FailJob, mappingVars, sweepVars, TypeOK
      <3>2. CASE job' = job
        BY <3>1, <3>2 DEF Expected, JobRow
      <3>3. CASE job' = [job EXCEPT ![worker.msg.job].status = "failed"]
        BY <3>1, <3>3 DEF Expected, JobRow, TypeOK
      <3> QED
        BY <2>5, <3>2, <3>3 DEF FailJob
    <2> QED
      BY <1>5, <2>1, <2>2, <2>3, <2>4, <2>5 DEF Invocation
  <1>6. CASE UNCHANGED vars
    BY <1>1, <1>6 DEF vars, mappingVars, jobVars, sweepVars
  <1> QED
    BY <1>2, <1>3, <1>4, <1>5, <1>6 DEF Next

LEMMA FiniteParts ==
  ASSUME NEW S \in SUBSET Roles
  PROVE  IsFiniteSet(S) /\ Cardinality(S) \in Nat
  BY FS_Subset, FS_CardinalityType

LEMMA ReachedStays ==
  ASSUME TypeOK, TypeOK', NEW j \in Jobs, NEW p \in Nat, Grows(j), Reached(j, p)
  PROVE  Reached(j, p)'
  <1>1. Before(p)' = Before(p) /\ Before(p) \in SUBSET Roles
    BY DEF Before
  <1>2. /\ Before(p) \cap Expected(j)' \in SUBSET (Before(p) \cap Expected(j))
        /\ IsFiniteSet(Before(p) \cap Expected(j))
    BY <1>1, FiniteParts DEF Grows
  <1>3. /\ Cardinality(Before(p) \cap Expected(j)') =< Cardinality(Before(p) \cap Expected(j))
        /\ Cardinality(Before(p) \cap Expected(j)') \in Nat
        /\ Cardinality(Before(p) \cap Expected(j)) \in Nat
    BY <1>1, <1>2, FS_Subset, FiniteParts DEF Expected
  <1>4. /\ job[j].roles \in Nat /\ job'[j].roles \in Nat
        /\ job[j].pages \in Nat /\ job'[j].pages \in Nat
    BY DEF TypeOK, JobRow
  <1> QED
    BY <1>1, <1>3, <1>4 DEF Reached, Grows

LEMMA AllBefore == Before(Pages + 1) = Roles
  BY DEF Before

LEMMA CarriesStays ==
  ASSUME TypeOK, TypeOK', NEW m \in Messages, Carries(m), Grows(m.job), sent' >= sent
  PROVE  Carries(m)'
  <1>1. m.job \in Jobs /\ m.page \in Nat /\ m.id \in Nat /\ sent \in Nat /\ sent' \in Nat
    BY DEF Messages, TypeOK
  <1>2. Reached(m.job, m.page)'
    BY <1>1, ReachedStays DEF Carries
  <1> QED
    BY <1>1, <1>2 DEF Carries, Grows

(* A page written back entirely and counted takes the chain one page on.   *)
LEMMA PageReached ==
  ASSUME TypeOK, TypeOK', NEW j \in Jobs, NEW p \in 1..Pages, Reached(j, p), Grows(j),
         PageRoles(p) \subseteq swept[j],
         job'[j].pages = job[j].pages + 1,
         job'[j].roles >= job[j].roles + Cardinality(PageRoles(p) \cap Expected(j))
  PROVE  Reached(j, p + 1)'
  <1> DEFINE A == Before(p) \cap Expected(j)
             B == PageRoles(p) \cap Expected(j)
             C == Before(p + 1) \cap Expected(j)'
  <1>1. Before(p + 1)' = Before(p + 1) /\ Before(p + 1) = Before(p) \cup PageRoles(p)
    BY DEF Before, PageRoles
  <1>2. A \in SUBSET Roles /\ B \in SUBSET Roles /\ C \in SUBSET (A \cup B)
    BY <1>1 DEF Before, PageRoles, Grows
  <1>3. IsFiniteSet(A) /\ IsFiniteSet(B) /\ IsFiniteSet(A \cup B)
    BY <1>2, FiniteParts
  <1>4. Cardinality(A) \in Nat /\ Cardinality(B) \in Nat /\ Cardinality(A \cap B) \in Nat
        /\ Cardinality(C) \in Nat
    BY <1>2, FiniteParts
  <1>5. Cardinality(A \cup B) = Cardinality(A) + Cardinality(B) - Cardinality(A \cap B)
    BY <1>3, FS_Union
  <1>6. Cardinality(C) =< Cardinality(A \cup B)
    BY <1>2, <1>3, FS_Subset
  <1>7. Cardinality(A) =< job[j].roles /\ job[j].pages >= p - 1
    BY DEF Reached, TypeOK, JobRow
  <1>8. job'[j].roles >= job[j].roles + Cardinality(B)
    OBVIOUS
  <1>9. job[j].roles \in Nat /\ job'[j].roles \in Nat /\ job[j].pages \in Nat
    BY DEF TypeOK, JobRow
  <1>10. job'[j].roles >= Cardinality(C)
    <2> HIDE DEF A, B, C
    <2> QED
      BY <1>4, <1>5, <1>6, <1>7, <1>8, <1>9
  <1>11. Before(p + 1) \subseteq swept'[j]
    BY <1>1 DEF Reached, Grows
  <1>12. job'[j].pages >= (p + 1) - 1
    BY <1>7, <1>9
  <1> QED
    BY <1>1, <1>10, <1>11, <1>12 DEF Reached

-----------------------------------------------------------------------------
(* The rows of RoleMapping: a sweep writes what was held, like the others. *)

LEMMA WriteBackMapping ==
  ASSUME MappingInv, NEW r \in Roles, NEW o \in Owners, <<r, o>> \in held, WriteBack(r, o),
         UNCHANGED <<tagOf, tagEvents, res, held, unresolved>>
  PROVE  MappingInv'
  <1>1. CASE o = Unmapped
    <2>1. row' = [row EXCEPT ![r] = Absent]
      BY <1>1 DEF WriteBack
    <2>2. MappingTypeOK' /\ AbsentIsNone' /\ RowsWereHeld'
      BY <2>1 DEF MappingInv, MappingTypeOK, AbsentIsNone, RowsWereHeld, Row, Absent
    <2>3. TagsHeld' /\ (tagEvents \subseteq held)' /\ \A w \in Callers : CallHeld(res[w])'
      BY DEF MappingInv, TagsHeld, CallHeld, Answered
    <2> QED
      BY <2>2, <2>3 DEF MappingInv
  <1>2. CASE o # Unmapped
    <2>1. o \in Teams /\ CacheRoleTeam(r, o)
      BY <1>2 DEF WriteBack
    <2>2. held' \subseteq Roles \X Owners
      BY DEF MappingInv, MappingTypeOK
    <2> QED
      BY <2>1, <2>2, CacheMapping
  <1> QED
    BY <1>1, <1>2

LEMMA MappingStep ==
  ASSUME RInv, [Next]_vars
  PROVE  MappingInv' /\ held \subseteq held'
  <1> USE DEF RInv
  <1>1. ASSUME UNCHANGED mappingVars PROVE MappingInv' /\ held \subseteq held'
    BY <1>1, StillMapping DEF mappingVars
  <1>2. CASE Environment
    <2>1. ASSUME NEW r \in Roles, NEW o \in Owners, ChangeTag(r, o)
          PROVE  MappingInv' /\ held \subseteq held'
      BY <2>1, ChangeTagMapping DEF ChangeTag
    <2>2. ASSUME NEW r \in Roles, NEW t \in Teams, MapRoleToTeam(r, t) \/ DeliverTagRole(r, t)
          PROVE  MappingInv' /\ held \subseteq held'
      BY <2>2, MapRoleToTeamMapping, DeliverTagRoleMapping DEF MapRoleToTeam, DeliverTagRole
    <2>3. ASSUME NEW r \in Roles, PassTtl(r) \/ DeleteExpired(r)
          PROVE  MappingInv' /\ held \subseteq held'
      BY <2>3, ExpiryMapping DEF PassTtl, DeleteExpired
    <2>4. ASSUME NEW w \in Callers, NEW r \in Roles, LookUp(w, r)
          PROVE  MappingInv' /\ held \subseteq held'
      BY <2>4, LookUpMapping DEF LookUp
    <2>5. ASSUME NEW w \in Callers, ReadTags(w) \/ TagsUnreadable(w) \/ PutRow(w)
          PROVE  MappingInv' /\ held \subseteq held'
      BY <2>5, ReadTagsMapping, TagsUnreadableMapping, PutRowMapping
         DEF ReadTags, TagsUnreadable, PutRow
    <2>6. ASSUME NEW w \in Callers, DropCall(w),
                 UNCHANGED <<tagOf, row, tagEvents, held, unresolved>>
          PROVE  MappingInv' /\ held \subseteq held'
      BY <2>6, DropCallMapping
    <2> QED
      BY <1>2, <2>1, <2>2, <2>3, <2>4, <2>5, <2>6 DEF Environment
  <1>3. CASE Strays
    <2>1. ASSUME NEW r \in Roles, NEW o \in Owners, StrayWrite(r, o)
          PROVE  MappingInv' /\ held \subseteq held'
      <3>1. <<r, o>> \in held
        BY <2>1 DEF StrayWrite, StrayHeld
      <3> QED
        BY <2>1, <3>1, WriteBackMapping DEF StrayWrite
    <2> QED
      BY <1>1, <1>3, <2>1 DEF Strays, StrayRead
  <1>4. ASSUME NEW r \in Roles, WriteRole(r) PROVE MappingInv' /\ held \subseteq held'
    <2>1. seen[r] \in Owners /\ <<r, seen[r]>> \in held
      BY <1>4 DEF WriteRole, SeenInv, TypeOK
    <2> QED
      BY <1>4, <2>1, WriteBackMapping DEF WriteRole
  <1>5. CASE Queue \/ Crash \/ UNCHANGED vars \/ \E j \in Jobs : Starter(j) \/ Screen(j)
    BY <1>1, <1>5 DEF Queue, Receive, DeadLetter, Crash, vars, Starter, CreateJob, SendFirst,
                      StartFails, Screen, StartAnswered, Poll, PollsExhausted
  <1>6. CASE Invocation
    BY <1>1, <1>4, <1>6 DEF Invocation, ReadRole, SweepFails, RecordProgress, SendNext,
                            Complete, ReportFails, FailJob, Delete
  <1> QED
    BY <1>2, <1>3, <1>5, <1>6 DEF Next

-----------------------------------------------------------------------------
(* Types.                                                                  *)

LEMMA SentMessage ==
  ASSUME TypeOK, NEW j \in Jobs, NEW p \in 1..Pages, Send(j, p)
  PROVE  /\ sent' \in Nat /\ sent' > sent
         /\ queue' \subseteq Messages /\ queue \subseteq queue'
         /\ \E n \in queue' : n.id = sent' /\ n.job = j
         /\ \A n \in queue' \ queue : n.job = j /\ n.page = p /\ n.id = sent'
  <1> DEFINE n == [id |-> sent', job |-> j, page |-> p, receives |-> 0]
  <1>1. sent' = sent + 1 /\ sent \in Nat /\ queue \subseteq Messages
    BY DEF Send, TypeOK
  <1>2. n \in Messages /\ n.id = sent' /\ n.job = j /\ n.page = p
    BY <1>1 DEF Messages
  <1>3. queue' = queue \cup {n}
    BY DEF Send
  <1> HIDE DEF n
  <1> QED
    BY <1>1, <1>2, <1>3

LEMMA TypeStep ==
  ASSUME RInv, [Next]_vars
  PROVE  TypeOK'
  <1> USE DEF RInv
  <1>0. MappingTypeOK'
    BY MappingStep DEF MappingInv
  <1>1. CASE Environment
    BY <1>0, <1>1 DEF Environment, Disturbs, TypeOK, jobVars, queueVars, workerVars
  <1>2. CASE Strays
    <2>1. ASSUME NEW r \in Roles, StrayRead(r) PROVE TypeOK'
      <3>1. stray' \subseteq Roles \X (Owners \cup {None})
        BY <2>1 DEF StrayRead, TypeOK, MappingTypeOK
      <3> QED
        BY <1>0, <2>1, <3>1 DEF StrayRead, TypeOK, jobVars, queueVars, sweepVars
    <2>2. ASSUME NEW r \in Roles, NEW o \in Owners, StrayWrite(r, o) PROVE TypeOK'
      BY <1>0, <2>2 DEF StrayWrite, Disturbs, TypeOK, jobVars, queueVars
    <2> QED
      BY <1>2, <2>1, <2>2 DEF Strays
  <1>3. ASSUME NEW j \in Jobs, Starter(j) PROVE TypeOK'
    <2>1. CASE CreateJob(j)
      <3>1. job' \in [Jobs -> JobRow]
        BY <2>1, StatusTyped DEF CreateJob, Statuses
      <3>2. /\ starter' \in [Jobs -> {"none", "created", "sent", "failed"}]
            /\ screen' \in [Jobs -> [at : {"none", "starting", "polling", "ok", "error", "stopped"},
                                     polls : Nat]]
        BY <2>1 DEF CreateJob, TypeOK
      <3>3. swept' \in [Jobs -> SUBSET Roles] /\ disturbed' \in [Jobs -> SUBSET Roles]
        BY <2>1 DEF CreateJob, TypeOK
      <3> QED
        BY <1>0, <2>1, <3>1, <3>2, <3>3 DEF CreateJob, TypeOK, queueVars, workerVars
    <2>2. CASE SendFirst(j)
      <3>1. 1 \in 1..Pages
        OBVIOUS
      <3> QED
        BY <1>0, <2>2, <3>1, SentMessage DEF SendFirst, TypeOK, workerVars, sweepVars
    <2>3. CASE StartFails(j)
      BY <1>0, <2>3 DEF StartFails, TypeOK, queueVars, workerVars, sweepVars
    <2> QED
      BY <1>3, <2>1, <2>2, <2>3 DEF Starter
  <1>4. ASSUME NEW j \in Jobs, Screen(j) PROVE TypeOK'
    <2>1. screen' \in [Jobs -> [at : {"none", "starting", "polling", "ok", "error", "stopped"},
                                polls : Nat]]
      BY <1>4 DEF Screen, StartAnswered, Poll, PollsExhausted, TypeOK
    <2> QED
      BY <1>0, <1>4, <2>1 DEF Screen, StartAnswered, Poll, PollsExhausted, TypeOK, queueVars,
                              workerVars, sweepVars
  <1>5. ASSUME NEW m \in queue, Receive(m) \/ DeadLetter(m) PROVE TypeOK'
    <2>1. CASE Receive(m)
      <3>1. [m EXCEPT !.receives = @ + 1] \in Messages
        BY DEF TypeOK, Messages
      <3> QED
        BY <1>0, <2>1, <3>1 DEF Receive, TypeOK, Worker, Idle, Unseen, PageRoles, jobVars,
                                sweepVars
    <2>2. CASE DeadLetter(m)
      BY <1>0, <2>2 DEF DeadLetter, TypeOK, jobVars, workerVars, sweepVars
    <2> QED
      BY <1>5, <2>1, <2>2
  <1>6. ASSUME NEW r \in Roles, ReadRole(r) \/ WriteRole(r) PROVE TypeOK'
    <2>1. CASE ReadRole(r)
      BY <1>0, <2>1 DEF ReadRole, TypeOK, MappingTypeOK, jobVars, queueVars, sweepVars
    <2>2. CASE WriteRole(r)
      <3>1. worker' \in Worker
        BY <2>2 DEF WriteRole, TypeOK, Worker
      <3> QED
        BY <1>0, <2>2, <3>1 DEF WriteRole, TypeOK, jobVars, queueVars
    <2> QED
      BY <1>6, <2>1, <2>2
  <1>7. CASE SweepFails \/ ReportFails
    <2>1. worker' \in Worker
      BY <1>7 DEF SweepFails, ReportFails, To, TypeOK, Worker
    <2>2. stray' \subseteq Roles \X (Owners \cup {None})
      BY <1>7 DEF SweepFails, ReportFails, TypeOK
    <2> QED
      BY <1>0, <1>7, <2>1, <2>2 DEF SweepFails, ReportFails, TypeOK, jobVars, queueVars, sweepVars
  <1>8. CASE RecordProgress \/ Complete
    <2>1. PICK s \in Statuses : AddCounts(worker.msg.job, s)
      BY <1>8, HeldMessage DEF RecordProgress, Complete, Statuses
    <2>2. job' \in [Jobs -> JobRow]
      BY <1>8, <2>1, HeldMessage, CountsGrow DEF RecordProgress, Complete
    <2>3. worker' \in Worker
      BY <1>8 DEF RecordProgress, Complete, To, TypeOK, Worker
    <2> QED
      BY <1>0, <1>8, <2>2, <2>3 DEF RecordProgress, Complete, TypeOK, queueVars, sweepVars
  <1>9. CASE SendNext
    <2>1. worker.msg.page + 1 \in 1..Pages /\ worker.msg.job \in Jobs
      BY <1>9, HeldMessage DEF SendNext, WorkerInv
    <2>2. worker' \in Worker
      BY <1>9 DEF SendNext, To, TypeOK, Worker
    <2>3. sent' \in Nat /\ queue' \subseteq Messages
      <3> PICK k \in Jobs, p \in 1..Pages : k = worker.msg.job /\ p = worker.msg.page + 1
        BY <2>1
      <3>1. Send(k, p)
        BY <1>9 DEF SendNext
      <3> QED
        BY <3>1, SentMessage DEF TypeOK
    <2> QED
      BY <1>0, <1>9, <2>2, <2>3 DEF SendNext, TypeOK, jobVars, sweepVars
  <1>10. CASE FailJob \/ Delete \/ Crash
    <2>1. job' \in [Jobs -> JobRow]
      <3>1. CASE FailJob
        <4>1. worker.msg.job \in Jobs /\ job \in [Jobs -> JobRow]
          BY <3>1, HeldMessage DEF FailJob, TypeOK
        <4>2. [job EXCEPT ![worker.msg.job].status = "failed"] \in [Jobs -> JobRow]
          BY <4>1, StatusTyped DEF Statuses
        <4> QED
          BY <3>1, <4>1, <4>2 DEF FailJob
      <3>2. CASE Delete \/ Crash
        BY <3>2 DEF Delete, Crash, jobVars, TypeOK
      <3> QED
        BY <1>10, <3>1, <3>2
    <2>2. worker' \in Worker /\ seen' \in [Roles -> Owners \cup {None}] /\ left' \subseteq Roles
      BY <1>10 DEF FailJob, Delete, Crash, Worker, Idle, Unseen
    <2> QED
      BY <1>0, <1>10, <2>1, <2>2 DEF FailJob, Delete, Crash, TypeOK, jobVars, queueVars, sweepVars
  <1>11. CASE UNCHANGED vars
    BY <1>0, <1>11 DEF vars, TypeOK, jobVars, queueVars, workerVars, sweepVars
  <1> QED
    BY <1>1, <1>2, <1>3, <1>4, <1>5, <1>6, <1>7, <1>8, <1>9, <1>10, <1>11
       DEF Next, Queue, Invocation

-----------------------------------------------------------------------------
(* The messages and what they carry.                                       *)

LEMMA SentGrows ==
  ASSUME TypeOK, [Next]_vars
  PROVE  sent' >= sent
  <1>1. sent' = sent \/ sent' = sent + 1
    BY DEF Next, Environment, Starter, Screen, Queue, Invocation, Strays, Crash,
           CreateJob, SendFirst, StartFails, StartAnswered, Poll, PollsExhausted, Receive,
           DeadLetter, ReadRole, WriteRole, SweepFails, RecordProgress, SendNext, Complete,
           ReportFails, FailJob, Delete, StrayRead, StrayWrite, Send, vars, queueVars
  <1> QED
    BY <1>1 DEF TypeOK

LEMMA QueueSteps ==
  ASSUME [Next]_vars
  PROVE  \/ UNCHANGED <<queue, dead>>
         \/ \E j \in Jobs : SendFirst(j)
         \/ \E m \in queue : Receive(m) \/ DeadLetter(m)
         \/ SendNext \/ Delete
  BY DEF Next, Environment, Starter, Screen, Queue, Invocation, Strays, Crash,
         CreateJob, StartFails, StartAnswered, Poll, PollsExhausted, ReadRole, WriteRole,
         SweepFails, RecordProgress, Complete, ReportFails, FailJob, StrayRead, StrayWrite,
         vars, queueVars

LEMMA CarriesStep ==
  ASSUME RInv, [Next]_vars
  PROVE  /\ \A m \in queue \cup dead : Carries(m)'
         /\ \A m : worker.pc # "idle" /\ m = worker.msg => Carries(m)'
         /\ \A m \in queue' \cup dead' : Carries(m)'
  <1>0. TypeOK /\ TypeOK' /\ WorkerInv /\ sent' >= sent
    BY TypeStep, SentGrows DEF RInv
  <1>1. ASSUME NEW m \in Messages, Carries(m) PROVE Carries(m)'
    <2>1. m.job \in Jobs /\ starter[m.job] = "sent"
      BY <1>1 DEF Carries, Messages
    <2> QED
      BY <1>0, <1>1, <2>1, GrowsStep, CarriesStays
  <1>2. \A m \in queue \cup dead : m \in Messages /\ Carries(m)
    BY DEF RInv, TypeOK
  <1>3. \A m \in queue \cup dead : Carries(m)'
    BY <1>1, <1>2
  <1>4. \A m : worker.pc # "idle" /\ m = worker.msg => Carries(m)'
    BY <1>0, <1>1 DEF WorkerInv
  <1>5. CASE UNCHANGED <<queue, dead>>
    BY <1>3, <1>4, <1>5
  <1>6. ASSUME NEW j \in Jobs, SendFirst(j) PROVE \A m \in queue' \cup dead' : Carries(m)'
    <2>1. ASSUME NEW m \in queue' \ queue PROVE Carries(m)'
      <3>1. m.job = j /\ m.page = 1 /\ m.id = sent' /\ starter'[j] = "sent" /\ sent' \in Nat
        BY <1>0, <1>6, SentMessage DEF SendFirst, TypeOK
      <3>2. Before(1) = {} /\ Before(1)' = {}
        BY DEF Before
      <3>3. Cardinality(Before(1)' \cap Expected(j)') = 0
        BY <3>2, FS_EmptySet
      <3>4. job'[j].pages \in Nat /\ job'[j].roles \in Nat
        BY <1>0 DEF TypeOK, JobRow
      <3>5. Reached(j, 1)'
        BY <3>2, <3>3, <3>4 DEF Reached
      <3> QED
        BY <3>1, <3>5 DEF Carries
    <2> QED
      BY <1>3, <1>6, <2>1 DEF SendFirst
  <1>7. ASSUME NEW m \in queue, Receive(m) \/ DeadLetter(m)
        PROVE  \A n \in queue' \cup dead' : Carries(n)'
    <2>1. CASE Receive(m)
      <3>1. PICK c : c = [m EXCEPT !.receives = @ + 1]
        OBVIOUS
      <3>2. queue' = (queue \ {m}) \cup {c} /\ dead' = dead
        BY <2>1, <3>1 DEF Receive
      <3>3. c.job = m.job /\ c.page = m.page /\ c.id = m.id
        BY <1>2, <3>1 DEF Messages
      <3>4. Carries(c)'
        BY <1>3, <3>3 DEF Carries
      <3> QED
        BY <1>3, <3>2, <3>4
    <2>2. CASE DeadLetter(m)
      BY <1>3, <2>2 DEF DeadLetter
    <2> QED
      BY <1>7, <2>1, <2>2
  <1>8. CASE SendNext
    <2>1. /\ worker.msg.job \in Jobs /\ worker.msg.page + 1 \in 1..Pages
          /\ starter[worker.msg.job] = "sent" /\ Reached(worker.msg.job, worker.msg.page + 1)
      BY <1>0, <1>8, HeldMessage DEF SendNext, WorkerInv
    <2>2. Reached(worker.msg.job, worker.msg.page + 1)' /\ starter'[worker.msg.job] = "sent"
      <3> PICK j \in Jobs : j = worker.msg.job
        BY <2>1
      <3> PICK p \in Nat : p = worker.msg.page + 1
        BY <2>1
      <3>1. Grows(j)
        BY <1>0, <2>1, GrowsStep
      <3>2. Reached(j, p)'
        BY <1>0, <2>1, <3>1, ReachedStays
      <3>3. worker'.msg = worker.msg
        BY <1>0, <1>8 DEF SendNext, To, TypeOK, Worker
      <3> QED
        BY <3>1, <3>2, <3>3 DEF Grows
    <2>3. ASSUME NEW m \in queue' \ queue PROVE Carries(m)'
      <3>1. /\ m.job = worker.msg.job /\ m.page = worker.msg.page + 1 /\ m.id = sent'
            /\ sent' \in Nat
        BY <1>0, <1>8, <2>1, SentMessage DEF SendNext
      <3>2. worker'.msg = worker.msg
        BY <1>0, <1>8 DEF SendNext, To, TypeOK, Worker
      <3> QED
        BY <2>2, <3>1, <3>2 DEF Carries
    <2> QED
      BY <1>3, <1>4, <1>8, <2>3 DEF SendNext
  <1>9. CASE Delete
    BY <1>3, <1>4, <1>9 DEF Delete
  <1> QED
    BY <1>3, <1>4, <1>5, <1>6, <1>7, <1>8, <1>9, QueueSteps

-----------------------------------------------------------------------------
(* What the worker holds.                                                  *)

Others ==
  \/ Environment \/ Strays \/ UNCHANGED vars
  \/ \E j \in Jobs : Starter(j) \/ Screen(j)
  \/ \E m \in queue : DeadLetter(m)

LEMMA StepKinds ==
  ASSUME [Next]_vars
  PROVE  Others \/ Invocation \/ Crash \/ \E m \in queue : Receive(m)
  BY DEF Next, Others, Queue

LEMMA OthersStep ==
  ASSUME RInv, Others
  PROVE  /\ UNCHANGED <<worker, seen, left>>
         /\ queue \cup dead \subseteq queue' \cup dead'
         /\ \A j \in Jobs : starter[j] = "sent" => job'[j] = job[j]
  <1>1. CASE Environment
    BY <1>1 DEF Environment, jobVars, queueVars, workerVars
  <1>2. CASE Strays
    BY <1>2 DEF Strays, StrayRead, StrayWrite, jobVars, queueVars
  <1>3. CASE UNCHANGED vars
    BY <1>3 DEF vars, jobVars, queueVars, workerVars
  <1>4. ASSUME NEW k \in Jobs, Starter(k) \/ Screen(k)
        PROVE  /\ UNCHANGED <<worker, seen, left>>
               /\ queue \cup dead \subseteq queue' \cup dead'
               /\ \A j \in Jobs : starter[j] = "sent" => job'[j] = job[j]
    <2>1. CASE CreateJob(k)
      BY <2>1 DEF CreateJob, queueVars, workerVars, RInv, TypeOK
    <2>2. CASE SendFirst(k)
      BY <2>2 DEF SendFirst, Send, workerVars
    <2>3. CASE StartFails(k) \/ Screen(k)
      BY <2>3 DEF StartFails, Screen, StartAnswered, Poll, PollsExhausted, queueVars, workerVars
    <2> QED
      BY <1>4, <2>1, <2>2, <2>3 DEF Starter
  <1>5. ASSUME NEW m \in queue, DeadLetter(m)
        PROVE  /\ UNCHANGED <<worker, seen, left>>
               /\ queue \cup dead \subseteq queue' \cup dead'
               /\ \A j \in Jobs : starter[j] = "sent" => job'[j] = job[j]
    BY <1>5 DEF DeadLetter, jobVars, workerVars
  <1> QED
    BY <1>1, <1>2, <1>3, <1>4, <1>5 DEF Others

LEMMA FoundStays ==
  ASSUME NEW S \in SUBSET Roles, NEW j \in Jobs, Grows(j), NEW n \in Nat,
         n >= Cardinality(S \cap Expected(j))
  PROVE  n >= Cardinality(S \cap Expected(j)')
  <1>1. S \cap Expected(j)' \in SUBSET (S \cap Expected(j)) /\ IsFiniteSet(S \cap Expected(j))
    BY FiniteParts DEF Grows
  <1>2. Cardinality(S \cap Expected(j)') =< Cardinality(S \cap Expected(j))
    BY <1>1, FS_Subset
  <1>3. Cardinality(S \cap Expected(j)') \in Nat /\ Cardinality(S \cap Expected(j)) \in Nat
    BY <1>1, FiniteParts
  <1> QED
    BY <1>2, <1>3

LEMMA WorkerOthers ==
  ASSUME RInv, [Next]_vars, Others
  PROVE  WorkerInv'
  <1> DEFINE m == worker.msg
  <1>0. TypeOK /\ TypeOK' /\ WorkerInv
    BY TypeStep DEF RInv
  <1>1. /\ UNCHANGED <<worker, seen, left>>
        /\ queue \cup dead \subseteq queue' \cup dead'
        /\ \A j \in Jobs : starter[j] = "sent" => job'[j] = job[j]
    BY OthersStep
  <1>2. CASE worker.pc = "idle"
    BY <1>0, <1>1, <1>2 DEF WorkerInv, Unseen
  <1>3. CASE worker.pc # "idle"
    <2>1. PICK c \in Messages : c = worker.msg /\ c = worker'.msg
      BY <1>0, <1>1, <1>3, HeldMessage
    <2>2. PICK j \in Jobs : j = c.job /\ starter[j] = "sent"
      BY <1>0, <1>3, <2>1, HeldMessage
    <2>3. Grows(j) /\ job'[j] = job[j]
      BY <1>0, <1>1, <2>2, GrowsStep
    <2>4. Carries(c)'
      BY <1>3, <2>1, CarriesStep
    <2>5. ASSUME worker.pc = "sweep"
          PROVE  Swept(c)' \subseteq swept'[j] /\ worker'.found >= Cardinality(Swept(c) \cap Expected(j))'
      <3>1. Swept(c)' = Swept(c) /\ Swept(c) \in SUBSET Roles /\ worker'.found = worker.found
            /\ worker.found \in Nat
        BY <1>0, <1>1 DEF Swept, PageRoles, TypeOK, Worker
      <3>2. Swept(c) \subseteq swept[j] /\ worker.found >= Cardinality(Swept(c) \cap Expected(j))
        BY <1>0, <2>1, <2>2, <2>5 DEF WorkerInv
      <3>3. worker.found >= Cardinality(Swept(c) \cap Expected(j)')
        BY <2>3, <3>1, <3>2, FoundStays
      <3> QED
        BY <2>3, <3>1, <3>2, <3>3 DEF Grows
    <2>6. ASSUME worker.pc = "send" PROVE c.page < Pages /\ Reached(j, c.page + 1)'
      <3>1. c.page + 1 \in Nat /\ c.page < Pages /\ Reached(j, c.page + 1)
        BY <1>0, <2>1, <2>2, <2>6 DEF WorkerInv, Messages
      <3> PICK p \in Nat : p = c.page + 1
        BY <3>1
      <3> QED
        BY <1>0, <2>3, <3>1, ReachedStays
    <2>7. ASSUME worker.pc = "delete"
          PROVE  \/ job'[j].status = "complete"
                 \/ \E n \in queue' \cup dead' : n # c /\ n.job = j
      BY <1>0, <1>1, <2>1, <2>2, <2>3, <2>7 DEF WorkerInv
    <2> QED
      BY <1>1, <1>3, <2>1, <2>2, <2>4, <2>5, <2>6, <2>7 DEF WorkerInv
  <1> QED
    BY <1>2, <1>3

LEMMA WorkerToIdle ==
  ASSUME worker' = Idle, seen' = Unseen
  PROVE  WorkerInv'
  BY DEF WorkerInv, Idle, Unseen

LEMMA WorkerReceives ==
  ASSUME RInv, [Next]_vars, NEW m \in queue, Receive(m)
  PROVE  WorkerInv'
  <1>0. TypeOK /\ TypeOK' /\ m \in Messages
    BY TypeStep DEF RInv, TypeOK
  <1>1. PICK c : c = [m EXCEPT !.receives = @ + 1]
    OBVIOUS
  <1>2. c \in Messages /\ c.page = m.page /\ c \in queue'
    BY <1>0, <1>1 DEF Messages, Receive
  <1>3. worker' = [pc |-> "sweep", msg |-> c, found |-> 0] /\ left' = PageRoles(c.page)
    BY <1>1, <1>2 DEF Receive, Idle
  <1>4. Carries(c)'
    BY <1>2, CarriesStep
  <1>5. Swept(c)' = {} /\ (Swept(c) \cap Expected(c.job))' = {}
    BY <1>3 DEF Swept, PageRoles
  <1>6. Cardinality(Swept(c) \cap Expected(c.job))' = 0
    BY <1>5, FS_EmptySet
  <1> QED
    BY <1>2, <1>3, <1>4, <1>5, <1>6 DEF WorkerInv

LEMMA WorkerWrites ==
  ASSUME RInv, [Next]_vars, NEW r \in Roles, WriteRole(r)
  PROVE  WorkerInv'
  <1>0. TypeOK /\ TypeOK' /\ WorkerInv
    BY TypeStep DEF RInv
  <1>1. PICK c \in Messages, j \in Jobs :
          c = worker.msg /\ j = c.job /\ starter[j] = "sent" /\ worker.pc = "sweep"
    BY <1>0, HeldMessage DEF WriteRole
  <1>2. worker'.pc = "sweep" /\ worker'.msg = c
        /\ worker'.found = IF seen[r] = Unmapped THEN worker.found ELSE worker.found + 1
    BY <1>0, <1>1 DEF WriteRole, TypeOK, Worker
  <1>3. Grows(j) /\ Carries(c)'
    BY <1>0, <1>1, GrowsStep, CarriesStep
  <1>4. swept'[j] = swept[j] \cup {r} /\ left' = left \ {r} /\ Expected(j)' = Expected(j)
    BY <1>0, <1>1 DEF WriteRole, TypeOK, Expected
  <1>5. /\ Swept(c)' \subseteq Swept(c) \cup {r} /\ Swept(c) \in SUBSET Roles
        /\ Swept(c)' \in SUBSET Roles
    BY <1>4 DEF Swept, PageRoles
  <1>6. Swept(c) \subseteq swept[j] /\ worker.found >= Cardinality(Swept(c) \cap Expected(j))
        /\ worker.found \in Nat
    BY <1>0, <1>1 DEF WorkerInv, TypeOK, Worker
  <1> DEFINE A == Swept(c) \cap Expected(j)
             B == Swept(c)' \cap Expected(j)
  <1>7. /\ IsFiniteSet(A) /\ Cardinality(A) \in Nat /\ Cardinality(B) \in Nat
        /\ worker.found >= Cardinality(A)
    BY <1>5, <1>6, FiniteParts
  <1>8. worker'.found >= Cardinality(B)
    <2>1. CASE seen[r] = Unmapped
      <3>1. r \notin Expected(j)
        <4>1. seen[r] # None /\ SeenInv
          BY <2>1 DEF RInv, WriteRole
        <4>2. seen[r] = tagOf[r] \/ r \in disturbed[j]
          BY <1>1, <4>1 DEF SeenInv
        <4> QED
          BY <2>1, <4>2 DEF Expected
      <3>2. B \in SUBSET A
        BY <1>5, <3>1
      <3>3. Cardinality(B) =< Cardinality(A)
        BY <1>7, <3>2, FS_Subset
      <3> HIDE DEF A, B
      <3> QED
        BY <1>2, <1>6, <1>7, <2>1, <3>3
    <2>2. CASE seen[r] # Unmapped
      <3>1. B \in SUBSET (A \cup {r})
        BY <1>5
      <3> HIDE DEF A, B
      <3>2. /\ IsFiniteSet(A \cup {r})
            /\ Cardinality(A \cup {r}) = IF r \in A THEN Cardinality(A) ELSE Cardinality(A) + 1
        BY <1>7, FS_AddElement
      <3>3. Cardinality(B) =< Cardinality(A \cup {r})
        BY <3>1, <3>2, FS_Subset
      <3> QED
        BY <1>2, <1>6, <1>7, <2>2, <3>2, <3>3
    <2> QED
      BY <2>1, <2>2
  <1>9. worker'.found >= Cardinality(Swept(c) \cap Expected(j))'
    BY <1>4, <1>8
  <1> QED
    BY <1>1, <1>2, <1>3, <1>4, <1>5, <1>6, <1>9 DEF WorkerInv

(* The page is swept and counted: the worker goes on to the next message,  *)
(* or the job is complete.                                                 *)
LEMMA PageCounted ==
  ASSUME RInv, [Next]_vars, RecordProgress \/ Complete
  PROVE  \A j, p : j = worker.msg.job /\ p = worker.msg.page => Reached(j, p + 1)'
  <1>0. TypeOK /\ TypeOK' /\ WorkerInv /\ worker.pc = "sweep" /\ left = {}
    BY TypeStep DEF RInv, RecordProgress, Complete
  <1>1. PICK c \in Messages, j \in Jobs, p \in 1..Pages :
          c = worker.msg /\ j = c.job /\ p = c.page /\ starter[j] = "sent"
    BY <1>0, HeldMessage
  <1>2. Grows(j) /\ Reached(j, p)
    BY <1>0, <1>1, GrowsStep DEF WorkerInv, Carries
  <1>3. Swept(c) = PageRoles(p)
    BY <1>0, <1>1 DEF Swept
  <1>4. /\ PageRoles(p) \subseteq swept[j]
        /\ worker.found >= Cardinality(PageRoles(p) \cap Expected(j)) /\ worker.found \in Nat
    BY <1>0, <1>1, <1>3 DEF WorkerInv, TypeOK, Worker
  <1>5. PICK s \in Statuses : AddCounts(j, s)
    BY <1>0, <1>1, HeldMessage DEF RecordProgress, Complete, Statuses
  <1>6. job'[j].pages = job[j].pages + 1 /\ job'[j].roles = job[j].roles + worker.found
        /\ job[j].roles \in Nat
    BY <1>0, <1>5, CountsGrow DEF TypeOK, JobRow
  <1>7. Cardinality(PageRoles(p) \cap Expected(j)) \in Nat
    BY FiniteParts DEF PageRoles
  <1>8. job'[j].roles >= job[j].roles + Cardinality(PageRoles(p) \cap Expected(j))
    BY <1>4, <1>6, <1>7
  <1>9. Reached(j, p + 1)'
    BY <1>0, <1>2, <1>4, <1>6, <1>8, PageReached
  <1> QED
    BY <1>1, <1>9

LEMMA WorkerStep ==
  ASSUME RInv, [Next]_vars
  PROVE  WorkerInv'
  <1>0. TypeOK /\ TypeOK' /\ WorkerInv
    BY TypeStep DEF RInv
  <1>1. CASE Others
    BY <1>1, WorkerOthers
  <1>2. ASSUME NEW m \in queue, Receive(m) PROVE WorkerInv'
    BY <1>2, WorkerReceives
  <1>3. CASE FailJob \/ Delete \/ Crash
    BY <1>3, WorkerToIdle DEF FailJob, Delete, Crash
  <1>4. ASSUME NEW r \in Roles, WriteRole(r) PROVE WorkerInv'
    BY <1>4, WorkerWrites
  <1>5. ASSUME NEW r \in Roles, ReadRole(r) PROVE WorkerInv'
    <2>1. PICK c \in Messages, j \in Jobs :
            c = worker.msg /\ j = c.job /\ worker.pc = "sweep"
      BY <1>0, <1>5, HeldMessage DEF ReadRole
    <2>2. /\ UNCHANGED <<worker, left, swept>> /\ Expected(j)' = Expected(j)
      BY <1>5 DEF ReadRole, mappingVars, sweepVars, Expected
    <2>3. Swept(c)' = Swept(c) /\ Carries(c)'
      BY <2>1, <2>2, CarriesStep DEF Swept, PageRoles
    <2> QED
      BY <1>0, <2>1, <2>2, <2>3 DEF WorkerInv
  <1>6. CASE SweepFails \/ ReportFails
    <2>1. PICK c \in Messages : c = worker.msg /\ worker.pc # "idle"
      BY <1>0, <1>6, HeldMessage DEF SweepFails, ReportFails
    <2>2. worker'.pc = "fail" /\ worker'.msg = c
      BY <1>0, <1>6, <2>1 DEF SweepFails, ReportFails, To, TypeOK, Worker
    <2>3. Carries(c)'
      BY <2>1, CarriesStep
    <2> QED
      BY <2>1, <2>2, <2>3 DEF WorkerInv
  <1>7. CASE RecordProgress
    <2>1. PICK c \in Messages : c = worker.msg /\ worker.pc = "sweep"
      BY <1>0, <1>7, HeldMessage DEF RecordProgress
    <2>2. worker'.pc = "send" /\ worker'.msg = c
      BY <1>0, <1>7, <2>1 DEF RecordProgress, To, TypeOK, Worker
    <2>3. Carries(c)' /\ c.page < Pages
      BY <1>7, <2>1, CarriesStep DEF RecordProgress, LastPage, Messages
    <2>4. Reached(c.job, c.page + 1)'
      BY <1>7, <2>1, PageCounted
    <2> QED
      BY <2>1, <2>2, <2>3, <2>4 DEF WorkerInv
  <1>8. CASE SendNext
    <2>1. PICK c \in Messages : c = worker.msg /\ c.job \in Jobs /\ c.page + 1 \in 1..Pages
                               /\ c.id =< sent /\ worker.pc = "send"
      BY <1>0, <1>8, HeldMessage DEF SendNext, WorkerInv, Carries
    <2>2. worker'.pc = "delete" /\ worker'.msg = c
      BY <1>0, <1>8, <2>1 DEF SendNext, To, TypeOK, Worker
    <2>3. Carries(c)'
      BY <2>1, CarriesStep
    <2>4. PICK n \in queue' : n.id = sent' /\ n.job = c.job /\ sent' > sent
      BY <1>0, <1>8, <2>1, SentMessage DEF SendNext
    <2>5. n # c
      BY <1>0, <2>1, <2>4 DEF Messages, TypeOK
    <2> QED
      BY <2>1, <2>2, <2>3, <2>4, <2>5 DEF WorkerInv
  <1>9. CASE Complete
    <2>1. PICK c \in Messages : c = worker.msg /\ c.job \in Jobs /\ worker.pc = "sweep"
      BY <1>0, <1>9, HeldMessage DEF Complete
    <2>2. worker'.pc = "delete" /\ worker'.msg = c
      BY <1>0, <1>9, <2>1 DEF Complete, To, TypeOK, Worker
    <2>3. Carries(c)'
      BY <2>1, CarriesStep
    <2>4. job'[c.job].status = "complete"
      BY <1>0, <1>9, <2>1, CountsGrow DEF Complete, Statuses
    <2> QED
      BY <2>1, <2>2, <2>3, <2>4 DEF WorkerInv
  <1> QED
    BY <1>1, <1>2, <1>3, <1>4, <1>5, <1>6, <1>7, <1>8, <1>9, StepKinds DEF Invocation

-----------------------------------------------------------------------------
(* What was read, what was left behind, what the rows say.                 *)

LEMMA SeenStep ==
  ASSUME RInv, [Next]_vars
  PROVE  SeenInv'
  <1>0. TypeOK /\ TypeOK' /\ WorkerInv /\ SeenInv /\ held \subseteq held'
    BY TypeStep, MappingStep DEF RInv
  <1>1. CASE seen' = Unseen
    BY <1>1 DEF SeenInv, Unseen
  <1>2. ASSUME UNCHANGED <<seen, tagOf, disturbed, swept>>, worker.pc # "idle",
               worker'.msg = worker.msg
        PROVE  SeenInv'
    BY <1>0, <1>2 DEF SeenInv
  <1>3. CASE Others
    <2>1. UNCHANGED <<seen, worker>>
      BY <1>3, OthersStep
    <2>2. ASSUME NEW r \in Roles, NEW j \in Jobs, seen[r] # None
          PROVE  \/ seen[r] = tagOf'[r]
                 \/ r \in disturbed'[j]
                 \/ r \notin swept'[j] /\ (worker.pc # "idle" => j # worker.msg.job)
      <3>1. \/ seen[r] = tagOf[r]
            \/ r \in disturbed[j]
            \/ r \notin swept[j] /\ (worker.pc # "idle" => j # worker.msg.job)
        BY <1>0, <2>2 DEF SeenInv
      <3>2. CASE Disturbs /\ UNCHANGED swept
        BY <3>1, <3>2, DisturbsShrinks
      <3>3. CASE UNCHANGED <<tagOf, disturbed, swept>>
        BY <3>1, <3>3
      <3>4. ASSUME NEW k \in Jobs, CreateJob(k)
            PROVE  \/ seen[r] = tagOf'[r]
                   \/ r \in disturbed'[j]
                   \/ r \notin swept'[j] /\ (worker.pc # "idle" => j # worker.msg.job)
        <4>1. CASE j = k
          BY <1>0, <3>4, <4>1, HeldMessage DEF CreateJob, TypeOK
        <4>2. CASE j # k
          BY <1>0, <3>1, <3>4, <4>2 DEF CreateJob, TypeOK, mappingVars
        <4> QED
          BY <4>1, <4>2
      <3>5. \/ Disturbs /\ UNCHANGED swept
            \/ UNCHANGED <<tagOf, disturbed, swept>>
            \/ \E k \in Jobs : CreateJob(k)
        BY <1>3 DEF Others, Environment, Strays, StrayRead, StrayWrite, Starter, SendFirst,
                    StartFails, Screen, StartAnswered, Poll, PollsExhausted, DeadLetter, vars,
                    mappingVars, sweepVars
      <3> QED
        BY <3>2, <3>3, <3>4, <3>5
    <2> QED
      BY <1>0, <2>1, <2>2 DEF SeenInv
  <1>4. ASSUME NEW m \in queue, Receive(m) PROVE SeenInv'
    BY <1>1, <1>4 DEF Receive
  <1>5. ASSUME NEW r \in Roles, ReadRole(r) PROVE SeenInv'
    <2>1. <<r, tagOf[r]>> \in held /\ UNCHANGED <<held, tagOf, disturbed, swept, worker>>
      BY <1>5 DEF ReadRole, mappingVars, sweepVars, RInv, MappingInv, TagsHeld
    <2>2. seen' = [seen EXCEPT ![r] = tagOf[r]]
      BY <1>5 DEF ReadRole
    <2> QED
      BY <1>0, <2>1, <2>2 DEF SeenInv, TypeOK
  <1>6. ASSUME NEW r \in Roles, WriteRole(r) PROVE SeenInv'
    <2>1. PICK k \in Jobs : k = worker.msg.job /\ worker.pc = "sweep"
      BY <1>0, <1>6, HeldMessage DEF WriteRole
    <2>2. UNCHANGED <<seen, tagOf, disturbed, held>> /\ swept' = [swept EXCEPT ![k] = @ \cup {r}]
      BY <1>6, <2>1 DEF WriteRole
    <2>3. worker'.msg = worker.msg /\ worker'.pc = "sweep"
      BY <1>0, <1>6, <2>1 DEF WriteRole, TypeOK, Worker
    <2>4. \A j \in Jobs : j # k => swept'[j] = swept[j]
      BY <1>0, <2>2 DEF TypeOK
    <2> QED
      BY <1>0, <2>1, <2>2, <2>3, <2>4 DEF SeenInv
  <1>7. CASE SweepFails \/ RecordProgress \/ SendNext \/ Complete \/ ReportFails
    <2>1. worker'.msg = worker.msg /\ worker.pc # "idle"
      BY <1>0, <1>7 DEF SweepFails, RecordProgress, SendNext, Complete, ReportFails, To, TypeOK,
                        Worker
    <2> QED
      BY <1>2, <1>7, <2>1 DEF SweepFails, RecordProgress, SendNext, Complete, ReportFails,
                              mappingVars, sweepVars
  <1>8. CASE FailJob \/ Delete \/ Crash
    BY <1>1, <1>8 DEF FailJob, Delete, Crash
  <1> QED
    BY <1>3, <1>4, <1>5, <1>6, <1>7, <1>8, StepKinds DEF Invocation

LEMMA StrayStep ==
  ASSUME RInv, [Next]_vars
  PROVE  StrayHeld'
  <1>0. StrayHeld /\ SeenInv /\ held \subseteq held' /\ TypeOK
    BY MappingStep DEF RInv
  <1>1. CASE stray' \subseteq stray
    BY <1>0, <1>1 DEF StrayHeld
  <1>2. CASE SweepFails
    <2>1. \A x \in Roles : seen[x] # None => <<x, seen[x]>> \in held'
      BY <1>0 DEF SeenInv
    <2>2. stray' = stray \/ \E r \in left : stray' = stray \cup {<<x, seen[x]>> : x \in left \ {r}}
      BY <1>2 DEF SweepFails
    <2> QED
      BY <1>0, <2>1, <2>2 DEF StrayHeld, TypeOK
  <1>3. ASSUME NEW r \in Roles, StrayRead(r) PROVE StrayHeld'
    <2>1. <<r, tagOf[r]>> \in held
      BY DEF RInv, MappingInv, TagsHeld
    <2> QED
      BY <1>0, <1>3, <2>1 DEF StrayHeld, StrayRead
  <1>4. \/ stray' \subseteq stray \/ SweepFails \/ \E r \in Roles : StrayRead(r)
    BY DEF Next, Environment, Starter, CreateJob, SendFirst, StartFails, Screen, StartAnswered,
           Poll, PollsExhausted, Queue, Receive, DeadLetter, Invocation, ReadRole, WriteRole,
           RecordProgress, SendNext, Complete, ReportFails, FailJob, Delete, Strays, StrayWrite,
           Crash, vars, workerVars
  <1> QED
    BY <1>1, <1>2, <1>3, <1>4

LEMMA SweepStep ==
  ASSUME RInv, [Next]_vars
  PROVE  SweepCorrects'
  <1>0. TypeOK /\ TypeOK' /\ WorkerInv /\ SeenInv /\ SweepCorrects
    BY TypeStep DEF RInv
  <1>1. ASSUME UNCHANGED <<tagOf, row, swept, disturbed>> PROVE SweepCorrects'
    BY <1>0, <1>1 DEF SweepCorrects, Agrees
  <1>2. CASE Disturbs /\ UNCHANGED swept
    <2>1. ASSUME NEW j \in Jobs, NEW r \in swept[j], r \notin disturbed'[j] PROVE Agrees(r)'
      <3>1. r \in Roles /\ r \notin disturbed[j] /\ tagOf'[r] = tagOf[r]
            /\ (row'[r] = row[r] \/ Agrees(r)')
        BY <1>0, <1>2, <2>1, DisturbsShrinks DEF TypeOK
      <3>2. Agrees(r)
        BY <1>0, <3>1 DEF SweepCorrects
      <3> QED
        BY <3>1, <3>2 DEF Agrees
    <2> QED
      BY <1>2, <2>1 DEF SweepCorrects
  <1>3. ASSUME NEW k \in Jobs, CreateJob(k) PROVE SweepCorrects'
    <2>1. \A j \in Jobs : swept'[j] \ disturbed'[j] \subseteq swept[j] \ disturbed[j]
      BY <1>0, <1>3 DEF CreateJob, TypeOK
    <2> QED
      BY <1>0, <1>3, <2>1 DEF CreateJob, mappingVars, SweepCorrects, Agrees
  <1>4. ASSUME NEW r \in Roles, WriteRole(r) PROVE SweepCorrects'
    <2>1. PICK k \in Jobs : k = worker.msg.job /\ worker.pc = "sweep"
      BY <1>0, <1>4, HeldMessage DEF WriteRole
    <2>2. /\ UNCHANGED <<tagOf, disturbed>> /\ swept' = [swept EXCEPT ![k] = @ \cup {r}]
          /\ seen[r] \in Owners /\ WriteBack(r, seen[r])
      BY <1>0, <1>4, <2>1 DEF WriteRole, TypeOK
    <2>3. row' = [row EXCEPT ![r] = IF seen[r] = Unmapped THEN Absent
                                    ELSE [team |-> seen[r], life |-> "durable"]]
      BY <2>2 DEF WriteBack, CacheRoleTeam
    <2>4. row \in [Roles -> Row]
      BY <1>0 DEF TypeOK, MappingTypeOK
    <2>5. ASSUME NEW j \in Jobs, r \in swept'[j], r \notin disturbed[j] PROVE Agrees(r)'
      <3>1. seen[r] = tagOf[r]
        BY <1>0, <2>1, <2>2, <2>5 DEF SeenInv, TypeOK
      <3>2. row'[r] = IF seen[r] = Unmapped THEN Absent ELSE [team |-> seen[r], life |-> "durable"]
        BY <2>3, <2>4
      <3> QED
        BY <2>2, <3>1, <3>2 DEF Agrees, Absent
    <2>6. ASSUME NEW j \in Jobs, NEW x \in swept'[j], x # r, x \notin disturbed[j] PROVE Agrees(x)'
      <3>1. x \in swept[j] /\ row'[x] = row[x]
        BY <1>0, <2>2, <2>3, <2>4, <2>6 DEF TypeOK
      <3> QED
        BY <1>0, <2>2, <2>6, <3>1 DEF SweepCorrects, Agrees
    <2> QED
      BY <2>2, <2>5, <2>6 DEF SweepCorrects
  <1>5. \/ UNCHANGED <<tagOf, row, swept, disturbed>>
        \/ Disturbs /\ UNCHANGED swept
        \/ \E k \in Jobs : CreateJob(k)
        \/ \E r \in Roles : WriteRole(r)
    BY DEF Next, Environment, Starter, SendFirst, StartFails, Screen, StartAnswered,
           Poll, PollsExhausted, Queue, Receive, DeadLetter, Invocation, ReadRole, SweepFails,
           RecordProgress, SendNext, Complete, ReportFails, FailJob, Delete, Strays, StrayRead,
           StrayWrite, Crash, vars, mappingVars, sweepVars
  <1> QED
    BY <1>1, <1>2, <1>3, <1>4, <1>5

-----------------------------------------------------------------------------
(* What the row and the page say.                                          *)

LEMMA JobSteps ==
  ASSUME TypeOK, WorkerInv, [Next]_vars
  PROVE  \/ UNCHANGED job
         \/ \E k \in Jobs : CreateJob(k)
         \/ RecordProgress \/ Complete
         \/ FailJob /\ job' = [job EXCEPT ![worker.msg.job].status = "failed"]
  BY DEF Next, Environment, Starter, SendFirst, StartFails, Screen, StartAnswered,
         Poll, PollsExhausted, Queue, Receive, DeadLetter, Invocation, ReadRole, WriteRole,
         SweepFails, SendNext, ReportFails, FailJob, Delete, Strays, StrayRead,
         StrayWrite, Crash, vars, jobVars

(* Where the status of a job can come from.                                *)
LEMMA StatusStep ==
  ASSUME TypeOK, WorkerInv, [Next]_vars, NEW j \in Jobs
  PROVE  \/ job'[j].status = job[j].status
         \/ CreateJob(j) /\ job'[j].status = "running"
         \/ Complete /\ j = worker.msg.job /\ job'[j].status = "complete"
         \/ FailJob /\ j = worker.msg.job /\ job'[j].status = "failed"
  <1>1. ASSUME NEW k \in Jobs, CreateJob(k)
        PROVE  \/ job'[j].status = job[j].status
               \/ CreateJob(j) /\ job'[j].status = "running"
    <2>1. job' = [job EXCEPT ![k].status = "running"] /\ job \in [Jobs -> JobRow]
      BY <1>1 DEF CreateJob, TypeOK
    <2>2. CASE j = k
      <3>1. job'[j].status = "running"
        BY <2>1, <2>2 DEF JobRow
      <3>2. CreateJob(j)
        BY <1>1, <2>2, Zenon
      <3> QED
        BY <3>1, <3>2
    <2>3. CASE j # k
      BY <2>1, <2>3
    <2> QED
      BY <2>2, <2>3
  <1>2. CASE RecordProgress \/ Complete
    <2>1. PICK s \in Statuses, k \in Jobs : AddCounts(k, s) /\ k = worker.msg.job
             /\ (RecordProgress => s = job[k].status) /\ (Complete => s = "complete")
      BY <1>2, HeldMessage DEF RecordProgress, Complete, LastPage, Statuses
    <2> QED
      BY <1>2, <2>1, CountsGrow
  <1>3. CASE FailJob /\ job' = [job EXCEPT ![worker.msg.job].status = "failed"]
    BY <1>3 DEF TypeOK, JobRow
  <1> QED
    BY <1>1, <1>2, <1>3, JobSteps

(* The pages of a job that completes are all counted, and stay so.         *)
LEMMA CompleteStep ==
  ASSUME RInv, [Next]_vars
  PROVE  CompleteReached'
  <1>0. TypeOK /\ TypeOK' /\ WorkerInv /\ CompleteReached /\ Pages + 1 \in Nat
    BY TypeStep DEF RInv
  <1>1. SUFFICES ASSUME NEW j \in Jobs, job'[j].status = "complete"
                 PROVE  starter'[j] = "sent" /\ Reached(j, Pages + 1)'
    BY DEF CompleteReached
  <1>2. CASE job[j].status = "complete"
    <2>1. starter[j] = "sent" /\ Reached(j, Pages + 1)
      BY <1>0, <1>2 DEF CompleteReached
    <2>2. Grows(j)
      BY <1>0, <2>1, GrowsStep
    <2> PICK p \in Nat : p = Pages + 1
      BY <1>0
    <2>3. Reached(j, p)'
      BY <1>0, <2>1, <2>2, ReachedStays
    <2> QED
      BY <2>2, <2>3 DEF Grows
  <1>3. CASE Complete /\ j = worker.msg.job
    <2>1. worker.pc # "idle" /\ worker.msg.page = Pages
      BY <1>3 DEF Complete, LastPage
    <2>2. Grows(j)
      BY <1>0, <1>3, <2>1, HeldMessage, GrowsStep
    <2>3. Reached(j, Pages + 1)'
      BY <1>3, <2>1, PageCounted
    <2> QED
      BY <2>2, <2>3 DEF Grows
  <1> QED
    BY <1>0, <1>1, <1>2, <1>3, StatusStep

(* A message is either there still, or was deleted for one that stands for *)
(* it.                                                                     *)
LEMMA StallStep ==
  ASSUME RInv, [Next]_vars
  PROVE  NoSilentStall'
  <1>0. TypeOK /\ TypeOK' /\ WorkerInv /\ NoSilentStall
    BY TypeStep DEF RInv
  <1>1. SUFFICES ASSUME NEW j \in Jobs, starter'[j] = "sent", job'[j].status = "running"
                 PROVE  \E n \in queue' \cup dead' : n.job = j
    BY DEF NoSilentStall, Owed
  <1>2. CASE starter[j] # "sent"
    <2>1. SendFirst(j)
      <3>1. UNCHANGED starter \/ \E k \in Jobs : Starter(k)
        BY DEF Next, Environment, Screen, StartAnswered, Poll, PollsExhausted, Queue, Receive,
               DeadLetter, Invocation, ReadRole, WriteRole, SweepFails, RecordProgress,
               SendNext, Complete, ReportFails, FailJob, Delete, Strays, StrayRead, StrayWrite,
               Crash, vars, jobVars
      <3>2. PICK k \in Jobs : Starter(k)
        BY <1>1, <1>2, <3>1
      <3>3. k = j /\ ~CreateJob(k) /\ ~StartFails(k)
        BY <1>0, <1>1, <1>2, <3>2 DEF Starter, CreateJob, SendFirst, StartFails, TypeOK
      <3> QED
        BY <3>2, <3>3 DEF Starter
    <2> QED
      BY <1>0, <2>1, SentMessage DEF SendFirst
  <1>3. CASE starter[j] = "sent"
    <2>1. job[j].status = "running"
      <3>1. ~CreateJob(j)
        BY <1>3 DEF CreateJob
      <3> QED
        BY <1>0, <1>1, <3>1, StatusStep
    <2>2. PICK n \in queue \cup dead : n.job = j
      BY <1>0, <1>3, <2>1 DEF NoSilentStall, Owed
    <2>3. CASE n \in queue' \cup dead'
      BY <2>2, <2>3
    <2>4. ASSUME NEW m \in queue, Receive(m), m = n PROVE \E x \in queue' \cup dead' : x.job = j
      <3>1. PICK c : c = [m EXCEPT !.receives = @ + 1]
        OBVIOUS
      <3>2. c.job = j
        BY <1>0, <2>2, <2>4, <3>1 DEF TypeOK, Messages
      <3>3. c \in queue'
        BY <2>4, <3>1 DEF Receive
      <3> QED
        BY <3>2, <3>3
    <2>5. CASE Delete /\ n = worker.msg
      <3>1. \/ job[j].status = "complete"
            \/ \E x \in queue \cup dead : x # n /\ x.job = j
        BY <1>0, <2>2, <2>5 DEF Delete, WorkerInv
      <3>2. PICK x \in queue \cup dead : x # n /\ x.job = j
        BY <2>1, <3>1
      <3> QED
        BY <2>5, <3>2 DEF Delete
    <2>6. CASE UNCHANGED <<queue, dead>> \/ SendNext \/ \E k \in Jobs : SendFirst(k)
      <3>1. queue \subseteq queue' /\ dead \subseteq dead'
        BY <2>6 DEF SendNext, SendFirst, Send
      <3> QED
        BY <2>2, <3>1
    <2>7. ASSUME NEW m \in queue, DeadLetter(m) PROVE n \in queue' \cup dead'
      BY <2>2, <2>7 DEF DeadLetter
    <2>8. ASSUME NEW m \in queue, Receive(m), m # n PROVE n \in queue' \cup dead'
      BY <2>2, <2>8 DEF Receive
    <2>9. CASE Delete /\ n # worker.msg
      BY <2>2, <2>9 DEF Delete
    <2> QED
      BY <2>2, <2>3, <2>4, <2>5, <2>6, <2>7, <2>8, <2>9, QueueSteps
  <1> QED
    BY <1>2, <1>3

(* The page follows the row.                                               *)
LEMMA ScreenStep ==
  ASSUME RInv, [Next]_vars, NEW j \in Jobs, screen'[j].at = "ok"
  PROVE  starter'[j] = "sent" /\ swept'[j] = Roles
  <1>0. TypeOK /\ TypeOK' /\ WorkerInv /\ CompleteReached
    BY TypeStep DEF RInv
  <1>1. starter[j] = "sent" /\ swept[j] = Roles
    <2>1. CASE screen[j].at = "ok"
      BY <2>1 DEF RInv, ScreenTrue
    <2>2. CASE screen[j].at # "ok"
      <3>1. job[j].status = "complete"
        <4>1. \/ screen'[j].at = screen[j].at
              \/ \E k \in Jobs : CreateJob(k) \/ Screen(k)
          BY DEF Next, Environment, Starter, SendFirst, StartFails, Queue, Receive, DeadLetter,
                 Invocation, ReadRole, WriteRole, SweepFails, RecordProgress, SendNext, Complete,
                 ReportFails, FailJob, Delete, Strays, StrayRead, StrayWrite, Crash, vars,
                 jobVars
        <4>2. ASSUME NEW k \in Jobs, CreateJob(k) PROVE screen'[j].at # "ok"
          BY <1>0, <2>2, <4>2 DEF CreateJob, TypeOK
        <4>3. ASSUME NEW k \in Jobs, Screen(k) PROVE job[j].status = "complete"
          <5>1. CASE StartAnswered(k) \/ PollsExhausted(k)
            BY <1>0, <2>2, <5>1 DEF StartAnswered, PollsExhausted, TypeOK
          <5>2. CASE Poll(k)
            BY <1>0, <2>2, <5>2 DEF Poll, TypeOK
          <5> QED
            BY <4>3, <5>1, <5>2 DEF Screen
        <4> QED
          BY <2>2, <4>1, <4>2, <4>3
      <3>2. starter[j] = "sent" /\ Before(Pages + 1) \subseteq swept[j]
        BY <1>0, <3>1 DEF CompleteReached, Reached
      <3>3. Before(Pages + 1) = Roles
        BY AllBefore
      <3> QED
        BY <1>0, <3>2, <3>3 DEF TypeOK
    <2> QED
      BY <2>1, <2>2
  <1>2. Grows(j)
    BY <1>0, <1>1, GrowsStep
  <1> QED
    BY <1>0, <1>1, <1>2 DEF Grows, TypeOK

LEMMA InitRInv ==
  ASSUME Init
  PROVE  RInv
  <1>1. MappingInv
    BY InitMapping DEF Init
  <1>2. TypeOK
    BY <1>1 DEF Init, TypeOK, MappingInv, JobRow, NoJob, Statuses, Worker, Idle, Unseen
  <1>3. WorkerInv /\ SeenInv
    BY DEF Init, WorkerInv, SeenInv, Idle, Unseen
  <1>4. StrayHeld /\ CompleteReached /\ NoSilentStall /\ SweepCorrects /\ ScreenTrue
    BY DEF Init, StrayHeld, CompleteReached, NoSilentStall, SweepCorrects, ScreenTrue, NoJob
  <1> QED
    BY <1>1, <1>2, <1>3, <1>4 DEF RInv, Init

LEMMA RInvStep ==
  ASSUME RInv, [Next]_vars
  PROVE  RInv'
  <1>1. \A m \in (queue \cup dead)' : Carries(m)'
    BY CarriesStep
  <1>2. ScreenTrue' /\ \A j \in Jobs : (screen[j].at = "ok" => starter[j] = "sent")'
    BY ScreenStep DEF ScreenTrue
  <1> QED
    BY <1>1, <1>2, TypeStep, MappingStep, WorkerStep, SeenStep, StrayStep, CompleteStep,
       StallStep, SweepStep DEF RInv

LEMMA RInvAlways == Spec => []RInv
  BY InitRInv, RInvStep, PTL DEF Spec

-----------------------------------------------------------------------------
(* Every variable keeps its type.                                          *)
THEOREM ReconcileTypes == Spec => []TypeOK
  <1>1. RInv => TypeOK
    BY DEF RInv
  <1> QED
    BY <1>1, RInvAlways, PTL

(* No order of record, send, delete, failure, crash and redelivery loses   *)
(* the chain of a job that still says "running".                           *)
THEOREM ChainNeverLost == Spec => []NoSilentStall
  <1>1. RInv => NoSilentStall
    BY DEF RInv
  <1> QED
    BY <1>1, RInvAlways, PTL

(* A job that says "complete" has written back every role, and counted     *)
(* each page and each role it had to find.                                 *)
THEOREM CompleteMeansSwept == Spec => []ReportCovers
  <1>1. RInv => ReportCovers
    <2>1. Before(Pages + 1) = Roles
      BY AllBefore
    <2>2. ASSUME RInv, NEW j \in Jobs, job[j].status = "complete"
          PROVE  /\ swept[j] = Roles /\ job[j].pages >= Pages
                 /\ job[j].roles >= Cardinality(Expected(j))
      <3>1. Reached(j, Pages + 1) /\ TypeOK
        BY <2>2 DEF RInv, CompleteReached
      <3>2. Roles \cap Expected(j) = Expected(j)
        BY DEF Expected
      <3>3. job[j].pages >= (Pages + 1) - 1
        BY <3>1 DEF Reached
      <3>4. job[j].pages \in Nat
        BY <3>1 DEF TypeOK, JobRow
      <3> QED
        BY <2>1, <3>1, <3>2, <3>3, <3>4 DEF Reached, TypeOK
    <2> QED
      BY <2>2 DEF ReportCovers
  <1> QED
    BY <1>1, RInvAlways, PTL

(* What the sweep has written agrees with the tags, except where another   *)
(* actor came after it.                                                    *)
THEOREM SweptRowsAgree == Spec => []SweepCorrects
  <1>1. RInv => SweepCorrects
    BY DEF RInv
  <1> QED
    BY <1>1, RInvAlways, PTL

(* "Reconciled" is shown only of a job whose pages were all swept.         *)
THEOREM ScreenTellsTheTruth == Spec => []ScreenTrue
  <1>1. RInv => ScreenTrue
    BY DEF RInv
  <1> QED
    BY <1>1, RInvAlways, PTL
=============================================================================
