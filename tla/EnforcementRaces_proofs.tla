------------------------ MODULE EnforcementRaces_proofs ------------------------
(***************************************************************************)
(* Whatever overlaps, fails and is retried: what rows and policies say of  *)
(* each other.  The invariants name, for each row and each policy that do  *)
(* not agree, the handler that is about to make up for it or the event in  *)
(* the history that broke them apart.                                      *)
(***************************************************************************)
EXTENDS EnforcementRaces, QuotaEnforcement_proofs

LEMMA MeteringIsEnvironment == MeteringAndEdits => Environment /\ UNCHANGED teamOf
  <1> SUFFICES ASSUME MeteringAndEdits PROVE Environment /\ UNCHANGED teamOf
    OBVIOUS
  <1>1. Environment
    BY DEF MeteringAndEdits, Environment
  <1>2. ASSUME NEW p \in Pairs, NEW k \in 1 .. MaxTokens,
               AddUsage(p, k) \/ SetUsage(p, k) \/ PutQuota(p, k)
        PROVE  teamOf' = teamOf
    <2>1. CASE AddUsage(p, k)
      BY <2>1 DEF AddUsage, WriteUsage
    <2>2. CASE SetUsage(p, k)
      BY <2>2 DEF SetUsage, WriteUsage
    <2>3. CASE PutQuota(p, k)
      BY <2>3 DEF PutQuota
    <2> QED
      BY <1>2, <2>1, <2>2, <2>3
  <1>3. NextDay => teamOf' = teamOf
    BY DEF NextDay
  <1>4. teamOf' = teamOf
    BY <1>2, <1>3 DEF MeteringAndEdits
  <1> QED
    BY <1>1, <1>4

(* The steps with their history are steps of QuotaEnforcement.             *)
LEMMA RaceSteps == RaceNext => Next
  <1> SUFFICES ASSUME RaceNext PROVE Next
    OBVIOUS
  <1>1. CASE OtherStep
    BY <1>1, MeteringIsEnvironment DEF OtherStep, Next, EnforcerStep, RemoverStep, Request
  <1>2. CASE \E r \in Roles, t \in Teams \cup {NoTeam} : RaceRemap(r, t)
    BY <1>2 DEF RaceRemap, Next, Environment
  <1>3. ASSUME NEW s \in Shards, RaceEnforcer(s) PROVE Next
    <2>1. ASSUME NEW r \in Roles, RaceAttachDeny(s, r) \/ RaceDetachDeny(s, r)
          PROVE  EnforcerStep(s)
      BY <2>1 DEF RaceAttachDeny, RaceDetachDeny, EnforcerStep
    <2>2. RaceListRoles(s) \/ RacePutBlockedState(s) \/ RaceFinishLift(s) => EnforcerStep(s)
      BY DEF RaceListRoles, RacePutBlockedState, RaceFinishLift, EnforcerStep
    <2>3. RaceCrashEnforcer(s) => CrashEnforcer(s)
      BY DEF RaceCrashEnforcer
    <2>4. EnforcerStep(s) \/ CrashEnforcer(s)
      BY <1>3, <2>1, <2>2, <2>3 DEF RaceEnforcer
    <2> QED
      BY <2>4 DEF Next, Crash
  <1>4. ASSUME NEW x \in Removers, RaceRemover(x) PROVE Next
    <2>1. RemoverStep(x) \/ CrashRemover(x)
      BY <1>4 DEF RaceRemover, RaceRemoveDeny, RaceSettlePair, RaceCrashRemover, RemoverStep
    <2> QED
      BY <2>1 DEF Next, Crash
  <1>5. ASSUME NEW w \in Taggers, RaceTagger(w) PROVE Next
    <2>1. ASSUME NEW r \in Roles, NEW t \in Teams, RaceTagRole(w, r, t) \/ RaceRedeliver(w, r, t)
          PROVE  TaggerStep(w) \/ Request
      BY <2>1 DEF RaceTagRole, RaceRedeliver, TaggerStep, Request
    <2>2. ASSUME NEW t \in Teams, RaceQueryBlocked(w, t)
          PROVE  TaggerStep(w)
      BY <2>2 DEF RaceQueryBlocked, TaggerStep
    <2>3. ASSUME NEW r \in Roles, NEW me \in Policies, RaceAttachInherited(w, r, me)
          PROVE  TaggerStep(w)
      BY <2>3 DEF RaceAttachInherited, TaggerStep
    <2>4. RaceCrashTagger(w) => Crash
      BY DEF RaceCrashTagger, Crash
    <2>5. TaggerStep(w) \/ Request \/ Crash
      BY <1>5, <2>1, <2>2, <2>3, <2>4 DEF RaceTagger
    <2> QED
      BY <2>5 DEF Next
  <1> QED
    BY <1>1, <1>2, <1>3, <1>4, <1>5 DEF RaceNext

(* The history adds no behaviour: what holds of QuotaEnforcement holds     *)
(* here (quotaEnforcer.ts, dailyReset.ts, tagRoleHandler.ts).              *)
THEOREM RacesAreEnforcement == RaceSpec => Spec
  <1>1. RaceInit => Init
    BY DEF RaceInit
  <1>2. [RaceNext]_raceVars => [Next]_vars
    BY RaceSteps DEF raceVars
  <1> QED
    BY <1>1, <1>2, PTL DEF RaceSpec, Spec

-----------------------------------------------------------------------------
(* What the handlers hold.                                                 *)

(* A record is in the stream of its pair's shard, so that one enforcer     *)
(* works at a pair at a time.                                              *)
RecordsInShard ==
  \A s \in Shards : \A i \in 1 .. Len(stream[s]) : ShardOf[stream[s][i].pair] = s

(* A remover works at one pair at a time.                                  *)
OneJob ==
  \A x \in Removers : rem[x].pc = "remove" => \E j \in rem[x].cur : rem[x].cur = {j}

(* A tagger works for one role and one team, and holds an answer only      *)
(* between its query and its end.                                          *)
OneTag ==
  \A w \in Taggers :
    /\ tag[w].pc # "idle" =>
         \E r \in Roles, t \in Teams : tag[w].role = {r} /\ tag[w].team = {t}
    /\ tag[w].pc # "attach" => tag[w].todo = {}

(* Only a pair that is not blocked is about to be.                         *)
RowAway == \A s \in Shards : enf[s].pc = "list" => RowOf(s).status # "BLOCKED"

Held == Shape /\ RecordsInShard /\ OneJob /\ OneTag /\ RowAway

LEMMA RecHeld ==
  ASSUME Held, NEW s \in Shards, enf[s].pc \notin {"idle", "fetch"}
  PROVE  /\ Rec(s) \in Record /\ Rec(s).pair \in Pairs /\ ShardOf[Rec(s).pair] = s
         /\ Rec(s).pair[1] \in Teams /\ Rec(s).pair[2] \in Models
         /\ enf[s].i \in 1 .. Len(stream[s])
  <1>1. Rec(s) \in Record /\ enf[s].i \in 1 .. Len(stream[s])
    BY RecTyped DEF Held, Shape, InvocationInBatch
  <1> QED
    BY <1>1 DEF Held, RecordsInShard, Rec, Record, Pairs

-----------------------------------------------------------------------------
(* Each step of an enforcer, by what the invariants read of it: where the  *)
(* invocation stands, its record and its list of roles.                    *)

AtWork(z) == enf[z].pc \notin {"idle", "fetch"}

(* The other enforcers stay where they are.                                *)
OthersWait(s) ==
  \A z \in Shards \ {s} : enf'[z] = enf[z] /\ (AtWork(z) => Rec(z)' = Rec(z))

LoopPcs == {"attach", "detach"}

Roams(s) ==
  /\ OthersWait(s)
  /\ enf[s].pc \notin LoopPcs /\ enf'[s].pc \notin LoopPcs
  /\ enf'[s].pc = "list" => /\ AtWork(s) /\ Rec(s)' = Rec(s)
                            /\ RowOf(s).status = "NONE"

(* It goes on with the same record, with a list of roles.                  *)
Loops(s, l, todo, failed) ==
  /\ OthersWait(s)
  /\ AtWork(s) /\ Rec(s)' = Rec(s)
  /\ enf'[s].pc = l /\ enf'[s].todo = todo /\ enf'[s].failed = failed

LEMMA Moves ==
  ASSUME Shape, NEW s \in Shards, NEW e, enf' = [enf EXCEPT ![s] = e], stream' = stream
  PROVE  /\ OthersWait(s) /\ enf'[s] = e
         /\ e.i = enf[s].i => Rec(s)' = Rec(s)
  BY DEF Shape, TypeOK, OthersWait, Rec

LEMMA MovesOn ==
  ASSUME Shape, NEW s \in Shards, enf' = [enf EXCEPT ![s] = NextRecord(s)], stream' = stream
  PROVE  OthersWait(s) /\ enf'[s].pc = "fetch"
  <1>1. NextRecord(s).pc = "fetch"
    BY DEF NextRecord, Shape, TypeOK, EnfState
  <1> QED
    BY <1>1, Moves

LEMMA Checkpoints ==
  ASSUME Shape, NEW s \in Shards, Checkpoint(s), NEW e, enf' = [enf EXCEPT ![s] = e]
  PROVE  OthersWait(s) /\ enf'[s] = e
  BY DEF Shape, TypeOK, OthersWait, Rec, Checkpoint

LEMMA EnforcerRoams ==
  ASSUME Held, NEW s \in Shards,
         StartBatch(s) \/ SkipRecord(s) \/ ReadQuota(s) \/ CheckBlocked(s)
           \/ LiftGuard(s) \/ FinishBatch(s)
  PROVE  Roams(s) /\ UNCHANGED <<deny, blocked, teamOf, rem, tag>>
  <1> USE DEF LoopPcs, AtWork
  <1>0. Shape /\ enf[s] \in EnfState
    BY DEF Held, Shape, TypeOK
  <1>1. UNCHANGED <<deny, blocked, teamOf, rem, tag>>
    BY DEF StartBatch, SkipRecord, ReadQuota, CheckBlocked, LiftGuard, FinishBatch,
           enforcerUnchanged, checkpointUnchanged, history
  <1>2. CASE StartBatch(s)
    <2>1. PICK n \in 1 .. Earlier(BatchSize, Len(stream[s])) :
            enf' = [enf EXCEPT ![s] = [enf[s] EXCEPT !.pc = "fetch", !.now = day, !.n = n, !.i = 1]]
      BY <1>2 DEF StartBatch
    <2> DEFINE e == [enf[s] EXCEPT !.pc = "fetch", !.now = day, !.n = n, !.i = 1]
    <2>2. e.pc = "fetch" /\ enf' = [enf EXCEPT ![s] = e]
      BY <1>0, <2>1 DEF EnfState
    <2> HIDE DEF e
    <2>3. stream' = stream /\ enf[s].pc = "idle"
      BY <1>2 DEF StartBatch, enforcerUnchanged, tables
    <2> QED
      BY <1>0, <1>1, <2>2, <2>3, Moves DEF Roams
  <1>3. CASE SkipRecord(s)
    BY <1>0, <1>1, <1>3, MovesOn DEF SkipRecord, enforcerUnchanged, tables, Roams
  <1>4. CASE ReadQuota(s)
    <2>1. PICK l \in {"liftGuard", "guard"} : enf' = [enf EXCEPT ![s].pc = l]
      <3> PICK l : l = IF quota[Rec(s).pair] = 0 \/ Rec(s).total < quota[Rec(s).pair]
                       THEN "liftGuard" ELSE "guard"
        OBVIOUS
      <3> QED
        BY <1>4 DEF ReadQuota
    <2> DEFINE e == [enf[s] EXCEPT !.pc = l]
    <2>2. e.pc = l /\ enf' = [enf EXCEPT ![s] = e]
      BY <1>0, <2>1 DEF EnfState
    <2> HIDE DEF e
    <2>3. stream' = stream /\ enf[s].pc = "fetch"
      BY <1>4 DEF ReadQuota, enforcerUnchanged, tables
    <2> QED
      BY <1>0, <1>1, <2>2, <2>3, Moves DEF Roams
  <1>5. CASE CheckBlocked(s) \/ LiftGuard(s)
    <2> DEFINE e == [enf[s] EXCEPT !.pc = "list"]
               f == [enf[s] EXCEPT !.pc = "liftList"]
    <2>1. e.pc = "list" /\ e.i = enf[s].i /\ f.pc = "liftList"
      BY <1>0 DEF EnfState
    <2>2. /\ stream' = stream /\ enf[s].pc \in {"guard", "liftGuard"}
          /\ \/ enf' = [enf EXCEPT ![s] = NextRecord(s)]
             \/ enf' = [enf EXCEPT ![s] = e] /\ RowOf(s).status = "NONE"
             \/ enf' = [enf EXCEPT ![s] = f]
      BY <1>5 DEF CheckBlocked, LiftGuard, enforcerUnchanged, tables
    <2> HIDE DEF e, f
    <2>3. CASE enf' = [enf EXCEPT ![s] = NextRecord(s)]
      BY <1>0, <1>1, <2>2, <2>3, MovesOn DEF Roams
    <2>4. CASE enf' = [enf EXCEPT ![s] = e] /\ RowOf(s).status = "NONE"
      BY <1>0, <1>1, <2>1, <2>2, <2>4, Moves DEF Roams
    <2>5. CASE enf' = [enf EXCEPT ![s] = f]
      BY <1>0, <1>1, <2>1, <2>2, <2>5, Moves DEF Roams
    <2> QED
      BY <2>2, <2>3, <2>4, <2>5
  <1>6. CASE FinishBatch(s)
    <2>1. EnfIdle.pc = "idle"
      BY DEF EnfIdle
    <2> QED
      BY <1>0, <1>1, <1>6, <2>1, Checkpoints DEF FinishBatch, Roams
  <1> QED
    BY <1>2, <1>3, <1>4, <1>5, <1>6

LEMMA EnforcerLists ==
  ASSUME Held, NEW s \in Shards, ListRoles(s)
  PROVE  /\ UNCHANGED <<deny, blocked, teamOf, rem, tag>>
         /\ \/ enf[s].pc = "list" /\ Loops(s, "attach", RolesOf(Rec(s).pair[1]), FALSE)
            \/ enf[s].pc = "liftList" /\ Loops(s, "detach", RolesOf(Rec(s).pair[1]), FALSE)
  <1>0. Shape /\ enf[s] \in EnfState
    BY DEF Held, Shape, TypeOK
  <1>1. PICK l \in {"attach", "detach"} :
          /\ enf' = [enf EXCEPT ![s] = [enf[s] EXCEPT
                       !.pc = l, !.todo = RolesOf(Rec(s).pair[1]), !.failed = FALSE]]
          /\ l = IF enf[s].pc = "list" THEN "attach" ELSE "detach"
    BY <1>0 DEF ListRoles
  <1> DEFINE e == [enf[s] EXCEPT !.pc = l, !.todo = RolesOf(Rec(s).pair[1]), !.failed = FALSE]
  <1>2. /\ e.pc = l /\ e.todo = RolesOf(Rec(s).pair[1]) /\ e.failed = FALSE /\ e.i = enf[s].i
        /\ enf' = [enf EXCEPT ![s] = e]
    BY <1>0, <1>1 DEF EnfState
  <1> HIDE DEF e
  <1>3. /\ UNCHANGED <<deny, blocked, teamOf, rem, tag, stream>>
        /\ enf[s].pc \in {"list", "liftList"}
    BY DEF ListRoles, enforcerUnchanged, tables
  <1> QED
    BY <1>0, <1>1, <1>2, <1>3, Moves DEF Loops, AtWork

(* One role of a loop is done, or has failed.                              *)
LEMMA EnforcerRoleTurn ==
  ASSUME Held, NEW s \in Shards, NEW r \in Roles, NEW policies,
         EnforcerRole(s, r, policies), stream' = stream, enf[s].pc \in LoopPcs
  PROVE  \/ /\ left' = left /\ deny' = policies
            /\ Loops(s, enf[s].pc, enf[s].todo \ {r}, enf[s].failed)
         \/ /\ left' # left /\ deny' \in {deny, policies}
            /\ Loops(s, enf[s].pc, enf[s].todo \ {r}, TRUE)
  <1>0. Shape /\ enf[s] \in EnfState /\ left \in [Budgets -> Nat]
    BY DEF Held, Shape, TypeOK
  <1> DEFINE e == [enf[s] EXCEPT !.todo = @ \ {r}]
             f == [enf[s] EXCEPT !.todo = @ \ {r}, !.failed = TRUE]
  <1>1. /\ e.pc = enf[s].pc /\ e.todo = enf[s].todo \ {r} /\ e.failed = enf[s].failed
        /\ e.i = enf[s].i
        /\ f.pc = enf[s].pc /\ f.todo = enf[s].todo \ {r} /\ f.failed = TRUE
        /\ f.i = enf[s].i
    BY <1>0 DEF EnfState
  <1>2. \/ left' = left /\ deny' = policies /\ enf' = [enf EXCEPT ![s] = e]
        \/ Spend("fault") /\ deny' \in {deny, policies} /\ enf' = [enf EXCEPT ![s] = f]
    BY DEF EnforcerRole
  <1> HIDE DEF e, f
  <1>3. Spend("fault") => left' # left
    <2>1. "fault" \in Budgets /\ left["fault"] \in Nat
      BY <1>0 DEF Budgets
    <2> QED
      BY <1>0, <2>1 DEF Spend
  <1>4. CASE left' = left /\ deny' = policies /\ enf' = [enf EXCEPT ![s] = e]
    BY <1>0, <1>1, <1>4, Moves DEF Loops, LoopPcs, AtWork
  <1>5. CASE Spend("fault") /\ deny' \in {deny, policies} /\ enf' = [enf EXCEPT ![s] = f]
    BY <1>0, <1>1, <1>3, <1>5, Moves DEF Loops, LoopPcs, AtWork
  <1> QED
    BY <1>2, <1>4, <1>5

LEMMA EnforcerAttaches ==
  ASSUME Held, NEW s \in Shards, NEW r \in Roles, AttachDeny(s, r)
  PROVE  LET d == <<r, Rec(s).pair[2], Rec(s).endpoint>> IN
         /\ UNCHANGED <<blocked, teamOf, rem, tag>>
         /\ enf[s].pc = "attach"
         /\ \E b \in BOOLEAN : Loops(s, "attach", enf[s].todo \ {r}, b)
         /\ deny' \in {deny, deny \cup {d}}
         /\ left' = left => deny' = deny \cup {d}
  <1>1. stream' = stream /\ UNCHANGED <<blocked, teamOf, rem, tag>> /\ enf[s].pc = "attach"
    BY DEF AttachDeny, enforcerUnchanged, tables
  <1>2. EnforcerRole(s, r, deny \cup {<<r, Rec(s).pair[2], Rec(s).endpoint>>})
    BY DEF AttachDeny
  <1>3. enf[s].failed \in BOOLEAN
    BY DEF Held, Shape, TypeOK, EnfState
  <1> QED
    BY <1>1, <1>2, <1>3, EnforcerRoleTurn DEF LoopPcs

LEMMA EnforcerDetaches ==
  ASSUME Held, NEW s \in Shards, NEW r \in Roles, DetachDeny(s, r)
  PROVE  LET d == <<r, Rec(s).pair[2], Rec(s).endpoint>> IN
         /\ UNCHANGED <<blocked, teamOf, rem, tag>>
         /\ enf[s].pc = "detach" /\ deny' \subseteq deny /\ deny \subseteq deny' \cup {d}
         /\ \/ /\ Loops(s, "detach", enf[s].todo \ {r}, enf[s].failed)
               /\ d \notin deny'
            \/ Loops(s, "detach", enf[s].todo \ {r}, TRUE)
  <1>1. stream' = stream /\ UNCHANGED <<blocked, teamOf, rem, tag>> /\ enf[s].pc = "detach"
    BY DEF DetachDeny, enforcerUnchanged, tables
  <1>2. PICK d, policies : d = <<r, Rec(s).pair[2], Rec(s).endpoint>> /\ policies = deny \ {d}
    OBVIOUS
  <1>3. EnforcerRole(s, r, policies)
    BY <1>2 DEF DetachDeny
  <1>4. \/ deny' = policies /\ Loops(s, "detach", enf[s].todo \ {r}, enf[s].failed)
        \/ deny' \in {deny, policies} /\ Loops(s, "detach", enf[s].todo \ {r}, TRUE)
    BY <1>1, <1>3, EnforcerRoleTurn DEF LoopPcs
  <1> QED
    BY <1>1, <1>2, <1>4

LEMMA EnforcerLeaves ==
  ASSUME Held, NEW s \in Shards, PutBlockedState(s) \/ FinishLift(s) \/ CrashEnforcer(s)
  PROVE  /\ UNCHANGED <<deny, teamOf, rem, tag>>
         /\ OthersWait(s) /\ enf'[s].pc \notin LoopPcs \cup {"list"}
  <1>0. Shape /\ enf[s] \in EnfState
    BY DEF Held, Shape, TypeOK
  <1>1. UNCHANGED <<deny, teamOf, rem, tag>>
    BY DEF PutBlockedState, FinishLift, CrashEnforcer, enforcerUnchanged, checkpointUnchanged
  <1>2. CASE PutBlockedState(s) \/ FinishLift(s)
    BY <1>0, <1>1, <1>2, MovesOn
    DEF PutBlockedState, FinishLift, enforcerUnchanged, tables, LoopPcs
  <1>3. CASE CrashEnforcer(s)
    <2> DEFINE e == [EnfIdle EXCEPT !.tries = enf[s].tries + 1]
    <2>1. e.pc = "idle" /\ EnfIdle.pc = "idle"
      BY DEF EnfIdle
    <2>2. \/ Checkpoint(s) /\ enf' = [enf EXCEPT ![s] = EnfIdle]
          \/ stream' = stream /\ enf' = [enf EXCEPT ![s] = e]
      BY <1>3 DEF CrashEnforcer
    <2> HIDE DEF e
    <2> QED
      BY <1>0, <1>1, <2>1, <2>2, Moves, Checkpoints DEF LoopPcs
  <1> QED
    BY <1>2, <1>3

-----------------------------------------------------------------------------
(* The steps of a remover.                                                 *)
OthersRest(x) == \A y \in Removers \ {x} : rem'[y] = rem[y]

LEMMA Rests ==
  ASSUME Held, NEW x \in Removers, NEW e, rem' = [rem EXCEPT ![x] = e]
  PROVE  OthersRest(x) /\ rem'[x] = e
  BY DEF Held, Shape, TypeOK, OthersRest

(* Between two pairs, or before the first and after the last.              *)
Begins(x) ==
  /\ OthersRest(x)
  /\ rem[x].pc # "remove"
  /\ rem'[x].pc = "remove" =>
       \E j \in Job : rem'[x].cur = {j} /\ rem'[x].todo = RolesOf(j.pair[1])

LEMMA ResetBegins ==
  ASSUME Held, ResetStep
  PROVE  /\ Begins("reset")
         /\ UNCHANGED <<enf, stream, deny, blocked, teamOf, tag>>
  <1>0. "reset" \in Removers /\ rem["reset"] \in RemState
    BY DEF Held, Shape, TypeOK, Removers
  <1>1. UNCHANGED <<enf, stream, deny, blocked, teamOf, tag>>
    BY DEF ResetStep, StartReset, QueryPairs, removerUnchanged, tables
  <1>2. PICK e : /\ rem' = [rem EXCEPT !["reset"] = e] /\ e.pc # "remove"
                 /\ rem["reset"].pc # "remove"
    <2>1. CASE StartReset
      <3> DEFINE e == [RemIdle EXCEPT !.pc = "query", !.prev = day - 1, !.ask = Statuses]
      <3>1. e.pc = "query" /\ rem' = [rem EXCEPT !["reset"] = e]
        BY <2>1 DEF StartReset, RemIdle
      <3> HIDE DEF e
      <3> QED
        BY <2>1, <3>1 DEF StartReset
    <2>2. ASSUME NEW st \in Statuses, QueryPairs(st)
          PROVE  \E e : /\ rem' = [rem EXCEPT !["reset"] = e] /\ e.pc # "remove"
                        /\ rem["reset"].pc # "remove"
      <3>1. PICK queue, ask, l : /\ rem' = [rem EXCEPT !["reset"] = [rem["reset"] EXCEPT
                                       !.queue = queue, !.ask = ask, !.pc = l]]
                                /\ l \in {"next", "query"}
        BY <2>2 DEF QueryPairs
      <3> DEFINE e == [rem["reset"] EXCEPT !.queue = queue, !.ask = ask, !.pc = l]
      <3>2. e.pc = l /\ rem' = [rem EXCEPT !["reset"] = e]
        BY <1>0, <3>1 DEF RemState
      <3> HIDE DEF e
      <3> QED
        BY <2>2, <3>1, <3>2 DEF QueryPairs
    <2> QED
      BY <2>1, <2>2 DEF ResetStep
  <1> QED
    BY <1>0, <1>1, <1>2, Rests DEF Begins

LEMMA RemoverBegins ==
  ASSUME Held, NEW x \in Removers,
         (\E j \in rem[x].queue : BeginPair(x, j)) \/ FinishRemover(x)
           \/ (x \in Admins /\ \E p \in Pairs : StartManual(x, p))
  PROVE  Begins(x) /\ UNCHANGED <<enf, stream, deny, blocked, teamOf, tag>>
  <1>0. rem[x] \in RemState
    BY DEF Held, Shape, TypeOK
  <1>1. UNCHANGED <<enf, stream, deny, blocked, teamOf, tag>>
    BY DEF BeginPair, FinishRemover, StartManual, removerUnchanged, tables
  <1>2. ASSUME NEW j \in rem[x].queue, BeginPair(x, j) PROVE Begins(x)
    <2>1. j \in Job
      BY <1>0 DEF RemState
    <2> DEFINE e == [rem[x] EXCEPT !.pc = "remove", !.queue = @ \ {j}, !.cur = {j},
                                   !.todo = RolesOf(j.pair[1]), !.failed = FALSE]
    <2>2. /\ e.cur = {j} /\ e.todo = RolesOf(j.pair[1]) /\ rem' = [rem EXCEPT ![x] = e]
          /\ rem[x].pc = "next"
      BY <1>0, <1>2 DEF RemState, BeginPair
    <2> HIDE DEF e
    <2> QED
      BY <2>1, <2>2, Rests DEF Begins
  <1>3. CASE FinishRemover(x)
    <2>1. RemIdle.pc = "idle" /\ rem' = [rem EXCEPT ![x] = RemIdle] /\ rem[x].pc = "next"
      BY <1>3 DEF FinishRemover, RemIdle
    <2> QED
      BY <1>1, <2>1, Rests DEF Begins
  <1>4. ASSUME NEW p \in Pairs, StartManual(x, p) PROVE Begins(x)
    <2>1. PICK queue : rem' = [rem EXCEPT ![x] = [RemIdle EXCEPT !.pc = "next", !.queue = queue]]
      BY <1>4 DEF StartManual
    <2> DEFINE e == [RemIdle EXCEPT !.pc = "next", !.queue = queue]
    <2>2. e.pc = "next" /\ rem' = [rem EXCEPT ![x] = e] /\ rem[x].pc = "idle"
      BY <1>4, <2>1 DEF RemIdle, StartManual
    <2> HIDE DEF e
    <2> QED
      BY <2>2, Rests DEF Begins
  <1> QED
    BY <1>1, <1>2, <1>3, <1>4

LEMMA JobHeld ==
  ASSUME Held, NEW x \in Removers, rem[x].pc = "remove"
  PROVE  \E j \in Job : /\ rem[x].cur = {j} /\ j.pair \in Pairs
                        /\ j.pair[1] \in Teams /\ j.pair[2] \in Models
  <1>1. PICK j \in rem[x].cur : rem[x].cur = {j}
    BY DEF Held, OneJob
  <1>2. j \in Job
    BY DEF Held, Shape, TypeOK, RemState
  <1> QED
    BY <1>1, <1>2 DEF Job, Pairs

LEMMA RemoverRemoves ==
  ASSUME Held, NEW x \in Removers, NEW r \in Roles, RemoveDeny(x, r), NEW j, rem[x].cur = {j}
  PROVE  LET d == <<r, j.pair[2], j.endpoint>> IN
         /\ UNCHANGED <<enf, stream, blocked, teamOf, tag>>
         /\ OthersRest(x) /\ rem[x].pc = "remove" /\ rem'[x].pc = "remove"
         /\ rem'[x].cur = rem[x].cur /\ rem'[x].todo = rem[x].todo \ {r}
         /\ deny' \subseteq deny /\ deny \subseteq deny' \cup {d}
         /\ \/ rem'[x].failed = rem[x].failed /\ d \notin deny'
            \/ rem'[x].failed
  <1>0. rem[x] \in RemState
    BY DEF Held, Shape, TypeOK
  <1>1. UNCHANGED <<enf, stream, blocked, teamOf, tag>> /\ rem[x].pc = "remove"
    BY DEF RemoveDeny, removerUnchanged, tables
  <1>2. PICK d, policies : d = <<r, j.pair[2], j.endpoint>> /\ policies = deny \ {d}
    OBVIOUS
  <1> DEFINE e == [rem[x] EXCEPT !.todo = @ \ {r}]
             f == [rem[x] EXCEPT !.todo = @ \ {r}, !.failed = TRUE]
  <1>3. \/ deny' = policies /\ rem' = [rem EXCEPT ![x] = e]
        \/ deny' \in {deny, policies} /\ rem' = [rem EXCEPT ![x] = f]
    BY <1>2 DEF RemoveDeny
  <1>4. /\ e.pc = rem[x].pc /\ e.cur = rem[x].cur /\ e.todo = rem[x].todo \ {r}
        /\ e.failed = rem[x].failed
        /\ f.pc = rem[x].pc /\ f.cur = rem[x].cur /\ f.todo = rem[x].todo \ {r}
        /\ f.failed = TRUE
    BY <1>0 DEF RemState
  <1> HIDE DEF e, f
  <1>5. CASE deny' = policies /\ rem' = [rem EXCEPT ![x] = e]
    BY <1>1, <1>2, <1>4, <1>5, Rests
  <1>6. CASE deny' \in {deny, policies} /\ rem' = [rem EXCEPT ![x] = f]
    BY <1>1, <1>2, <1>4, <1>6, Rests
  <1> QED
    BY <1>3, <1>5, <1>6

LEMMA RemoverLeaves ==
  ASSUME Held, NEW x \in Removers, SettlePair(x) \/ CrashRemover(x)
  PROVE  /\ UNCHANGED <<enf, stream, deny, teamOf, tag>>
         /\ OthersRest(x) /\ rem'[x].pc # "remove"
  <1>0. rem[x] \in RemState
    BY DEF Held, Shape, TypeOK
  <1>1. UNCHANGED <<enf, stream, deny, teamOf, tag>>
    BY DEF SettlePair, CrashRemover, removerUnchanged, tables
  <1> DEFINE e == [rem[x] EXCEPT !.pc = "next", !.cur = {}, !.failed = FALSE]
  <1>2. e.pc = "next" /\ RemIdle.pc = "idle"
    BY <1>0 DEF RemState, RemIdle
  <1>3. rem' = [rem EXCEPT ![x] = e] \/ rem' = [rem EXCEPT ![x] = RemIdle]
    BY DEF SettlePair, CrashRemover
  <1> HIDE DEF e
  <1> QED
    BY <1>1, <1>2, <1>3, Rests

-----------------------------------------------------------------------------
(* The steps of a tagger.                                                  *)
OthersTag(w) == \A v \in Taggers \ {w} : tag'[v] = tag[v]

(* The tagger goes on for the same role and team.                          *)
GoesOn(w, l, todo) ==
  /\ OthersTag(w)
  /\ tag'[w].pc = l /\ tag'[w].role = tag[w].role /\ tag'[w].team = tag[w].team
  /\ tag'[w].todo = todo

Ends(w) == OthersTag(w) /\ tag'[w].pc = "idle" /\ tag'[w].todo = {}

LEMMA Tags ==
  ASSUME Held, NEW w \in Taggers, NEW e, tag' = [tag EXCEPT ![w] = e]
  PROVE  OthersTag(w) /\ tag'[w] = e
  BY DEF Held, Shape, TypeOK, OthersTag

LEMMA TagEnds ==
  ASSUME Held, NEW w \in Taggers, tag' = [tag EXCEPT ![w] = TagIdle]
  PROVE  Ends(w)
  <1>1. TagIdle.pc = "idle" /\ TagIdle.todo = {}
    BY DEF TagIdle
  <1> QED
    BY <1>1, Tags DEF Ends

LEMMA TagHeld ==
  ASSUME Held, NEW w \in Taggers, tag[w].pc # "idle"
  PROVE  \E r \in Roles, t \in Teams : tag[w].role = {r} /\ tag[w].team = {t}
  BY DEF Held, OneTag

LEMMA TaggerCaches ==
  ASSUME Held, NEW w \in Taggers, NEW r \in Roles, NEW t \in Teams,
         TagRole(w, r, t) \/ RedeliverTagRole(w, r, t)
  PROVE  /\ UNCHANGED <<enf, stream, blocked, rem, deny>>
         /\ teamOf' = [teamOf EXCEPT ![r] = t]
         /\ OthersTag(w)
         /\ tag'[w].pc = "query" /\ tag'[w].role = {r} /\ tag'[w].team = {t}
         /\ tag'[w].todo = {}
         /\ \/ tag[w].pc = "idle"
            \/ tag[w].pc = "cache" /\ tag[w].role = {r} /\ tag[w].team = {t}
  <1>0. tag[w] \in TagState
    BY DEF Held, Shape, TypeOK
  <1>1. CacheRole(w, r, t)
    BY DEF TagRole, RedeliverTagRole
  <1>2. UNCHANGED <<enf, stream, blocked, rem, deny>> /\ teamOf' = [teamOf EXCEPT ![r] = t]
    BY <1>1 DEF CacheRole, taggerUnchanged, tables
  <1> DEFINE e == [tag[w] EXCEPT !.pc = "query", !.role = {r}, !.team = {t}, !.tries = @ + 1]
  <1>3. /\ e.pc = "query" /\ e.role = {r} /\ e.team = {t} /\ e.todo = tag[w].todo
        /\ tag' = [tag EXCEPT ![w] = e]
    BY <1>0, <1>1 DEF CacheRole, TagState
  <1> HIDE DEF e
  <1>4. \/ tag[w].pc = "idle"
        \/ tag[w].pc = "cache" /\ tag[w].role = {r} /\ tag[w].team = {t}
    BY TagHeld DEF TagRole, RedeliverTagRole
  <1>5. tag[w].todo = {}
    BY <1>4 DEF Held, OneTag
  <1> QED
    BY <1>2, <1>3, <1>4, <1>5, Tags

LEMMA TaggerQueries ==
  ASSUME Held, NEW w \in Taggers, NEW t \in Teams, QueryBlocked(w, t)
  PROVE  /\ UNCHANGED <<enf, stream, blocked, rem, deny, teamOf>>
         /\ tag[w].pc = "query" /\ tag[w].team = {t}
         /\ \/ Ends(w) /\ \A m \in Models : blocked[<<t, m>>].status # "BLOCKED"
            \/ \E todo : /\ GoesOn(w, "attach", todo)
                         /\ \A m \in Models : blocked[<<t, m>>].status = "BLOCKED"
                              => <<m, blocked[<<t, m>>].endpoint>> \in todo
                         /\ \A me \in todo : blocked[<<t, me[1]>>].status = "BLOCKED"
                                             /\ blocked[<<t, me[1]>>].endpoint = me[2]
  <1>0. tag[w] \in TagState
    BY DEF Held, Shape, TypeOK
  <1>1. UNCHANGED <<enf, stream, blocked, rem, deny, teamOf>> /\ tag[w].pc = "query"
    BY DEF QueryBlocked, taggerUnchanged, tables
  <1>2. tag[w].team = {t}
    BY <1>1, TagHeld DEF QueryBlocked
  <1>3. PICK todo : todo = {<<m, blocked[<<t, m>>].endpoint>> :
                              m \in {m \in Models : blocked[<<t, m>>].status = "BLOCKED"}}
    OBVIOUS
  <1> DEFINE e == [tag[w] EXCEPT !.pc = "attach", !.todo = todo]
  <1>4. \/ todo = {} /\ tag' = [tag EXCEPT ![w] = TagIdle]
        \/ tag' = [tag EXCEPT ![w] = e]
    BY <1>3 DEF QueryBlocked
  <1>5. e.pc = "attach" /\ e.role = tag[w].role /\ e.team = tag[w].team /\ e.todo = todo
    BY <1>0 DEF TagState
  <1> HIDE DEF e
  <1>6. /\ \A m \in Models : blocked[<<t, m>>].status = "BLOCKED"
              => <<m, blocked[<<t, m>>].endpoint>> \in todo
        /\ \A me \in todo : blocked[<<t, me[1]>>].status = "BLOCKED"
                            /\ blocked[<<t, me[1]>>].endpoint = me[2]
    <2>1. ASSUME NEW me \in todo
          PROVE  blocked[<<t, me[1]>>].status = "BLOCKED" /\ blocked[<<t, me[1]>>].endpoint = me[2]
      <3>1. PICK m \in Models : /\ blocked[<<t, m>>].status = "BLOCKED"
                                /\ me = <<m, blocked[<<t, m>>].endpoint>>
        BY <1>3, <2>1
      <3> QED
        BY <3>1
    <2> QED
      BY <1>3, <2>1
  <1>7. CASE todo = {} /\ tag' = [tag EXCEPT ![w] = TagIdle]
    BY <1>1, <1>2, <1>6, <1>7, TagEnds
  <1>8. CASE tag' = [tag EXCEPT ![w] = e]
    <2>1. GoesOn(w, "attach", todo)
      BY <1>5, <1>8, Tags DEF GoesOn
    <2> QED
      BY <1>1, <1>2, <1>6, <2>1
  <1> QED
    BY <1>4, <1>7, <1>8

LEMMA TaggerAttaches ==
  ASSUME Held, NEW w \in Taggers, NEW r \in Roles, NEW me \in Policies, AttachInherited(w, r, me)
  PROVE  /\ UNCHANGED <<enf, stream, blocked, rem, teamOf>>
         /\ tag[w].pc = "attach" /\ tag[w].role = {r} /\ me \in tag[w].todo
         /\ deny' = deny \cup {<<r, me[1], me[2]>>}
         /\ \/ Ends(w) /\ tag[w].todo = {me}
            \/ GoesOn(w, "attach", tag[w].todo \ {me})
  <1>0. tag[w] \in TagState
    BY DEF Held, Shape, TypeOK
  <1>1. /\ UNCHANGED <<enf, stream, blocked, rem, teamOf>>
        /\ tag[w].pc = "attach" /\ me \in tag[w].todo /\ r \in tag[w].role
        /\ deny' = deny \cup {<<r, me[1], me[2]>>}
    BY DEF AttachInherited, taggerUnchanged, tables
  <1>2. tag[w].role = {r}
    BY <1>1, TagHeld
  <1> DEFINE e == [tag[w] EXCEPT !.todo = @ \ {me}]
  <1>3. \/ tag[w].todo = {me} /\ tag' = [tag EXCEPT ![w] = TagIdle]
        \/ tag' = [tag EXCEPT ![w] = e]
    BY DEF AttachInherited
  <1>4. /\ e.pc = tag[w].pc /\ e.role = tag[w].role /\ e.team = tag[w].team
        /\ e.todo = tag[w].todo \ {me}
    BY <1>0 DEF TagState
  <1> HIDE DEF e
  <1>5. CASE tag[w].todo = {me} /\ tag' = [tag EXCEPT ![w] = TagIdle]
    BY <1>1, <1>2, <1>5, TagEnds
  <1>6. CASE tag' = [tag EXCEPT ![w] = e]
    <2>1. GoesOn(w, "attach", tag[w].todo \ {me})
      BY <1>1, <1>4, <1>6, Tags DEF GoesOn
    <2> QED
      BY <1>1, <1>2, <2>1
  <1> QED
    BY <1>3, <1>5, <1>6

LEMMA TaggerCrashes ==
  ASSUME Held, NEW w \in Taggers, CrashTagger(w)
  PROVE  /\ UNCHANGED <<enf, stream, blocked, rem, teamOf>>
         /\ tag[w].pc \in {"query", "attach"} /\ deny \subseteq deny'
         /\ \A d \in deny' \ deny : \E r \in tag[w].role, me \in tag[w].todo :
              d = <<r, me[1], me[2]>>
         /\ \/ Ends(w) /\ tag[w].tries >= Attempts
            \/ GoesOn(w, "cache", {}) /\ ~(tag[w].tries >= Attempts)
  <1>0. tag[w] \in TagState
    BY DEF Held, Shape, TypeOK
  <1>1. /\ UNCHANGED <<enf, stream, blocked, rem, teamOf>>
        /\ tag[w].pc \in {"query", "attach"} /\ deny \subseteq deny'
        /\ \A d \in deny' \ deny : \E r \in tag[w].role, me \in tag[w].todo :
             d = <<r, me[1], me[2]>>
    BY DEF CrashTagger, taggerUnchanged, tables
  <1> DEFINE e == [tag[w] EXCEPT !.pc = "cache", !.todo = {}]
  <1>2. tag' = IF tag[w].tries >= Attempts THEN [tag EXCEPT ![w] = TagIdle]
               ELSE [tag EXCEPT ![w] = e]
    BY DEF CrashTagger
  <1>3. e.pc = "cache" /\ e.role = tag[w].role /\ e.team = tag[w].team /\ e.todo = {}
    BY <1>0 DEF TagState
  <1> HIDE DEF e
  <1>4. CASE tag[w].tries >= Attempts
    BY <1>1, <1>2, <1>4, TagEnds
  <1>5. CASE ~(tag[w].tries >= Attempts)
    <2>1. GoesOn(w, "cache", {})
      BY <1>2, <1>3, <1>5, Tags DEF GoesOn
    <2> QED
      BY <1>1, <1>5, <2>1
  <1> QED
    BY <1>4, <1>5

-----------------------------------------------------------------------------
(* The steps of the environment.                                           *)
AllWait == \A z \in Shards : enf'[z] = enf[z] /\ (AtWork(z) => Rec(z)' = Rec(z))

LEMMA EnvironmentWaits ==
  ASSUME Held, Environment
  PROVE  AllWait /\ UNCHANGED <<blocked, deny, rem, tag>>
  <1>1. UNCHANGED <<enf, blocked, deny, rem, tag>>
    BY DEF Environment, AddUsage, SetUsage, WriteUsage, PutQuota, Remap, NextDay
  <1>0. /\ stream \in [Shards -> Seq(Record)] /\ day \in Days
        /\ \A p \in Pairs : usage[p] \in 0 .. MaxTokens
    BY DEF Held, Shape, TypeOK
  <1>2. \/ stream' = stream
        \/ \E z \in Shards, rec \in Record : stream' = [stream EXCEPT ![z] = Append(@, rec)]
    <2>1. ASSUME NEW p \in Pairs, NEW v \in 0 .. MaxTokens, NEW e \in Endpoints,
                 WriteUsage(p, v, e)
          PROVE  \E z \in Shards, rec \in Record : stream' = [stream EXCEPT ![z] = Append(@, rec)]
      BY <1>0, <2>1, ConstantsAssumption DEF WriteUsage, Record
    <2>2. ASSUME NEW p \in Pairs, NEW k \in 1 .. MaxTokens, AddUsage(p, k)
          PROVE  WriteUsage(p, usage[p] + k, "bedrock-runtime") /\ usage[p] + k \in 0 .. MaxTokens
      BY <1>0, <2>2 DEF AddUsage
    <2>3. ASSUME NEW p \in Pairs, NEW v \in 1 .. MaxTokens, SetUsage(p, v)
          PROVE  WriteUsage(p, v, "bedrock-mantle") /\ v \in 0 .. MaxTokens
      BY <2>3 DEF SetUsage
    <2>4. "bedrock-mantle" \in Endpoints /\ "bedrock-runtime" \in Endpoints
      BY DEF Endpoints
    <2>5. ASSUME NEW p \in Pairs, NEW q, PutQuota(p, q) PROVE stream' = stream
      BY <2>5 DEF PutQuota
    <2>6. ASSUME NEW r \in Roles, NEW t, Remap(r, t) PROVE stream' = stream
      BY <2>6 DEF Remap, tables
    <2>7. NextDay => stream' = stream
      BY DEF NextDay
    <2> QED
      BY <2>1, <2>2, <2>3, <2>4, <2>5, <2>6, <2>7 DEF Environment
  <1>3. ASSUME NEW z \in Shards, AtWork(z) PROVE stream'[z][enf[z].i] = stream[z][enf[z].i]
    <2>1. enf[z].i \in 1 .. Len(stream[z])
      BY <1>3, RecHeld DEF AtWork
    <2>2. ASSUME NEW rec \in Record, NEW y \in Shards,
                 stream' = [stream EXCEPT ![y] = Append(@, rec)]
          PROVE  stream'[z][enf[z].i] = stream[z][enf[z].i]
      <3>1. CASE z = y
        <4>1. PICK q \in Seq(Record) : q = stream[z]
          BY <1>0
        <4>2. stream'[z] = Append(q, rec)
          BY <1>0, <2>2, <3>1, <4>1
        <4> QED
          BY <2>1, <4>1, <4>2
      <3>2. CASE z # y
        BY <1>0, <2>2, <3>2
      <3> QED
        BY <3>1, <3>2
    <2> QED
      BY <1>2, <2>2
  <1> QED
    BY <1>1, <1>3 DEF AllWait, Rec

-----------------------------------------------------------------------------
(* Held is an invariant.                                                   *)
LEMMA InitHeld == Init => Held
  <1> SUFFICES ASSUME Init PROVE Held
    OBVIOUS
  <1>1. RecordsInShard /\ OneJob /\ OneTag /\ RowAway
    BY DEF Init, RecordsInShard, OneJob, OneTag, RowAway, EnfIdle, RemIdle, TagIdle
  <1> QED
    BY InitShape, <1>1 DEF Held

LEMMA ShapeStep == Shape /\ Next => Shape'
  BY EnvironmentShape, EnforcerShape, ResetShape, RemoverShape, TaggerShape, RequestShape,
     CrashShape DEF Next

LEMMA AppendedInShard ==
  ASSUME Held, NEW z \in Shards, NEW rec \in Record, ShardOf[rec.pair] = z,
         stream' = [stream EXCEPT ![z] = Append(@, rec)]
  PROVE  RecordsInShard'
  <1> SUFFICES ASSUME NEW s \in Shards, NEW i \in 1 .. Len(stream'[s])
               PROVE  ShardOf[stream'[s][i].pair] = s
    BY DEF RecordsInShard
  <1>0. stream \in [Shards -> Seq(Record)]
    BY DEF Held, Shape, TypeOK
  <1>1. CASE s = z
    <2>1. PICK q \in Seq(Record) : q = stream[s]
      BY <1>0
    <2>2. stream'[s] = Append(q, rec)
      BY <1>0, <1>1, <2>1
    <2>3. (i \in 1 .. Len(q) /\ stream'[s][i] = q[i]) \/ stream'[s][i] = rec
      BY <2>2
    <2> QED
      BY <1>1, <2>1, <2>3 DEF Held, RecordsInShard
  <1>2. CASE s # z
    BY <1>0, <1>2 DEF Held, RecordsInShard
  <1> QED
    BY <1>1, <1>2

LEMMA SuffixInShard ==
  ASSUME Held, NEW z \in Shards, Checkpoint(z), enf[z].pc # "idle"
  PROVE  RecordsInShard'
  <1> SUFFICES ASSUME NEW s \in Shards, NEW i \in 1 .. Len(stream'[s])
               PROVE  ShardOf[stream'[s][i].pair] = s
    BY DEF RecordsInShard
  <1>0. /\ stream \in [Shards -> Seq(Record)]
        /\ enf[z].n \in Nat /\ enf[z].n <= Len(stream[z])
    BY DEF Held, Shape, TypeOK, EnfState, InvocationInBatch
  <1> DEFINE rest == SubSeq(stream[z], enf[z].n + 1, Len(stream[z]))
  <1>1. \A j \in 1 .. Len(rest) :
          rest[j] = stream[z][enf[z].n + j] /\ enf[z].n + j \in 1 .. Len(stream[z])
    BY <1>0, SuffixElements
  <1>2. stream' = [stream EXCEPT ![z] = rest]
    BY DEF Checkpoint
  <1> HIDE DEF rest
  <1>3. CASE s = z
    <2>1. stream'[s] = rest
      BY <1>0, <1>2, <1>3
    <2> QED
      BY <1>1, <1>3, <2>1 DEF Held, RecordsInShard
  <1>4. CASE s # z
    BY <1>0, <1>2, <1>4 DEF Held, RecordsInShard
  <1> QED
    BY <1>3, <1>4

LEMMA StreamStep ==
  ASSUME Held, Next
  PROVE  RecordsInShard'
  <1>0. /\ stream \in [Shards -> Seq(Record)] /\ day \in Days
        /\ \A p \in Pairs : usage[p] \in 0 .. MaxTokens
    BY DEF Held, Shape, TypeOK
  <1>1. CASE stream' = stream
    BY <1>1 DEF Held, RecordsInShard
  <1>2. ASSUME NEW s \in Shards, Checkpoint(s), enf[s].pc # "idle" PROVE RecordsInShard'
    BY <1>2, SuffixInShard
  <1>3. ASSUME NEW p \in Pairs, NEW v \in 0 .. MaxTokens, NEW e \in Endpoints,
               WriteUsage(p, v, e)
        PROVE  RecordsInShard'
    <2>1. PICK rec : rec = [pair |-> p, day |-> day, total |-> v, endpoint |-> e]
      OBVIOUS
    <2>2. rec \in Record /\ rec.pair = p
      BY <1>0, <2>1 DEF Record
    <2>3. stream' = [stream EXCEPT ![ShardOf[p]] = Append(@, rec)] /\ ShardOf[p] \in Shards
      BY <1>3, <2>1, ConstantsAssumption DEF WriteUsage
    <2> QED
      BY <2>2, <2>3, AppendedInShard
  <1>4. CASE Environment
    <2>2. ASSUME NEW p \in Pairs, NEW k \in 1 .. MaxTokens, AddUsage(p, k)
          PROVE  WriteUsage(p, usage[p] + k, "bedrock-runtime") /\ usage[p] + k \in 0 .. MaxTokens
      BY <1>0, <2>2 DEF AddUsage
    <2>3. ASSUME NEW p \in Pairs, NEW v \in 1 .. MaxTokens, SetUsage(p, v)
          PROVE  WriteUsage(p, v, "bedrock-mantle") /\ v \in 0 .. MaxTokens
      BY <2>3 DEF SetUsage
    <2>4. "bedrock-mantle" \in Endpoints /\ "bedrock-runtime" \in Endpoints
      BY DEF Endpoints
    <2>5. ASSUME NEW p \in Pairs, NEW q, PutQuota(p, q) PROVE stream' = stream
      BY <2>5 DEF PutQuota
    <2>6. ASSUME NEW r \in Roles, NEW t, Remap(r, t) PROVE stream' = stream
      BY <2>6 DEF Remap, tables
    <2>7. NextDay => stream' = stream
      BY DEF NextDay
    <2> QED
      BY <1>1, <1>3, <1>4, <2>2, <2>3, <2>4, <2>5, <2>6, <2>7 DEF Environment
  <1>5. ASSUME NEW s \in Shards, EnforcerStep(s) PROVE RecordsInShard'
    <2>1. FinishBatch(s) => Checkpoint(s) /\ enf[s].pc # "idle"
      BY DEF FinishBatch
    <2>2. FinishBatch(s) \/ stream' = stream
      BY <1>5 DEF EnforcerStep, StartBatch, SkipRecord, ReadQuota, CheckBlocked, ListRoles,
                  AttachDeny, PutBlockedState, LiftGuard, DetachDeny, FinishLift,
                  enforcerUnchanged, tables
    <2> QED
      BY <1>1, <1>2, <2>1, <2>2
  <1>6. CASE Crash
    <2>1. ASSUME NEW s \in Shards, CrashEnforcer(s)
          PROVE  stream' = stream \/ (Checkpoint(s) /\ enf[s].pc # "idle")
      BY <2>1 DEF CrashEnforcer
    <2>2. ASSUME NEW x \in Removers, CrashRemover(x) PROVE stream' = stream
      BY <2>2 DEF CrashRemover, removerUnchanged, tables
    <2>3. ASSUME NEW w \in Taggers, CrashTagger(w) PROVE stream' = stream
      BY <2>3 DEF CrashTagger, taggerUnchanged, tables
    <2> QED
      BY <1>1, <1>2, <1>6, <2>1, <2>2, <2>3 DEF Crash
  <1>7. CASE ResetStep \/ (\E x \in Removers : RemoverStep(x))
    <2>1. stream' = stream
      BY <1>7 DEF ResetStep, StartReset, QueryPairs, RemoverStep, BeginPair, RemoveDeny,
                  SettlePair, FinishRemover, removerUnchanged, tables
    <2> QED
      BY <1>1, <2>1
  <1>8. CASE Request \/ (\E w \in Taggers : TaggerStep(w))
    <2>1. stream' = stream
      BY <1>8 DEF Request, TaggerStep, StartManual, TagRole, RedeliverTagRole, CacheRole,
                  QueryBlocked, AttachInherited, removerUnchanged, taggerUnchanged, tables
    <2> QED
      BY <1>1, <2>1
  <1> QED
    BY <1>4, <1>5, <1>6, <1>7, <1>8 DEF Next

(* One enforcer moves, or none.                                            *)
LEMMA RowAwayFrame ==
  ASSUME Held, UNCHANGED blocked,
         \/ AllWait
         \/ \E s \in Shards : OthersWait(s) /\ (enf'[s].pc = "list" =>
               Rec(s)' = Rec(s) /\ RowOf(s).status = "NONE")
  PROVE  RowAway'
  BY DEF Held, RowAway, AllWait, OthersWait, AtWork, RowOf

(* The rows change at one pair.                                            *)
LEMMA RowAwayWrite ==
  ASSUME Held, NEW s \in Shards, OthersWait(s), enf'[s].pc # "list",
         \A p \in Pairs : \/ blocked'[p] = blocked[p]
                         \/ blocked'[p].status # "BLOCKED"
                         \/ ShardOf[p] = s
  PROVE  RowAway'
  <1> SUFFICES ASSUME NEW z \in Shards, enf'[z].pc = "list"
               PROVE  blocked'[Rec(z)'.pair].status # "BLOCKED"
    BY DEF RowAway, RowOf
  <1>1. z # s
    OBVIOUS
  <1>2. enf[z].pc = "list" /\ Rec(z)' = Rec(z)
    BY <1>1 DEF OthersWait, AtWork
  <1>3. Rec(z).pair \in Pairs /\ ShardOf[Rec(z).pair] = z
    BY <1>2, RecHeld
  <1> QED
    BY <1>1, <1>2, <1>3 DEF Held, RowAway, RowOf

LEMMA Settles ==
  ASSUME Held, NEW x \in Removers, SettlePair(x)
  PROVE  \E j, row : /\ rem[x].pc = "remove" /\ rem[x].todo = {}
                     /\ rem[x].cur = {j} /\ j.pair \in Pairs
                     /\ blocked' = [blocked EXCEPT ![j.pair] = row]
                     /\ IF rem[x].failed
                        THEN row.status = "PENDING_RESET" /\ row.endpoint = j.endpoint
                        ELSE row = NoRow
  <1>1. PICK j \in rem[x].cur : blocked' = [blocked EXCEPT ![j.pair] =
              IF rem[x].failed
              THEN [status |-> "PENDING_RESET", day |-> j.day, endpoint |-> j.endpoint]
              ELSE NoRow]
    BY DEF SettlePair
  <1>2. PICK row : row = IF rem[x].failed
              THEN [status |-> "PENDING_RESET", day |-> j.day, endpoint |-> j.endpoint]
              ELSE NoRow
    OBVIOUS
  <1>3. rem[x].pc = "remove" /\ rem[x].todo = {} /\ rem[x].cur = {j} /\ j.pair \in Pairs
    BY JobHeld DEF SettlePair
  <1>4. IF rem[x].failed THEN row.status = "PENDING_RESET" /\ row.endpoint = j.endpoint
                         ELSE row = NoRow
    BY <1>2
  <1> QED
    BY <1>1, <1>2, <1>3, <1>4

LEMMA RowsWritten ==
  ASSUME Held
  PROVE  /\ \A s \in Shards : PutBlockedState(s) =>
              \A p \in Pairs : p # Rec(s).pair => blocked'[p] = blocked[p]
         /\ \A s \in Shards : FinishLift(s) =>
              \A p \in Pairs : blocked'[p] = blocked[p] \/ blocked'[p].status # "BLOCKED"
         /\ \A x \in Removers : SettlePair(x) =>
              \A p \in Pairs : blocked'[p] = blocked[p] \/ blocked'[p].status # "BLOCKED"
         /\ \A s \in Shards : CrashEnforcer(s) => blocked' = blocked
         /\ \A x \in Removers : CrashRemover(x) => blocked' = blocked
  <1>0. blocked \in [Pairs -> Row]
    BY DEF Held, Shape, TypeOK
  <1>1. NoRow.status = "NONE"
    BY DEF NoRow
  <1>2. ASSUME NEW s \in Shards, PutBlockedState(s), NEW p \in Pairs, p # Rec(s).pair
        PROVE  blocked'[p] = blocked[p]
    BY <1>0, <1>2 DEF PutBlockedState
  <1>3. ASSUME NEW s \in Shards, FinishLift(s), NEW p \in Pairs
        PROVE  blocked'[p] = blocked[p] \/ blocked'[p].status # "BLOCKED"
    BY <1>0, <1>1, <1>3 DEF FinishLift
  <1>4. ASSUME NEW x \in Removers, SettlePair(x), NEW p \in Pairs
        PROVE  blocked'[p] = blocked[p] \/ blocked'[p].status # "BLOCKED"
    <2>1. PICK j, row : /\ blocked' = [blocked EXCEPT ![j.pair] = row]
                        /\ row.status # "BLOCKED"
      BY <1>1, <1>4, Settles
    <2> QED
      BY <1>0, <2>1
  <1>5. /\ \A s \in Shards : CrashEnforcer(s) => blocked' = blocked
        /\ \A x \in Removers : CrashRemover(x) => blocked' = blocked
    BY DEF CrashEnforcer, checkpointUnchanged, CrashRemover
  <1> QED
    BY <1>2, <1>3, <1>4, <1>5

LEMMA HandlersStep ==
  ASSUME Held, Next
  PROVE  OneJob' /\ OneTag' /\ RowAway'
  <1>1. ASSUME UNCHANGED rem PROVE OneJob'
    BY <1>1 DEF Held, OneJob
  <1>2. ASSUME UNCHANGED tag PROVE OneTag'
    BY <1>2 DEF Held, OneTag
  <1>3. ASSUME UNCHANGED <<enf, stream>> PROVE AllWait
    BY <1>3 DEF AllWait, Rec
  <1>4. CASE Environment
    BY <1>1, <1>2, <1>4, EnvironmentWaits, RowAwayFrame
  <1>5. ASSUME NEW s \in Shards, EnforcerStep(s) PROVE OneJob' /\ OneTag' /\ RowAway'
    <2>1. CASE StartBatch(s) \/ SkipRecord(s) \/ ReadQuota(s) \/ CheckBlocked(s)
                 \/ LiftGuard(s) \/ FinishBatch(s)
      BY <1>1, <1>2, <2>1, EnforcerRoams, RowAwayFrame DEF Roams
    <2>2. CASE ListRoles(s)
      BY <1>1, <1>2, <2>2, EnforcerLists, RowAwayFrame DEF Loops
    <2>3. ASSUME NEW r \in Roles, AttachDeny(s, r) PROVE OneJob' /\ OneTag' /\ RowAway'
      BY <1>1, <1>2, <2>3, EnforcerAttaches, RowAwayFrame DEF Loops
    <2>4. ASSUME NEW r \in Roles, DetachDeny(s, r) PROVE OneJob' /\ OneTag' /\ RowAway'
      BY <1>1, <1>2, <2>4, EnforcerDetaches, RowAwayFrame DEF Loops
    <2>5. CASE PutBlockedState(s)
      <3>1. ShardOf[Rec(s).pair] = s
        BY <2>5, RecHeld DEF PutBlockedState
      <3> QED
        BY <1>1, <1>2, <2>5, <3>1, EnforcerLeaves, RowsWritten, RowAwayWrite
    <2>6. CASE FinishLift(s)
      BY <1>1, <1>2, <2>6, EnforcerLeaves, RowsWritten, RowAwayWrite
    <2> QED
      BY <1>5, <2>1, <2>2, <2>3, <2>4, <2>5, <2>6 DEF EnforcerStep
  <1>6. ASSUME NEW x \in Removers, Begins(x), UNCHANGED <<enf, stream, deny, blocked, teamOf, tag>>
        PROVE  OneJob' /\ OneTag' /\ RowAway'
    <2>1. OneJob'
      BY <1>6 DEF Begins, OthersRest, Held, OneJob
    <2> QED
      BY <1>2, <1>3, <1>6, <2>1, RowAwayFrame
  <1>7. ASSUME NEW x \in Removers, RemoverStep(x) PROVE OneJob' /\ OneTag' /\ RowAway'
    <2>1. CASE (\E j \in rem[x].queue : BeginPair(x, j)) \/ FinishRemover(x)
      BY <1>6, <2>1, RemoverBegins
    <2>2. ASSUME NEW r \in Roles, RemoveDeny(x, r) PROVE OneJob' /\ OneTag' /\ RowAway'
      <3>1. PICK j \in Job : rem[x].cur = {j}
        BY <2>2, JobHeld DEF RemoveDeny
      <3>2. /\ UNCHANGED <<enf, stream, blocked, teamOf, tag>>
            /\ OthersRest(x) /\ rem'[x].cur = {j}
        BY <2>2, <3>1, RemoverRemoves
      <3>3. OneJob'
        BY <3>2 DEF OthersRest, Held, OneJob
      <3> QED
        BY <1>2, <1>3, <3>2, <3>3, RowAwayFrame
    <2>3. CASE SettlePair(x)
      <3>1. UNCHANGED <<enf, stream, tag>> /\ OthersRest(x) /\ rem'[x].pc # "remove"
        BY <2>3, RemoverLeaves
      <3>2. OneJob'
        BY <3>1 DEF OthersRest, Held, OneJob
      <3>3. RowAway'
        <4> SUFFICES ASSUME NEW s \in Shards, enf[s].pc = "list"
                     PROVE  blocked'[Rec(s)'.pair].status # "BLOCKED"
          BY <3>1 DEF RowAway, RowOf
        <4>1. Rec(s)' = Rec(s) /\ Rec(s).pair \in Pairs
          BY <3>1, RecHeld DEF Rec
        <4> QED
          BY <2>3, <4>1, RowsWritten DEF Held, RowAway, RowOf
      <3> QED
        BY <1>2, <3>1, <3>2, <3>3
    <2> QED
      BY <1>7, <2>1, <2>2, <2>3 DEF RemoverStep
  <1>8. ASSUME NEW w \in Taggers, UNCHANGED <<enf, stream, blocked, rem>>, OthersTag(w),
               \/ tag'[w].pc = "idle"
               \/ tag'[w].role = tag[w].role /\ tag'[w].team = tag[w].team /\ tag[w].pc # "idle"
               \/ \E r \in Roles, t \in Teams : tag'[w].role = {r} /\ tag'[w].team = {t},
               tag'[w].pc # "attach" => tag'[w].todo = {}
        PROVE  OneJob' /\ OneTag' /\ RowAway'
    <2>1. OneTag'
      BY <1>8 DEF OthersTag, Held, OneTag
    <2> QED
      BY <1>1, <1>3, <1>8, <2>1, RowAwayFrame
  <1>9. ASSUME NEW w \in Taggers, TaggerStep(w) PROVE OneJob' /\ OneTag' /\ RowAway'
    <2>1. ASSUME NEW r \in Roles, NEW t \in Teams, RedeliverTagRole(w, r, t)
          PROVE  OneJob' /\ OneTag' /\ RowAway'
      BY <1>8, <2>1, TaggerCaches
    <2>2. ASSUME NEW t \in Teams, QueryBlocked(w, t) PROVE OneJob' /\ OneTag' /\ RowAway'
      BY <1>8, <2>2, TaggerQueries DEF GoesOn, Ends
    <2>3. ASSUME NEW r \in Roles, NEW me \in Policies, AttachInherited(w, r, me)
          PROVE  OneJob' /\ OneTag' /\ RowAway'
      BY <1>8, <2>3, TaggerAttaches DEF GoesOn, Ends
    <2> QED
      BY <1>9, <2>1, <2>2, <2>3 DEF TaggerStep
  <1>10. CASE Request
    <2>1. ASSUME NEW x \in Admins, NEW p \in Pairs, StartManual(x, p)
          PROVE  OneJob' /\ OneTag' /\ RowAway'
      <3>1. x \in Removers
        BY DEF Removers
      <3> QED
        BY <1>6, <2>1, <3>1, RemoverBegins
    <2>2. ASSUME NEW w \in Taggers, NEW r \in Roles, NEW t \in Teams, TagRole(w, r, t)
          PROVE  OneJob' /\ OneTag' /\ RowAway'
      BY <1>8, <2>2, TaggerCaches
    <2> QED
      BY <1>10, <2>1, <2>2 DEF Request
  <1>11. CASE Crash
    <2>1. ASSUME NEW s \in Shards, CrashEnforcer(s) PROVE OneJob' /\ OneTag' /\ RowAway'
      BY <1>1, <1>2, <2>1, EnforcerLeaves, RowsWritten, RowAwayFrame DEF LoopPcs
    <2>2. ASSUME NEW x \in Removers, CrashRemover(x) PROVE OneJob' /\ OneTag' /\ RowAway'
      <3>1. /\ UNCHANGED <<enf, stream, tag, blocked>> /\ OthersRest(x)
            /\ rem'[x].pc # "remove"
        BY <2>2, RemoverLeaves, RowsWritten
      <3>2. OneJob'
        BY <3>1 DEF OthersRest, Held, OneJob
      <3> QED
        BY <1>2, <1>3, <3>1, <3>2, RowAwayFrame
    <2>3. ASSUME NEW w \in Taggers, CrashTagger(w) PROVE OneJob' /\ OneTag' /\ RowAway'
      BY <1>8, <2>3, TaggerCrashes DEF GoesOn, Ends
    <2> QED
      BY <1>11, <2>1, <2>2, <2>3 DEF Crash
  <1>12. CASE ResetStep
    <2>1. "reset" \in Removers
      BY DEF Removers
    <2> QED
      BY <1>6, <1>12, <2>1, ResetBegins
  <1> QED
    BY <1>4, <1>5, <1>7, <1>9, <1>10, <1>11, <1>12 DEF Next

LEMMA HeldStep == Held /\ [RaceNext]_raceVars => Held'
  <1>1. Held /\ Next => Held'
    BY ShapeStep, StreamStep, HandlersStep DEF Held
  <1>2. ASSUME Held, UNCHANGED raceVars PROVE Held'
    <2>1. UNCHANGED vars
      BY <1>2 DEF raceVars
    <2>2. UNCHANGED <<enf, stream, rem, tag, blocked>>
      BY <2>1 DEF vars, tables
    <2>3. Shape'
      BY <1>2, <2>1 DEF vars, tables, history, Held, Shape, TypeOK, RowsDated, InvocationInBatch
    <2>4. RecordsInShard' /\ OneJob' /\ OneTag'
      BY <1>2, <2>2 DEF Held, RecordsInShard, OneJob, OneTag
    <2>5. RowAway'
      BY <1>2, <2>2 DEF Held, RowAway, RowOf, Rec
    <2> QED
      BY <2>3, <2>4, <2>5 DEF Held
  <1> QED
    BY <1>1, <1>2, RaceSteps

-----------------------------------------------------------------------------
(* A blocked team's roles are denied, or something has been missed.        *)

(* A tagger is about to look for the rows of the team.                     *)
Expected(t, r) ==
  \E w \in Taggers :
    tag[w].pc \in {"cache", "query"} /\ r \in tag[w].role /\ t \in tag[w].team

(* What an enforcer that is about to write the row has done so far.        *)
AttachWork ==
  \A s \in Shards : enf[s].pc = "attach" =>
    \A r \in RolesOf(Rec(s).pair[1]) :
      \/ r \in enf[s].todo \/ <<r, Rec(s).pair[2], Rec(s).endpoint>> \in deny
      \/ <<r, Rec(s).pair>> \in missed \/ Expected(Rec(s).pair[1], r)

Enforced == Held /\ AttachWork /\ EnforcedUnlessMissed

LEMMA InitEnforced == RaceInit => Enforced
  <1> SUFFICES ASSUME RaceInit PROVE Enforced
    OBVIOUS
  <1>1. AttachWork
    BY DEF RaceInit, Init, AttachWork, EnfIdle
  <1>2. EnforcedUnlessMissed
    BY DEF RaceInit, Init, EnforcedUnlessMissed, NoRow
  <1> QED
    BY InitHeld, <1>1, <1>2 DEF RaceInit, Enforced

(* The attaching loops that are under way after a step were before it.     *)
AttachesOn ==
  \A s \in Shards : enf'[s].pc = "attach" =>
    enf[s].pc = "attach" /\ Rec(s)' = Rec(s) /\ enf'[s].todo = enf[s].todo

(* The removing loops that were under way before a step are after it.      *)
LiftsOn ==
  /\ \A s \in Shards : enf[s].pc = "detach" => enf'[s].pc = "detach" /\ Rec(s)' = Rec(s)
  /\ \A x \in Removers : rem[x].pc = "remove" =>
       rem'[x].pc = "remove" /\ rem'[x].cur = rem[x].cur

LEMMA LiftingGoesOn ==
  ASSUME LiftsOn, NEW p, BeingLifted(p)
  PROVE  BeingLifted(p)'
  BY DEF LiftsOn, BeingLifted

LEMMA AttachFrame ==
  ASSUME Enforced, AttachesOn, deny \subseteq deny', missed \subseteq missed',
         UNCHANGED <<teamOf, tag>>
  PROVE  AttachWork'
  BY DEF Enforced, AttachWork, AttachesOn, RolesOf, Expected

(* A step that takes no policy away, and ends the removal of a pair only   *)
(* if its row is gone or that is on record.                                *)
LEMMA EnforcedFrame ==
  ASSUME Enforced, deny \subseteq deny', missed \subseteq missed', UNCHANGED <<teamOf, tag>>,
         \A p \in Pairs : blocked'[p] = blocked[p] \/ blocked'[p].status # "BLOCKED",
         \A p \in Pairs : BeingLifted(p) =>
           BeingLifted(p)' \/ blocked'[p].status # "BLOCKED" \/ Roles \X {p} \subseteq missed'
  PROVE  EnforcedUnlessMissed'
  <1> SUFFICES ASSUME NEW p \in Pairs, NEW r \in Roles, blocked'[p].status = "BLOCKED",
                      teamOf[r] = p[1]
               PROVE  \/ <<r, p[2], blocked'[p].endpoint>> \in deny'
                      \/ <<r, p>> \in missed'
                      \/ BeingLifted(p)' \/ BeingTagged(p, r)'
    BY DEF EnforcedUnlessMissed
  <1>1. blocked'[p] = blocked[p]
    OBVIOUS
  <1>2. BeingTagged(p, r) => BeingTagged(p, r)'
    BY <1>1 DEF BeingTagged
  <1>3. BeingLifted(p) => BeingLifted(p)' \/ <<r, p>> \in missed'
    OBVIOUS
  <1> QED
    BY <1>1, <1>2, <1>3 DEF Enforced, EnforcedUnlessMissed

(* A removal of q takes a policy of r.                                     *)
LEMMA EnforcedTakes ==
  ASSUME Enforced, NEW r \in Roles, NEW q, NEW d, NEW e, d = <<r, q[2], e>>, Takes(r, q),
         deny \subseteq deny' \cup {d}, UNCHANGED <<blocked, teamOf, tag>>,
         AttachesOn, LiftsOn, BeingLifted(q)
  PROVE  AttachWork' /\ EnforcedUnlessMissed'
  <1>1. ASSUME NEW p \in Pairs, NEW u \in Roles, NEW f, <<u, p[2], f>> \in deny,
               <<u, p[2], f>> \notin deny', teamOf[u] = p[1], p # q \/ BeingBlocked(p)
        PROVE  <<u, p>> \in missed'
    <2>1. u = r /\ p[2] = q[2]
      BY <1>1
    <2> QED
      BY <1>1, <2>1 DEF Takes
  <1>2. missed \subseteq missed'
    BY DEF Takes
  <1>3. AttachWork'
    <2> SUFFICES ASSUME NEW s \in Shards, enf'[s].pc = "attach",
                        NEW u \in Roles, teamOf[u] = Rec(s).pair[1]
                 PROVE  \/ u \in enf'[s].todo
                        \/ <<u, Rec(s).pair[2], Rec(s).endpoint>> \in deny'
                        \/ <<u, Rec(s).pair>> \in missed' \/ Expected(Rec(s).pair[1], u)
      BY DEF AttachWork, AttachesOn, RolesOf, Expected
    <2>1. enf[s].pc = "attach" /\ enf'[s].todo = enf[s].todo
      BY DEF AttachesOn
    <2>2. Rec(s).pair \in Pairs /\ BeingBlocked(Rec(s).pair)
      BY <2>1, RecHeld DEF Enforced, BeingBlocked
    <2>3. u \in RolesOf(Rec(s).pair[1])
      BY DEF RolesOf
    <2> QED
      BY <1>1, <1>2, <2>1, <2>2, <2>3 DEF Enforced, AttachWork
  <1>4. EnforcedUnlessMissed'
    <2> SUFFICES ASSUME NEW p \in Pairs, NEW u \in Roles, blocked[p].status = "BLOCKED",
                        teamOf[u] = p[1]
                 PROVE  \/ <<u, p[2], blocked[p].endpoint>> \in deny'
                        \/ <<u, p>> \in missed'
                        \/ BeingLifted(p)' \/ BeingTagged(p, u)
      BY DEF EnforcedUnlessMissed, BeingTagged
    <2>1. BeingLifted(p) => BeingLifted(p)'
      BY LiftingGoesOn
    <2> QED
      BY <1>1, <1>2, <2>1 DEF Enforced, EnforcedUnlessMissed
  <1> QED
    BY <1>3, <1>4

LEMMA EnforcedOthers ==
  ASSUME Enforced, OtherStep, UNCHANGED <<missed, stray, outdated>>
  PROVE  AttachWork' /\ EnforcedUnlessMissed'
  <1>0. Held
    BY DEF Enforced
  <1>1. ASSUME AttachesOn, LiftsOn, UNCHANGED <<blocked, deny, teamOf, tag>>
        PROVE  AttachWork' /\ EnforcedUnlessMissed'
    <2>1. deny \subseteq deny' /\ missed \subseteq missed' /\ UNCHANGED <<teamOf, tag>>
      BY <1>1
    <2>2. AttachWork'
      BY <1>1, <2>1, AttachFrame
    <2>3. \A p \in Pairs : BeingLifted(p) => BeingLifted(p)'
      BY <1>1, LiftingGoesOn
    <2>4. EnforcedUnlessMissed'
      BY <1>1, <2>1, <2>3, EnforcedFrame
    <2> QED
      BY <2>2, <2>4
  <1>2. CASE MeteringAndEdits
    <2>1. AllWait /\ UNCHANGED <<blocked, deny, teamOf, rem, tag>>
      BY <1>0, <1>2, EnvironmentWaits, MeteringIsEnvironment
    <2>2. AttachesOn
      BY <2>1 DEF AllWait, AtWork, AttachesOn
    <2>3. LiftsOn
      BY <2>1 DEF AllWait, AtWork, LiftsOn
    <2> QED
      BY <1>1, <1>2, <2>1, <2>2, <2>3
  <1>3. ASSUME NEW s \in Shards,
               StartBatch(s) \/ SkipRecord(s) \/ ReadQuota(s) \/ CheckBlocked(s)
                 \/ LiftGuard(s) \/ FinishBatch(s)
        PROVE  AttachWork' /\ EnforcedUnlessMissed'
    <2>1. Roams(s) /\ UNCHANGED <<deny, blocked, teamOf, rem, tag>>
      BY <1>0, <1>3, EnforcerRoams
    <2>2. AttachesOn
      BY <2>1 DEF Roams, OthersWait, AtWork, LoopPcs, AttachesOn
    <2>3. LiftsOn
      BY <2>1 DEF Roams, OthersWait, AtWork, LoopPcs, LiftsOn
    <2> QED
      BY <1>1, <2>1, <2>2, <2>3
  <1>4. ASSUME NEW x \in Removers, Begins(x), UNCHANGED <<enf, stream, deny, blocked, teamOf, tag>>
        PROVE  AttachWork' /\ EnforcedUnlessMissed'
    <2>1. \A z \in Shards : enf'[z] = enf[z] /\ Rec(z)' = Rec(z)
      BY <1>4 DEF Rec
    <2>2. AttachesOn
      BY <2>1 DEF AttachesOn
    <2>3. LiftsOn
      BY <1>4, <2>1 DEF Begins, OthersRest, LiftsOn
    <2> QED
      BY <1>1, <1>4, <2>2, <2>3
  <1>5. CASE ResetStep
    <2>1. "reset" \in Removers
      BY DEF Removers
    <2> QED
      BY <1>0, <1>4, <1>5, <2>1, ResetBegins
  <1>6. CASE \E x \in Removers : (\E j \in rem[x].queue : BeginPair(x, j)) \/ FinishRemover(x)
    BY <1>0, <1>4, <1>6, RemoverBegins
  <1>7. ASSUME NEW x \in Admins, NEW p \in Pairs, StartManual(x, p)
        PROVE  AttachWork' /\ EnforcedUnlessMissed'
    <2>1. x \in Removers
      BY DEF Removers
    <2> QED
      BY <1>0, <1>4, <1>7, <2>1, RemoverBegins
  <1> QED
    BY <1>2, <1>3, <1>5, <1>6, <1>7 DEF OtherStep

LEMMA EnforcedListRoles ==
  ASSUME Enforced, NEW s \in Shards, RaceListRoles(s)
  PROVE  AttachWork' /\ EnforcedUnlessMissed'
  <1>0. Held /\ AtWork(s) /\ ListRoles(s)
    BY DEF Enforced, RaceListRoles, ListRoles, AtWork
  <1>1. UNCHANGED <<deny, blocked, teamOf, rem, tag>>
    BY <1>0, EnforcerLists
  <1>2. CASE enf[s].pc = "liftList" /\ Loops(s, "detach", RolesOf(Rec(s).pair[1]), FALSE)
    <2>1. AttachesOn /\ LiftsOn
      BY <1>1, <1>2 DEF Loops, OthersWait, AtWork, AttachesOn, LiftsOn
    <2>2. missed' = missed
      BY <1>2 DEF RaceListRoles
    <2> QED
      BY <1>1, <2>1, <2>2, AttachFrame, EnforcedFrame, LiftingGoesOn
  <1>3. CASE enf[s].pc = "list" /\ Loops(s, "attach", RolesOf(Rec(s).pair[1]), FALSE)
    <2>1. LiftsOn
      BY <1>1, <1>3 DEF Loops, OthersWait, AtWork, LiftsOn
    <2>2. missed' = missed \ (Roles \X {Rec(s).pair})
      BY <1>3 DEF RaceListRoles
    <2>3. blocked[Rec(s).pair].status # "BLOCKED"
      BY <1>0, <1>3 DEF Held, RowAway, RowOf
    <2>4. EnforcedUnlessMissed'
      <3> SUFFICES ASSUME NEW p \in Pairs, NEW r \in Roles, blocked[p].status = "BLOCKED",
                          teamOf[r] = p[1]
                   PROVE  \/ <<r, p[2], blocked[p].endpoint>> \in deny
                          \/ <<r, p>> \in missed'
                          \/ BeingLifted(p)' \/ BeingTagged(p, r)
        BY <1>1 DEF EnforcedUnlessMissed, BeingTagged
      <3>1. <<r, p>> \in missed => <<r, p>> \in missed'
        BY <2>2, <2>3
      <3> QED
        BY <2>1, <3>1, LiftingGoesOn DEF Enforced, EnforcedUnlessMissed
    <2>5. AttachWork'
      <3> SUFFICES ASSUME NEW z \in Shards, enf'[z].pc = "attach",
                          NEW r \in RolesOf(Rec(z)'.pair[1])
                   PROVE  \/ r \in enf'[z].todo
                          \/ <<r, Rec(z)'.pair[2], Rec(z)'.endpoint>> \in deny
                          \/ <<r, Rec(z)'.pair>> \in missed' \/ Expected(Rec(z)'.pair[1], r)
        BY <1>1 DEF AttachWork, RolesOf, Expected
      <3>1. CASE z = s
        BY <1>3, <3>1 DEF Loops
      <3>2. CASE z # s
        <4>1. enf'[z] = enf[z] /\ Rec(z)' = Rec(z)
          BY <1>3, <3>2 DEF Loops, OthersWait, AtWork
        <4>2. Rec(z).pair # Rec(s).pair
          BY <1>0, <1>3, <3>2, <4>1, RecHeld
        <4>3. <<r, Rec(z).pair>> \in missed => <<r, Rec(z).pair>> \in missed'
          BY <2>2, <4>2
        <4> QED
          BY <4>1, <4>3 DEF Enforced, AttachWork
      <3> QED
        BY <3>1, <3>2
    <2> QED
      BY <2>4, <2>5
  <1> QED
    BY <1>0, <1>2, <1>3, EnforcerLists

LEMMA EnforcedAttachDeny ==
  ASSUME Enforced, NEW s \in Shards, NEW r \in Roles, RaceAttachDeny(s, r)
  PROVE  AttachWork' /\ EnforcedUnlessMissed'
  <1>0. Held /\ AttachDeny(s, r)
    BY DEF Enforced, RaceAttachDeny
  <1>1. PICK d : d = <<r, Rec(s).pair[2], Rec(s).endpoint>>
    OBVIOUS
  <1>2. /\ UNCHANGED <<blocked, teamOf, rem, tag>> /\ enf[s].pc = "attach"
        /\ deny \subseteq deny' /\ (left' = left => d \in deny')
        /\ \E b \in BOOLEAN : Loops(s, "attach", enf[s].todo \ {r}, b)
    BY <1>0, <1>1, EnforcerAttaches
  <1>3. missed \subseteq missed' /\ (d \in deny' \/ <<r, Rec(s).pair>> \in missed')
    BY <1>2 DEF RaceAttachDeny
  <1>4. LiftsOn
    BY <1>2 DEF Loops, OthersWait, AtWork, LiftsOn
  <1>5. EnforcedUnlessMissed'
    <2>1. \A p \in Pairs : BeingLifted(p) => BeingLifted(p)'
      BY <1>4, LiftingGoesOn
    <2> QED
      BY <1>2, <1>3, <2>1, EnforcedFrame
  <1>6. AttachWork'
    <2> SUFFICES ASSUME NEW z \in Shards, enf'[z].pc = "attach",
                        NEW u \in RolesOf(Rec(z)'.pair[1])
                 PROVE  \/ u \in enf'[z].todo
                        \/ <<u, Rec(z)'.pair[2], Rec(z)'.endpoint>> \in deny'
                        \/ <<u, Rec(z)'.pair>> \in missed' \/ Expected(Rec(z)'.pair[1], u)
      BY <1>2 DEF AttachWork, RolesOf, Expected
    <2>1. /\ Rec(z)' = Rec(z) /\ enf[z].pc = "attach"
          /\ enf'[z].todo = enf[z].todo \/ (z = s /\ enf'[z].todo = enf[z].todo \ {r})
      <3>1. CASE z = s
        BY <1>2, <3>1 DEF Loops
      <3>2. CASE z # s
        BY <1>2, <3>2 DEF Loops, OthersWait, AtWork
      <3> QED
        BY <3>1, <3>2
    <2>2. \/ u \in enf[z].todo \/ <<u, Rec(z).pair[2], Rec(z).endpoint>> \in deny
          \/ <<u, Rec(z).pair>> \in missed \/ Expected(Rec(z).pair[1], u)
      BY <2>1 DEF Enforced, AttachWork
    <2>3. CASE z = s /\ u = r
      BY <1>1, <1>3, <2>1, <2>3
    <2>4. CASE ~(z = s /\ u = r)
      BY <1>2, <1>3, <2>1, <2>2, <2>4
    <2> QED
      BY <2>3, <2>4
  <1> QED
    BY <1>5, <1>6

LEMMA EnforcedPut ==
  ASSUME Enforced, NEW s \in Shards, RacePutBlockedState(s)
  PROVE  AttachWork' /\ EnforcedUnlessMissed'
  <1>0. Held /\ PutBlockedState(s) /\ missed' = missed
    BY DEF Enforced, RacePutBlockedState
  <1>1. /\ UNCHANGED <<deny, teamOf, rem, tag>> /\ enf[s].pc = "attach" /\ enf[s].todo = {}
        /\ OthersWait(s) /\ enf'[s].pc \notin LoopPcs \cup {"list"}
    BY <1>0, EnforcerLeaves DEF PutBlockedState
  <1>2. PICK q, e : q = Rec(s).pair /\ e = Rec(s).endpoint
    OBVIOUS
  <1>3. q \in Pairs /\ blocked \in [Pairs -> Row]
    BY <1>0, <1>1, <1>2, RecHeld DEF Held, Shape, TypeOK
  <1>4. /\ blocked'[q].endpoint = e
        /\ \A p \in Pairs : p # q => blocked'[p] = blocked[p]
    BY <1>0, <1>2, <1>3 DEF PutBlockedState
  <1>5. AttachWork'
    <2>1. AttachesOn
      BY <1>1 DEF OthersWait, AtWork, LoopPcs, AttachesOn
    <2> QED
      BY <1>0, <1>1, <2>1, AttachFrame
  <1>6. LiftsOn
    BY <1>1 DEF OthersWait, AtWork, LiftsOn
  <1>7. EnforcedUnlessMissed'
    <2> SUFFICES ASSUME NEW p \in Pairs, NEW r \in Roles, blocked'[p].status = "BLOCKED",
                        teamOf[r] = p[1]
                 PROVE  \/ <<r, p[2], blocked'[p].endpoint>> \in deny
                        \/ <<r, p>> \in missed
                        \/ BeingLifted(p)' \/ BeingTagged(p, r)'
      BY <1>0, <1>1 DEF EnforcedUnlessMissed
    <2>1. CASE p = q
      <3>1. r \in RolesOf(q[1])
        BY <2>1 DEF RolesOf
      <3>2. <<r, q[2], e>> \in deny \/ <<r, q>> \in missed \/ Expected(q[1], r)
        BY <1>1, <1>2, <3>1 DEF Enforced, AttachWork
      <3>3. Expected(q[1], r) => BeingTagged(q, r)'
        BY <1>1 DEF Expected, BeingTagged
      <3> QED
        BY <1>4, <2>1, <3>2, <3>3
    <2>2. CASE p # q
      <3>1. blocked'[p] = blocked[p]
        BY <1>4, <2>2
      <3>2. BeingTagged(p, r) => BeingTagged(p, r)'
        BY <1>1, <3>1 DEF BeingTagged
      <3> QED
        BY <1>6, <3>1, <3>2, LiftingGoesOn DEF Enforced, EnforcedUnlessMissed
    <2> QED
      BY <2>1, <2>2
  <1> QED
    BY <1>5, <1>7

LEMMA EnforcedDetach ==
  ASSUME Enforced, NEW s \in Shards, NEW r \in Roles, RaceDetachDeny(s, r)
  PROVE  AttachWork' /\ EnforcedUnlessMissed'
  <1>0. Held /\ DetachDeny(s, r)
    BY DEF Enforced, RaceDetachDeny
  <1>1. PICK q, e, d : q = Rec(s).pair /\ e = Rec(s).endpoint /\ d = <<r, q[2], e>>
    OBVIOUS
  <1>2. /\ UNCHANGED <<blocked, teamOf, rem, tag>> /\ enf[s].pc = "detach"
        /\ deny \subseteq deny' \cup {d}
        /\ \E b : Loops(s, "detach", enf[s].todo \ {r}, b)
    BY <1>0, <1>1, EnforcerDetaches
  <1>3. Takes(r, q)
    BY <1>1 DEF RaceDetachDeny
  <1>4. AttachesOn
    BY <1>2 DEF Loops, OthersWait, AtWork, AttachesOn
  <1>5. LiftsOn
    BY <1>2 DEF Loops, OthersWait, AtWork, LiftsOn
  <1>6. BeingLifted(q)
    BY <1>1, <1>2 DEF BeingLifted
  <1> QED
    BY <1>1, <1>2, <1>3, <1>4, <1>5, <1>6, EnforcedTakes

LEMMA EnforcedRemove ==
  ASSUME Enforced, NEW x \in Removers, NEW r \in Roles, RaceRemoveDeny(x, r)
  PROVE  AttachWork' /\ EnforcedUnlessMissed'
  <1>0. Held /\ RemoveDeny(x, r) /\ rem[x].pc = "remove"
    BY DEF Enforced, RaceRemoveDeny, RemoveDeny
  <1>1. PICK j : rem[x].cur = {j}
    BY <1>0, JobHeld
  <1>2. PICK q, e, d : q = j.pair /\ e = j.endpoint /\ d = <<r, q[2], e>>
    OBVIOUS
  <1>3. /\ UNCHANGED <<enf, stream, blocked, teamOf, tag>> /\ deny \subseteq deny' \cup {d}
        /\ OthersRest(x) /\ rem'[x].pc = "remove" /\ rem'[x].cur = rem[x].cur
    BY <1>0, <1>1, <1>2, RemoverRemoves
  <1>4. Takes(r, q)
    BY <1>1, <1>2 DEF RaceRemoveDeny
  <1>5. AttachesOn /\ LiftsOn
    <2>1. \A z \in Shards : enf'[z] = enf[z] /\ Rec(z)' = Rec(z)
      BY <1>3 DEF Rec
    <2> QED
      BY <1>3, <2>1 DEF OthersRest, AttachesOn, LiftsOn
  <1>6. BeingLifted(q)
    BY <1>0, <1>1, <1>2 DEF BeingLifted
  <1> QED
    BY <1>2, <1>3, <1>4, <1>5, <1>6, EnforcedTakes

(* A loop of x ends: other loops go on.                                    *)
LEMMA OthersLift ==
  ASSUME NEW p, BeingLifted(p),
         \A z \in Shards : enf[z].pc = "detach" =>
           (enf'[z].pc = "detach" /\ Rec(z)' = Rec(z)) \/ Rec(z).pair # p,
         \A x \in Removers : rem[x].pc = "remove" =>
           (rem'[x].pc = "remove" /\ rem'[x].cur = rem[x].cur)
             \/ \A j \in rem[x].cur : j.pair # p
  PROVE  BeingLifted(p)'
  BY DEF BeingLifted

LEMMA EnforcedEnforcerLeaves ==
  ASSUME Enforced, NEW s \in Shards, RaceFinishLift(s) \/ RaceCrashEnforcer(s)
  PROVE  AttachWork' /\ EnforcedUnlessMissed'
  <1>0. Held /\ (FinishLift(s) \/ CrashEnforcer(s))
    BY DEF Enforced, RaceFinishLift, RaceCrashEnforcer
  <1>1. /\ UNCHANGED <<deny, teamOf, rem, tag>>
        /\ OthersWait(s) /\ enf'[s].pc \notin LoopPcs \cup {"list"}
    BY <1>0, EnforcerLeaves
  <1>2. blocked \in [Pairs -> Row]
    BY <1>0 DEF Held, Shape, TypeOK
  <1>3. missed \subseteq missed'
    BY DEF RaceFinishLift, RaceCrashEnforcer
  <1>4. \A p \in Pairs : blocked'[p] = blocked[p] \/ blocked'[p].status # "BLOCKED"
    BY <1>0, <1>2 DEF FinishLift, CrashEnforcer, checkpointUnchanged, NoRow
  <1>5. enf[s].pc = "detach" => /\ Rec(s).pair \in Pairs
                                /\ \/ Roles \X {Rec(s).pair} \subseteq missed'
                                   \/ blocked'[Rec(s).pair].status # "BLOCKED"
    <2> SUFFICES ASSUME enf[s].pc = "detach"
                 PROVE  /\ Rec(s).pair \in Pairs
                        /\ \/ Roles \X {Rec(s).pair} \subseteq missed'
                           \/ blocked'[Rec(s).pair].status # "BLOCKED"
      OBVIOUS
    <2>1. Rec(s).pair \in Pairs
      BY <1>0, RecHeld
    <2>2. CASE RaceCrashEnforcer(s)
      BY <2>1, <2>2 DEF RaceCrashEnforcer
    <2>3. CASE RaceFinishLift(s) /\ enf[s].failed
      BY <2>1, <2>3 DEF RaceFinishLift
    <2>4. CASE RaceFinishLift(s) /\ ~enf[s].failed
      <3>1. blocked'[Rec(s).pair] = NoRow
        BY <1>2, <2>1, <2>4 DEF RaceFinishLift, FinishLift
      <3> QED
        BY <2>1, <3>1 DEF NoRow
    <2> QED
      BY <2>2, <2>3, <2>4
  <1>6. AttachesOn
    BY <1>1 DEF OthersWait, AtWork, LoopPcs, AttachesOn
  <1>7. ASSUME NEW p \in Pairs, BeingLifted(p)
        PROVE  BeingLifted(p)' \/ blocked'[p].status # "BLOCKED" \/ Roles \X {p} \subseteq missed'
    <2>1. CASE enf[s].pc = "detach" /\ Rec(s).pair = p
      BY <1>5, <2>1
    <2>2. CASE ~(enf[s].pc = "detach" /\ Rec(s).pair = p)
      BY <1>1, <1>7, <2>2, OthersLift DEF OthersWait, AtWork
    <2> QED
      BY <2>1, <2>2
  <1>8. deny \subseteq deny' /\ UNCHANGED <<teamOf, tag>>
    BY <1>1
  <1>9. AttachWork'
    BY <1>3, <1>6, <1>8, AttachFrame
  <1>10. EnforcedUnlessMissed'
    BY <1>3, <1>4, <1>7, <1>8, EnforcedFrame
  <1> QED
    BY <1>9, <1>10

LEMMA EnforcedRemoverLeaves ==
  ASSUME Enforced, NEW x \in Removers, RaceSettlePair(x) \/ RaceCrashRemover(x)
  PROVE  AttachWork' /\ EnforcedUnlessMissed'
  <1>0. Held /\ (SettlePair(x) \/ CrashRemover(x))
    BY DEF Enforced, RaceSettlePair, RaceCrashRemover
  <1>1. UNCHANGED <<enf, stream, deny, teamOf, tag>> /\ OthersRest(x)
    BY <1>0, RemoverLeaves
  <1>2. blocked \in [Pairs -> Row]
    BY <1>0 DEF Held, Shape, TypeOK
  <1>3. missed \subseteq missed'
    BY DEF RaceSettlePair, RaceCrashRemover
  <1>4. \A p \in Pairs : blocked'[p] = blocked[p] \/ blocked'[p].status # "BLOCKED"
    <2>1. CrashRemover(x) => blocked' = blocked
      BY DEF CrashRemover
    <2> QED
      BY <1>0, <2>1, RowsWritten
  <1>5. ASSUME NEW j \in rem[x].cur, rem[x].pc = "remove", rem[x].cur = {j}, j.pair \in Pairs
        PROVE  Roles \X {j.pair} \subseteq missed' \/ blocked'[j.pair].status # "BLOCKED"
    <2>1. CASE RaceCrashRemover(x)
      BY <1>5, <2>1 DEF RaceCrashRemover
    <2>2. CASE RaceSettlePair(x)
      <3>1. NoRow.status = "NONE"
        BY DEF NoRow
      <3>2. PICK k, row : /\ rem[x].cur = {k} /\ row.status # "BLOCKED"
                          /\ blocked' = [blocked EXCEPT ![k.pair] = row]
        BY <1>0, <2>2, <3>1, Settles DEF RaceSettlePair
      <3> QED
        BY <1>2, <1>5, <3>2
    <2> QED
      BY <2>1, <2>2
  <1>6. \A z \in Shards : enf'[z] = enf[z] /\ Rec(z)' = Rec(z)
    BY <1>1 DEF Rec
  <1>7. ASSUME NEW p \in Pairs, BeingLifted(p)
        PROVE  BeingLifted(p)' \/ blocked'[p].status # "BLOCKED" \/ Roles \X {p} \subseteq missed'
    <2>1. CASE rem[x].pc = "remove" /\ \E j \in rem[x].cur : j.pair = p
      <3>1. PICK j : rem[x].cur = {j} /\ j.pair \in Pairs
        BY <1>0, <2>1, JobHeld
      <3> QED
        BY <1>5, <2>1, <3>1
    <2>2. CASE ~(rem[x].pc = "remove" /\ \E j \in rem[x].cur : j.pair = p)
      BY <1>1, <1>6, <1>7, <2>2, OthersLift DEF OthersRest
    <2> QED
      BY <2>1, <2>2
  <1>8. deny \subseteq deny' /\ UNCHANGED <<teamOf, tag>>
    BY <1>1
  <1>9. AttachWork'
    BY <1>3, <1>6, <1>8, AttachFrame DEF AttachesOn
  <1>10. EnforcedUnlessMissed'
    BY <1>3, <1>4, <1>7, <1>8, EnforcedFrame
  <1> QED
    BY <1>9, <1>10

(* A step of a tagger or of another writer of the cache: a role that joins *)
(* a team is on record or expected, and so is one a tagger is done with.   *)
LEMMA EnforcedCache ==
  ASSUME Enforced, UNCHANGED <<enf, stream, rem, blocked>>, deny \subseteq deny',
         missed \subseteq missed',
         \A u \in Roles, p \in Pairs :
           teamOf'[u] = p[1] /\ teamOf[u] # p[1] => <<u, p>> \in missed' \/ Expected(p[1], u)',
         \A u \in Roles, p \in Pairs :
           Expected(p[1], u) => Expected(p[1], u)' \/ (BeingBlocked(p) => <<u, p>> \in missed'),
         \A u \in Roles, p \in Pairs :
           BeingTagged(p, u) => \/ BeingTagged(p, u)' \/ <<u, p>> \in missed'
                                \/ <<u, p[2], blocked[p].endpoint>> \in deny'
                                \/ blocked[p].status # "BLOCKED"
  PROVE  AttachWork' /\ EnforcedUnlessMissed'
  <1>1. AttachWork'
    <2> SUFFICES ASSUME NEW s \in Shards, enf[s].pc = "attach", NEW p, p = Rec(s).pair,
                        NEW u \in Roles, teamOf'[u] = p[1]
                 PROVE  \/ u \in enf[s].todo
                        \/ <<u, p[2], Rec(s).endpoint>> \in deny'
                        \/ <<u, p>> \in missed' \/ Expected(p[1], u)'
      BY DEF AttachWork, RolesOf, Rec
    <2>1. p = Rec(s).pair
      OBVIOUS
    <2>2. p \in Pairs /\ BeingBlocked(p)
      BY <2>1, RecHeld DEF Enforced, BeingBlocked
    <2>3. CASE teamOf[u] = p[1]
      <3>1. \/ u \in enf[s].todo \/ <<u, p[2], Rec(s).endpoint>> \in deny
            \/ <<u, p>> \in missed \/ Expected(p[1], u)
        BY <2>1, <2>3 DEF Enforced, AttachWork, RolesOf
      <3> QED
        BY <2>1, <2>2, <3>1
    <2>4. CASE teamOf[u] # p[1]
      BY <2>1, <2>2, <2>4
    <2> QED
      BY <2>3, <2>4
  <1>2. EnforcedUnlessMissed'
    <2> SUFFICES ASSUME NEW p \in Pairs, NEW u \in Roles, blocked[p].status = "BLOCKED",
                        teamOf'[u] = p[1]
                 PROVE  \/ <<u, p[2], blocked[p].endpoint>> \in deny'
                        \/ <<u, p>> \in missed'
                        \/ BeingLifted(p)' \/ BeingTagged(p, u)'
      BY DEF EnforcedUnlessMissed
    <2>1. BeingLifted(p) => BeingLifted(p)'
      BY DEF BeingLifted, Rec
    <2>2. Expected(p[1], u)' => BeingTagged(p, u)'
      BY DEF Expected, BeingTagged
    <2>3. CASE teamOf[u] = p[1]
      <3>1. \/ <<u, p[2], blocked[p].endpoint>> \in deny
            \/ <<u, p>> \in missed
            \/ BeingLifted(p) \/ BeingTagged(p, u)
        BY <2>3 DEF Enforced, EnforcedUnlessMissed
      <3> QED
        BY <2>1, <3>1
    <2>4. CASE teamOf[u] # p[1]
      BY <2>2, <2>4
    <2> QED
      BY <2>3, <2>4
  <1> QED
    BY <1>1, <1>2

LEMMA EnforcedRemap ==
  ASSUME Enforced, NEW r \in Roles, NEW t, RaceRemap(r, t)
  PROVE  AttachWork' /\ EnforcedUnlessMissed'
  <1>1. /\ UNCHANGED <<enf, stream, rem, blocked, deny, tag>>
        /\ teamOf' = [teamOf EXCEPT ![r] = t]
    BY DEF RaceRemap, Remap, tables
  <1>2. missed' = missed \cup ({r} \X PairsOf(t))
    BY DEF RaceRemap
  <1>3. teamOf \in [Roles -> Teams \cup {NoTeam}]
    BY DEF Enforced, Held, Shape, TypeOK
  <1>4. ASSUME NEW u \in Roles, NEW p \in Pairs, teamOf'[u] = p[1], teamOf[u] # p[1]
        PROVE  <<u, p>> \in missed'
    <2>1. u = r /\ p[1] = t
      BY <1>1, <1>3, <1>4
    <2> QED
      BY <1>2, <2>1 DEF PairsOf
  <1>5. ASSUME NEW u \in Roles, NEW p \in Pairs
        PROVE  Expected(p[1], u)' = Expected(p[1], u) /\ BeingTagged(p, u)' = BeingTagged(p, u)
    BY <1>1 DEF Expected, BeingTagged
  <1> QED
    BY <1>1, <1>2, <1>4, <1>5, EnforcedCache

LEMMA EnforcedTags ==
  ASSUME Enforced, NEW w \in Taggers, NEW r \in Roles, NEW t \in Teams,
         RaceTagRole(w, r, t) \/ RaceRedeliver(w, r, t)
  PROVE  AttachWork' /\ EnforcedUnlessMissed'
  <1>0. Held /\ (TagRole(w, r, t) \/ RedeliverTagRole(w, r, t)) /\ missed' = missed
    BY DEF Enforced, RaceTagRole, RaceRedeliver, RaceCacheRole
  <1>1. /\ UNCHANGED <<enf, stream, blocked, rem, deny>>
        /\ teamOf' = [teamOf EXCEPT ![r] = t]
        /\ OthersTag(w)
        /\ tag'[w].pc = "query" /\ tag'[w].role = {r} /\ tag'[w].team = {t}
        /\ \/ tag[w].pc = "idle"
           \/ tag[w].pc = "cache" /\ tag[w].role = {r} /\ tag[w].team = {t}
    BY <1>0, TaggerCaches
  <1>2. teamOf \in [Roles -> Teams \cup {NoTeam}]
    BY DEF Enforced, Held, Shape, TypeOK
  <1>3. Expected(t, r)'
    BY <1>1 DEF Expected
  <1>4. ASSUME NEW u \in Roles, NEW p \in Pairs, teamOf'[u] = p[1], teamOf[u] # p[1]
        PROVE  Expected(p[1], u)'
    <2>1. u = r /\ p[1] = t
      BY <1>1, <1>2, <1>4
    <2> QED
      BY <1>3, <2>1
  <1>5. ASSUME NEW u \in Roles, NEW p \in Pairs, Expected(p[1], u) PROVE Expected(p[1], u)'
    <2>1. PICK v \in Taggers : /\ tag[v].pc \in {"cache", "query"}
                               /\ u \in tag[v].role /\ p[1] \in tag[v].team
      BY <1>5 DEF Expected
    <2>2. CASE v = w
      BY <1>1, <1>3, <2>1, <2>2
    <2>3. CASE v # w
      BY <1>1, <2>1, <2>3 DEF OthersTag, Expected
    <2> QED
      BY <2>2, <2>3
  <1>6. ASSUME NEW u \in Roles, NEW p \in Pairs, BeingTagged(p, u) PROVE BeingTagged(p, u)'
    <2>1. PICK v \in Taggers : /\ u \in tag[v].role /\ p[1] \in tag[v].team
                               /\ \/ tag[v].pc \in {"cache", "query"}
                                  \/ /\ tag[v].pc = "attach"
                                     /\ <<p[2], blocked[p].endpoint>> \in tag[v].todo
      BY <1>6 DEF BeingTagged
    <2>2. CASE v = w
      BY <1>1, <2>1, <2>2 DEF BeingTagged
    <2>3. CASE v # w
      BY <1>1, <2>1, <2>3 DEF OthersTag, BeingTagged
    <2> QED
      BY <2>2, <2>3
  <1> QED
    BY <1>0, <1>1, <1>4, <1>5, <1>6, EnforcedCache

(* A tagger that goes on or ends: the roles of the others.                 *)
LEMMA OthersExpect ==
  ASSUME NEW w \in Taggers, OthersTag(w), blocked' = blocked, NEW u, NEW p
  PROVE  /\ Expected(p[1], u) => \/ Expected(p[1], u)'
                                 \/ /\ tag[w].pc \in {"cache", "query"}
                                    /\ u \in tag[w].role /\ p[1] \in tag[w].team
         /\ BeingTagged(p, u) => \/ BeingTagged(p, u)'
                                 \/ /\ u \in tag[w].role /\ p[1] \in tag[w].team
                                    /\ \/ tag[w].pc \in {"cache", "query"}
                                       \/ /\ tag[w].pc = "attach"
                                          /\ <<p[2], blocked[p].endpoint>> \in tag[w].todo
  BY DEF OthersTag, Expected, BeingTagged

LEMMA EnforcedQuery ==
  ASSUME Enforced, NEW w \in Taggers, NEW t \in Teams, RaceQueryBlocked(w, t)
  PROVE  AttachWork' /\ EnforcedUnlessMissed'
  <1>0. /\ Held /\ QueryBlocked(w, t)
        /\ missed' = missed \cup (tag[w].role \X {p \in PairsOf(t) : BeingBlocked(p)})
    BY DEF Enforced, RaceQueryBlocked
  <1>1. /\ UNCHANGED <<enf, stream, blocked, rem, deny, teamOf>>
        /\ tag[w].pc = "query" /\ tag[w].team = {t} /\ OthersTag(w)
        /\ \/ \A m \in Models : blocked[<<t, m>>].status # "BLOCKED"
           \/ \E todo : /\ GoesOn(w, "attach", todo)
                        /\ \A m \in Models : blocked[<<t, m>>].status = "BLOCKED"
                              => <<m, blocked[<<t, m>>].endpoint>> \in todo
    BY <1>0, TaggerQueries DEF Ends, GoesOn
  <1>2. ASSUME NEW u \in Roles, NEW p \in Pairs, Expected(p[1], u)
        PROVE  Expected(p[1], u)' \/ (BeingBlocked(p) => <<u, p>> \in missed')
    <2>1. CASE u \in tag[w].role /\ p[1] \in tag[w].team
      <3>1. p \in PairsOf(t)
        BY <1>1, <2>1 DEF PairsOf
      <3> QED
        BY <1>0, <2>1, <3>1
    <2> QED
      BY <1>1, <1>2, <2>1, OthersExpect
  <1>3. ASSUME NEW u \in Roles, NEW p \in Pairs, BeingTagged(p, u), blocked[p].status = "BLOCKED"
        PROVE  BeingTagged(p, u)'
    <2>1. CASE u \in tag[w].role /\ p[1] \in tag[w].team
      <3>1. p[2] \in Models /\ p = <<t, p[2]>>
        BY <1>1, <2>1 DEF Pairs
      <3>2. PICK todo : GoesOn(w, "attach", todo) /\ <<p[2], blocked[p].endpoint>> \in todo
        BY <1>1, <1>3, <3>1
      <3> QED
        BY <1>1, <2>1, <3>2 DEF GoesOn, BeingTagged
    <2> QED
      BY <1>1, <1>3, <2>1, OthersExpect
  <1> QED
    BY <1>0, <1>1, <1>2, <1>3, EnforcedCache

LEMMA EnforcedInherits ==
  ASSUME Enforced, NEW w \in Taggers, NEW r \in Roles, NEW me \in Policies,
         RaceAttachInherited(w, r, me)
  PROVE  AttachWork' /\ EnforcedUnlessMissed'
  <1>0. Held /\ AttachInherited(w, r, me) /\ missed' = missed
    BY DEF Enforced, RaceAttachInherited
  <1>1. /\ UNCHANGED <<enf, stream, blocked, rem, teamOf>>
        /\ tag[w].pc = "attach" /\ tag[w].role = {r} /\ me \in tag[w].todo /\ OthersTag(w)
        /\ deny \subseteq deny' /\ <<r, me[1], me[2]>> \in deny'
        /\ \/ tag[w].todo = {me}
           \/ GoesOn(w, "attach", tag[w].todo \ {me})
    BY <1>0, TaggerAttaches DEF Ends, GoesOn
  <1>2. ASSUME NEW u \in Roles, NEW p \in Pairs, Expected(p[1], u) PROVE Expected(p[1], u)'
    BY <1>1, <1>2, OthersExpect
  <1>3. ASSUME NEW u \in Roles, NEW p \in Pairs, BeingTagged(p, u)
        PROVE  BeingTagged(p, u)' \/ <<u, p[2], blocked[p].endpoint>> \in deny'
    <2>1. CASE /\ u \in tag[w].role /\ p[1] \in tag[w].team
               /\ <<p[2], blocked[p].endpoint>> \in tag[w].todo
      <3>1. CASE <<p[2], blocked[p].endpoint>> = me
        BY <1>1, <2>1, <3>1
      <3>2. CASE <<p[2], blocked[p].endpoint>> # me
        BY <1>1, <2>1, <3>2 DEF GoesOn, BeingTagged
      <3> QED
        BY <3>1, <3>2
    <2> QED
      BY <1>1, <1>3, <2>1, OthersExpect
  <1> QED
    BY <1>0, <1>1, <1>2, <1>3, EnforcedCache

LEMMA EnforcedCrashTagger ==
  ASSUME Enforced, NEW w \in Taggers, RaceCrashTagger(w)
  PROVE  AttachWork' /\ EnforcedUnlessMissed'
  <1>0. /\ Held /\ CrashTagger(w) /\ missed \subseteq missed'
        /\ tag[w].tries >= Attempts =>
             tag[w].role \X {p \in Pairs : p[1] \in tag[w].team} \subseteq missed'
    BY DEF Enforced, RaceCrashTagger
  <1>1. /\ UNCHANGED <<enf, stream, blocked, rem, teamOf>> /\ deny \subseteq deny' /\ OthersTag(w)
        /\ tag[w].tries >= Attempts \/ GoesOn(w, "cache", {})
    BY <1>0, TaggerCrashes DEF Ends, GoesOn
  <1>2. ASSUME NEW u \in Roles, NEW p \in Pairs, u \in tag[w].role, p[1] \in tag[w].team
        PROVE  <<u, p>> \in missed' \/ (Expected(p[1], u)' /\ BeingTagged(p, u)')
    <2>1. CASE tag[w].tries >= Attempts
      BY <1>0, <1>2, <2>1
    <2>2. CASE GoesOn(w, "cache", {})
      BY <1>2, <2>2 DEF GoesOn, Expected, BeingTagged
    <2> QED
      BY <1>1, <2>1, <2>2
  <1>3. ASSUME NEW u \in Roles, NEW p \in Pairs
        PROVE  /\ Expected(p[1], u) => Expected(p[1], u)' \/ <<u, p>> \in missed'
               /\ BeingTagged(p, u) => BeingTagged(p, u)' \/ <<u, p>> \in missed'
    BY <1>1, <1>2, OthersExpect
  <1> QED
    BY <1>0, <1>1, <1>3, EnforcedCache

LEMMA EnforcedStep == Enforced /\ [RaceNext]_raceVars => Enforced'
  <1> SUFFICES ASSUME Enforced, [RaceNext]_raceVars PROVE Enforced'
    OBVIOUS
  <1>1. Held'
    BY HeldStep DEF Enforced
  <1>2. CASE OtherStep /\ UNCHANGED <<missed, stray, outdated>>
    BY <1>1, <1>2, EnforcedOthers DEF Enforced
  <1>3. CASE \E r \in Roles, t \in Teams \cup {NoTeam} : RaceRemap(r, t)
    BY <1>1, <1>3, EnforcedRemap DEF Enforced
  <1>4. ASSUME NEW s \in Shards, RaceEnforcer(s) PROVE Enforced'
    BY <1>1, <1>4, EnforcedListRoles, EnforcedAttachDeny, EnforcedDetach, EnforcedPut,
       EnforcedEnforcerLeaves DEF Enforced, RaceEnforcer
  <1>5. ASSUME NEW x \in Removers, RaceRemover(x) PROVE Enforced'
    BY <1>1, <1>5, EnforcedRemove, EnforcedRemoverLeaves DEF Enforced, RaceRemover
  <1>6. ASSUME NEW w \in Taggers, RaceTagger(w) PROVE Enforced'
    BY <1>1, <1>6, EnforcedTags, EnforcedQuery, EnforcedInherits, EnforcedCrashTagger
    DEF Enforced, RaceTagger
  <1>7. CASE UNCHANGED raceVars
    <2>1. UNCHANGED <<enf, stream, rem, blocked, deny, teamOf, tag, missed>>
      BY <1>7 DEF raceVars, vars, tables
    <2>2. AttachWork'
      BY <2>1 DEF Enforced, AttachWork, Rec, RolesOf, Expected
    <2>3. EnforcedUnlessMissed'
      BY <2>1 DEF Enforced, EnforcedUnlessMissed, BeingLifted, BeingTagged, Rec
    <2> QED
      BY <1>1, <2>2, <2>3 DEF Enforced
  <1> QED
    BY <1>2, <1>3, <1>4, <1>5, <1>6, <1>7 DEF RaceNext

(* In every behaviour, with any number of teams, roles, shards and         *)
(* handlers that overlap, fail and are redelivered, a role of a blocked    *)
(* team is denied the model unless a removal or a tagging is under way or  *)
(* the history names what made the block miss it                           *)
(* (evaluateUsageAggregationChange, resetBlockedStatePair,                 *)
(* handleTagRoleEvent).                                                    *)
THEOREM BlockedRolesAreDenied == RaceSpec => []EnforcedUnlessMissed
  <1>1. RaceInit => Enforced
    BY InitEnforced
  <1>2. Enforced /\ [RaceNext]_raceVars => Enforced'
    BY EnforcedStep
  <1>3. Enforced => EnforcedUnlessMissed
    BY DEF Enforced
  <1> QED
    BY <1>1, <1>2, <1>3, PTL DEF RaceSpec

-----------------------------------------------------------------------------
(* A policy is recorded, or it has gone astray.                            *)

(* The policies of the pair that are not astray are those of roles still   *)
(* to come.                                                                *)
LiftsAll(p, e, todo) ==
  \A r \in RolesOf(p[1]) : <<r, p[2], e>> \in deny \ stray => r \in todo

(* A removal that has not failed will have removed every policy its row    *)
(* tells of when its loop ends.                                            *)
LiftedInFull ==
  /\ \A s \in Shards : enf[s].pc = "detach" /\ ~enf[s].failed =>
       LiftsAll(Rec(s).pair, Rec(s).endpoint, enf[s].todo)
  /\ \A x \in Removers : rem[x].pc = "remove" /\ ~rem[x].failed =>
       \A j \in rem[x].cur : LiftsAll(j.pair, j.endpoint, rem[x].todo)

(* What a tagger has read of the rows is what they hold, or outdated.      *)
AnswersCurrent ==
  \A w \in Taggers : tag[w].pc = "attach" =>
    \A me \in tag[w].todo, t \in tag[w].team :
      \/ <<w, me[1]>> \in outdated
      \/ /\ blocked[<<t, me[1]>>].status = "BLOCKED"
         /\ blocked[<<t, me[1]>>].endpoint = me[2]

Accounts == LiftedInFull /\ AnswersCurrent /\ RecordedUnlessStray
Accounted == Held /\ Accounts

LEMMA InitAccounted == RaceInit => Accounted
  <1> SUFFICES ASSUME RaceInit PROVE Accounted
    OBVIOUS
  <1>1. LiftedInFull /\ AnswersCurrent
    BY DEF RaceInit, Init, LiftedInFull, AnswersCurrent, EnfIdle, RemIdle, TagIdle
  <1>2. RecordedUnlessStray
    BY DEF RaceInit, Init, RecordedUnlessStray
  <1> QED
    BY InitHeld, <1>1, <1>2 DEF RaceInit, Accounted, Accounts

(* The attaching loops that were under way before a step are after it.     *)
AttachesStay ==
  \A s \in Shards : enf[s].pc = "attach" => enf'[s].pc = "attach" /\ Rec(s)' = Rec(s)

(* The removing loops that are under way after a step were before it.      *)
LiftsStay ==
  /\ \A s \in Shards : enf'[s].pc = "detach" =>
       /\ enf[s].pc = "detach" /\ Rec(s)' = Rec(s)
       /\ enf'[s].todo = enf[s].todo /\ enf'[s].failed = enf[s].failed
  /\ \A x \in Removers : rem'[x].pc = "remove" =>
       /\ rem[x].pc = "remove" /\ rem'[x].cur = rem[x].cur
       /\ rem'[x].todo = rem[x].todo /\ rem'[x].failed = rem[x].failed

(* No policy is attached, found again or given to another team.            *)
NothingNew == \A d \in deny' \ stray' : d \in deny \ stray /\ teamOf'[d[1]] = teamOf[d[1]]

LEMMA LiftedFrame ==
  ASSUME LiftedInFull, LiftsStay, NothingNew
  PROVE  LiftedInFull'
  <1>1. ASSUME NEW s \in Shards, enf'[s].pc = "detach", ~enf'[s].failed
        PROVE  LiftsAll(Rec(s).pair, Rec(s).endpoint, enf[s].todo)'
    <2>1. /\ Rec(s)' = Rec(s) /\ enf'[s].todo = enf[s].todo
          /\ LiftsAll(Rec(s).pair, Rec(s).endpoint, enf[s].todo)
      BY <1>1 DEF LiftsStay, LiftedInFull
    <2> QED
      BY <2>1 DEF LiftsAll, NothingNew, RolesOf
  <1>2. ASSUME NEW x \in Removers, rem'[x].pc = "remove", ~rem'[x].failed, NEW j \in rem'[x].cur
        PROVE  LiftsAll(j.pair, j.endpoint, rem[x].todo)'
    <2>1. rem'[x].todo = rem[x].todo /\ LiftsAll(j.pair, j.endpoint, rem[x].todo)
      BY <1>2 DEF LiftsStay, LiftedInFull
    <2> QED
      BY <2>1 DEF LiftsAll, NothingNew, RolesOf
  <1> QED
    BY <1>1, <1>2 DEF LiftedInFull

LEMMA RecordedFrame ==
  ASSUME RecordedUnlessStray, AttachesStay, NothingNew, blocked' = blocked
  PROVE  RecordedUnlessStray'
  <1> SUFFICES ASSUME NEW d \in deny' \ stray'
               PROVE  teamOf'[d[1]] \in Teams /\ Recorded(<<teamOf[d[1]], d[2]>>, d[3])'
    BY DEF RecordedUnlessStray
  <1> QED
    BY DEF RecordedUnlessStray, AttachesStay, NothingNew, Recorded

LEMMA AnswersFrame ==
  ASSUME AnswersCurrent, blocked' = blocked, outdated \subseteq outdated',
         \A w \in Taggers : tag'[w].pc = "attach" =>
           tag[w].pc = "attach" /\ tag'[w].team = tag[w].team /\ tag'[w].todo \subseteq tag[w].todo
  PROVE  AnswersCurrent'
  BY DEF AnswersCurrent

LEMMA AccountsOthers ==
  ASSUME Accounted, OtherStep, UNCHANGED <<missed, stray, outdated>>
  PROVE  Accounts'
  <1>0. Held /\ Accounts /\ LiftedInFull /\ AnswersCurrent /\ RecordedUnlessStray
    BY DEF Accounted, Accounts
  <1>1. ASSUME AttachesStay, LiftedInFull', UNCHANGED <<blocked, deny, teamOf, tag>>
        PROVE  Accounts'
    <2>1. NothingNew
      BY <1>1 DEF NothingNew
    <2>2. RecordedUnlessStray'
      BY <1>0, <1>1, <2>1, RecordedFrame
    <2>3. AnswersCurrent'
      BY <1>0, <1>1, AnswersFrame
    <2> QED
      BY <1>1, <2>2, <2>3 DEF Accounts
  <1>2. CASE MeteringAndEdits
    <2>1. AllWait /\ UNCHANGED <<blocked, deny, teamOf, rem, tag>>
      BY <1>0, <1>2, EnvironmentWaits, MeteringIsEnvironment
    <2>2. AttachesStay
      BY <2>1 DEF AllWait, AtWork, AttachesStay
    <2>3. LiftsStay
      BY <2>1 DEF AllWait, AtWork, LiftsStay
    <2>4. NothingNew
      BY <1>2, <2>1 DEF NothingNew
    <2> QED
      BY <1>0, <1>1, <1>2, <2>1, <2>2, <2>3, <2>4, LiftedFrame
  <1>3. ASSUME NEW s \in Shards,
               StartBatch(s) \/ SkipRecord(s) \/ ReadQuota(s) \/ CheckBlocked(s)
                 \/ LiftGuard(s) \/ FinishBatch(s)
        PROVE  Accounts'
    <2>1. Roams(s) /\ UNCHANGED <<deny, blocked, teamOf, rem, tag>>
      BY <1>0, <1>3, EnforcerRoams
    <2>2. AttachesStay
      BY <2>1 DEF Roams, OthersWait, AtWork, LoopPcs, AttachesStay
    <2>3. LiftsStay
      BY <2>1 DEF Roams, OthersWait, AtWork, LoopPcs, LiftsStay
    <2>4. NothingNew
      BY <2>1 DEF NothingNew
    <2> QED
      BY <1>0, <1>1, <2>1, <2>2, <2>3, <2>4, LiftedFrame
  <1>4. ASSUME NEW x \in Removers, Begins(x), UNCHANGED <<enf, stream, deny, blocked, teamOf, tag>>
        PROVE  Accounts'
    <2>1. \A z \in Shards : enf'[z] = enf[z] /\ Rec(z)' = Rec(z)
      BY <1>4 DEF Rec
    <2>2. AttachesStay
      BY <2>1 DEF AttachesStay
    <2>3. ASSUME NEW p, NEW e, NEW todo
          PROVE  LiftsAll(p, e, todo)' = LiftsAll(p, e, todo)
      BY <1>4 DEF LiftsAll, RolesOf
    <2>4. ASSUME NEW z \in Shards, enf'[z].pc = "detach", ~enf'[z].failed
          PROVE  LiftsAll(Rec(z).pair, Rec(z).endpoint, enf[z].todo)'
      <3>1. LiftsAll(Rec(z).pair, Rec(z).endpoint, enf[z].todo)
        BY <1>0, <2>1, <2>4 DEF LiftedInFull
      <3> QED
        BY <1>4, <2>1, <3>1 DEF LiftsAll, RolesOf
    <2>5. ASSUME NEW y \in Removers, rem'[y].pc = "remove", ~rem'[y].failed, NEW j \in rem'[y].cur
          PROVE  LiftsAll(j.pair, j.endpoint, rem[y].todo)'
      <3>1. CASE y = x
        <4>1. rem'[y].todo = RolesOf(j.pair[1])
          BY <1>4, <2>5, <3>1 DEF Begins
        <4> QED
          BY <1>4, <4>1 DEF LiftsAll, RolesOf
      <3>2. CASE y # x
        <4>1. rem'[y] = rem[y]
          BY <1>4, <3>2 DEF Begins, OthersRest
        <4>2. LiftsAll(j.pair, j.endpoint, rem[y].todo)
          BY <1>0, <2>5, <4>1 DEF LiftedInFull
        <4> QED
          BY <1>4, <4>1, <4>2 DEF LiftsAll, RolesOf
      <3> QED
        BY <3>1, <3>2
    <2>6. LiftedInFull'
      BY <2>4, <2>5 DEF LiftedInFull
    <2> QED
      BY <1>1, <1>4, <2>2, <2>6
  <1>5. CASE ResetStep
    <2>1. "reset" \in Removers
      BY DEF Removers
    <2> QED
      BY <1>0, <1>4, <1>5, <2>1, ResetBegins
  <1>6. CASE \E x \in Removers : (\E j \in rem[x].queue : BeginPair(x, j)) \/ FinishRemover(x)
    BY <1>0, <1>4, <1>6, RemoverBegins
  <1>7. ASSUME NEW x \in Admins, NEW p \in Pairs, StartManual(x, p)
        PROVE  Accounts'
    <2>1. x \in Removers
      BY DEF Removers
    <2> QED
      BY <1>0, <1>4, <1>7, <2>1, RemoverBegins
  <1> QED
    BY <1>2, <1>3, <1>5, <1>6, <1>7 DEF OtherStep

(* The handler that works at p under the endpoint e writes its row: it has *)
(* left no policy there, or the row tells of them.                         *)
LEMMA AccountsRow ==
  ASSUME Accounted, NEW p \in Pairs, NEW e, NEW row, RowWritten(p, e),
         blocked' = [blocked EXCEPT ![p] = row], UNCHANGED <<deny, teamOf, tag>>, LiftsStay,
         \/ row.status # "NONE" /\ row.endpoint = e
         \/ \A r \in RolesOf(p[1]) : <<r, p[2], e>> \notin deny \ stray,
         \A z \in Shards : enf[z].pc = "attach" =>
           \/ enf'[z].pc = "attach" /\ Rec(z)' = Rec(z)
           \/ /\ row.status # "NONE" /\ row.endpoint = e
              /\ Rec(z).pair = p /\ Rec(z).endpoint = e
  PROVE  Accounts'
  <1>0. /\ LiftedInFull /\ AnswersCurrent /\ RecordedUnlessStray
        /\ deny \subseteq Roles \X Models \X Endpoints /\ blocked \in [Pairs -> Row]
    BY DEF Accounted, Accounts, Held, Shape, TypeOK
  <1>1. \A d \in deny' \ stray' : d \in deny \ stray
    BY DEF RowWritten
  <1>2. LiftedInFull'
    BY <1>0, <1>1, LiftedFrame DEF NothingNew
  <1>3. /\ blocked'[p] = row
        /\ \A q \in Pairs : q # p => blocked'[q] = blocked[q]
    BY <1>0
  <1>4. AnswersCurrent'
    <2> SUFFICES ASSUME NEW w \in Taggers, tag[w].pc = "attach",
                        NEW me \in tag[w].todo, NEW t \in tag[w].team
                 PROVE  \/ <<w, me[1]>> \in outdated'
                        \/ /\ blocked'[<<t, me[1]>>].status = "BLOCKED"
                           /\ blocked'[<<t, me[1]>>].endpoint = me[2]
      BY DEF AnswersCurrent
    <2>1. tag[w] \in TagState
      BY DEF Accounted, Held, Shape, TypeOK
    <2>2. <<t, me[1]>> \in Pairs
      BY <2>1 DEF TagState, Policies, Pairs
    <2>3. CASE <<t, me[1]>> = p
      <3>1. p[1] = t /\ p[2] = me[1]
        BY <2>3
      <3> QED
        BY <3>1 DEF RowWritten
    <2>4. CASE <<t, me[1]>> # p
      <3>1. blocked'[<<t, me[1]>>] = blocked[<<t, me[1]>>]
        BY <1>3, <2>2, <2>4
      <3>2. outdated \subseteq outdated'
        BY DEF RowWritten
      <3> QED
        BY <1>0, <3>1, <3>2 DEF AnswersCurrent
    <2> QED
      BY <2>3, <2>4
  <1>5. RecordedUnlessStray'
    <2> SUFFICES ASSUME NEW d \in deny' \ stray'
                 PROVE  teamOf[d[1]] \in Teams /\ Recorded(<<teamOf[d[1]], d[2]>>, d[3])'
      BY DEF RecordedUnlessStray
    <2>1. d \in deny \ stray /\ d \in Roles \X Models \X Endpoints
      BY <1>0, <1>1
    <2>2. PICK q : q = <<teamOf[d[1]], d[2]>>
      OBVIOUS
    <2>3. teamOf[d[1]] \in Teams /\ q \in Pairs /\ Recorded(q, d[3])
      BY <1>0, <2>1, <2>2 DEF RecordedUnlessStray, Pairs
    <2>4. Recorded(q, d[3])'
      <3>1. ASSUME NEW z \in Shards, enf[z].pc = "attach", Rec(z).pair = q, Rec(z).endpoint = d[3]
            PROVE  Recorded(q, d[3])'
        BY <1>3, <3>1 DEF Recorded
      <3>2. CASE blocked[q].status # "NONE" /\ blocked[q].endpoint = d[3] /\ q # p
        BY <1>3, <2>3, <3>2 DEF Recorded
      <3>3. CASE blocked[q].status # "NONE" /\ blocked[q].endpoint = d[3] /\ q = p
        <4>1. d[1] \in RolesOf(p[1]) /\ d = <<d[1], p[2], d[3]>>
          BY <2>1, <2>2, <3>3 DEF RolesOf
        <4>2. d[3] = e
          <5> SUFFICES ASSUME blocked[p].endpoint # e PROVE FALSE
            BY <3>3
          <5>1. stray' = deny' \cap (stray \cup
                           (RolesOf(p[1]) \X {p[2]} \X {blocked[p].endpoint}))
            BY <3>3 DEF RowWritten
          <5>2. d \in RolesOf(p[1]) \X {p[2]} \X {blocked[p].endpoint}
            BY <3>3, <4>1
          <5> QED
            BY <5>1, <5>2
        <4>3. row.status # "NONE" /\ row.endpoint = e
          BY <2>1, <4>1, <4>2
        <4> QED
          BY <1>3, <3>3, <4>2, <4>3 DEF Recorded
      <3> QED
        BY <2>3, <3>1, <3>2, <3>3 DEF Recorded
    <2> QED
      BY <2>2, <2>3, <2>4
  <1> QED
    BY <1>2, <1>4, <1>5 DEF Accounts

LEMMA AccountsPut ==
  ASSUME Accounted, NEW s \in Shards, RacePutBlockedState(s)
  PROVE  Accounts'
  <1>0. Held /\ PutBlockedState(s) /\ RowWritten(Rec(s).pair, Rec(s).endpoint)
    BY DEF Accounted, RacePutBlockedState
  <1>1. /\ UNCHANGED <<deny, teamOf, rem, tag>> /\ enf[s].pc = "attach"
        /\ OthersWait(s) /\ enf'[s].pc \notin LoopPcs \cup {"list"}
    BY <1>0, EnforcerLeaves DEF PutBlockedState
  <1>2. PICK p, e, row : /\ p = Rec(s).pair /\ e = Rec(s).endpoint
                         /\ blocked' = [blocked EXCEPT ![p] = row]
                         /\ row.status # "NONE" /\ row.endpoint = e
    <2>1. PICK row : row = [status |-> "BLOCKED", day |-> Rec(s).day, endpoint |-> Rec(s).endpoint]
      OBVIOUS
    <2>2. row.status # "NONE" /\ row.endpoint = Rec(s).endpoint
      BY <2>1
    <2> QED
      BY <1>0, <2>1, <2>2 DEF PutBlockedState
  <1>3. p \in Pairs /\ RowWritten(p, e)
    BY <1>0, <1>1, <1>2, RecHeld
  <1>4. LiftsStay
    BY <1>1 DEF OthersWait, AtWork, LoopPcs, LiftsStay
  <1>5. \A z \in Shards : enf[z].pc = "attach" =>
          \/ enf'[z].pc = "attach" /\ Rec(z)' = Rec(z)
          \/ Rec(z).pair = p /\ Rec(z).endpoint = e
    BY <1>1, <1>2 DEF OthersWait, AtWork
  <1> QED
    BY <1>1, <1>2, <1>3, <1>4, <1>5, AccountsRow

(* A loop ends and the row and the policies stay.                          *)
LEMMA AccountsStop ==
  ASSUME Accounted, UNCHANGED <<deny, teamOf, tag, blocked, stray, outdated>>,
         LiftsStay, AttachesStay
  PROVE  Accounts'
  <1>1. NothingNew
    BY DEF NothingNew
  <1> QED
    BY <1>1, LiftedFrame, RecordedFrame, AnswersFrame DEF Accounted, Accounts

LEMMA AccountsFinishLift ==
  ASSUME Accounted, NEW s \in Shards, RaceFinishLift(s)
  PROVE  Accounts'
  <1>0. Held /\ FinishLift(s) /\ LiftedInFull
    BY DEF Accounted, Accounts, RaceFinishLift
  <1>1. /\ UNCHANGED <<deny, teamOf, rem, tag>> /\ enf[s].pc = "detach" /\ enf[s].todo = {}
        /\ OthersWait(s) /\ enf'[s].pc \notin LoopPcs \cup {"list"}
    BY <1>0, EnforcerLeaves DEF FinishLift
  <1>2. LiftsStay
    BY <1>1 DEF OthersWait, AtWork, LoopPcs, LiftsStay
  <1>3. AttachesStay
    BY <1>1 DEF OthersWait, AtWork, AttachesStay
  <1>4. CASE enf[s].failed
    BY <1>0, <1>1, <1>2, <1>3, <1>4, AccountsStop DEF RaceFinishLift, FinishLift
  <1>5. CASE ~enf[s].failed
    <2>1. PICK p, e : p = Rec(s).pair /\ e = Rec(s).endpoint
      OBVIOUS
    <2>2. p \in Pairs /\ RowWritten(p, e) /\ blocked' = [blocked EXCEPT ![p] = NoRow]
      BY <1>0, <1>1, <1>5, <2>1, RecHeld DEF RaceFinishLift, FinishLift
    <2>3. LiftsAll(p, e, enf[s].todo)
      BY <1>0, <1>1, <1>5, <2>1 DEF LiftedInFull
    <2>4. \A r \in RolesOf(p[1]) : <<r, p[2], e>> \notin deny \ stray
      BY <1>1, <2>3 DEF LiftsAll
    <2>5. \A z \in Shards : enf[z].pc = "attach" => enf'[z].pc = "attach" /\ Rec(z)' = Rec(z)
      BY <1>3 DEF AttachesStay
    <2> QED
      BY <1>1, <1>2, <2>2, <2>4, <2>5, AccountsRow
  <1> QED
    BY <1>4, <1>5

LEMMA AccountsSettle ==
  ASSUME Accounted, NEW x \in Removers, RaceSettlePair(x)
  PROVE  Accounts'
  <1>0. Held /\ SettlePair(x) /\ LiftedInFull
    BY DEF Accounted, Accounts, RaceSettlePair
  <1>1. UNCHANGED <<enf, stream, deny, teamOf, tag>> /\ OthersRest(x) /\ rem'[x].pc # "remove"
    BY <1>0, RemoverLeaves
  <1>2. PICK j, row : /\ rem[x].pc = "remove" /\ rem[x].todo = {}
                      /\ rem[x].cur = {j} /\ j.pair \in Pairs
                      /\ blocked' = [blocked EXCEPT ![j.pair] = row]
                      /\ IF rem[x].failed
                         THEN row.status = "PENDING_RESET" /\ row.endpoint = j.endpoint
                         ELSE row = NoRow
    BY <1>0, Settles
  <1>3. PICK p, e : p = j.pair /\ e = j.endpoint
    OBVIOUS
  <1>4. RowWritten(p, e)
    BY <1>2, <1>3 DEF RaceSettlePair
  <1>5. \A z \in Shards : enf'[z] = enf[z] /\ Rec(z)' = Rec(z)
    BY <1>1 DEF Rec
  <1>6. LiftsStay
    BY <1>1, <1>5 DEF OthersRest, LiftsStay
  <1>7. \/ row.status # "NONE" /\ row.endpoint = e
        \/ \A r \in RolesOf(p[1]) : <<r, p[2], e>> \notin deny \ stray
    <2>1. CASE ~rem[x].failed
      <3>1. LiftsAll(p, e, rem[x].todo)
        BY <1>0, <1>2, <1>3, <2>1 DEF LiftedInFull
      <3> QED
        BY <1>2, <3>1 DEF LiftsAll
    <2>2. CASE rem[x].failed
      BY <1>2, <1>3, <2>2
    <2> QED
      BY <2>1, <2>2
  <1>8. \A z \in Shards : enf[z].pc = "attach" => enf'[z].pc = "attach" /\ Rec(z)' = Rec(z)
    BY <1>5
  <1>9. p \in Pairs /\ blocked' = [blocked EXCEPT ![p] = row]
    BY <1>2, <1>3
  <1> QED
    BY <1>1, <1>4, <1>6, <1>7, <1>8, <1>9, AccountsRow

LEMMA AccountsCrashRemover ==
  ASSUME Accounted, NEW x \in Removers, RaceCrashRemover(x)
  PROVE  Accounts'
  <1>0. Held /\ CrashRemover(x) /\ UNCHANGED <<stray, outdated, blocked>>
    BY DEF Accounted, RaceCrashRemover, CrashRemover
  <1>1. UNCHANGED <<enf, stream, deny, teamOf, tag>> /\ OthersRest(x) /\ rem'[x].pc # "remove"
    BY <1>0, RemoverLeaves
  <1>2. \A z \in Shards : enf'[z] = enf[z] /\ Rec(z)' = Rec(z)
    BY <1>1 DEF Rec
  <1>3. LiftsStay
    BY <1>1, <1>2 DEF OthersRest, LiftsStay
  <1>4. AttachesStay
    BY <1>2 DEF AttachesStay
  <1> QED
    BY <1>0, <1>1, <1>3, <1>4, AccountsStop

LEMMA AccountsCrashEnforcer ==
  ASSUME Accounted, NEW s \in Shards, RaceCrashEnforcer(s)
  PROVE  Accounts'
  <1>0. /\ Held /\ CrashEnforcer(s) /\ LiftedInFull /\ AnswersCurrent /\ RecordedUnlessStray
        /\ UNCHANGED <<blocked, outdated>> /\ deny \subseteq Roles \X Models \X Endpoints
    BY DEF Accounted, Accounts, RaceCrashEnforcer, CrashEnforcer, checkpointUnchanged,
           Held, Shape, TypeOK
  <1>1. /\ UNCHANGED <<deny, teamOf, rem, tag>>
        /\ OthersWait(s) /\ enf'[s].pc \notin LoopPcs \cup {"list"}
    BY <1>0, EnforcerLeaves
  <1>2. LiftsStay
    BY <1>1 DEF OthersWait, AtWork, LoopPcs, LiftsStay
  <1>3. NothingNew
    BY <1>1 DEF RaceCrashEnforcer, NothingNew
  <1>4. LiftedInFull' /\ AnswersCurrent'
    BY <1>0, <1>1, <1>2, <1>3, LiftedFrame, AnswersFrame
  <1>5. RecordedUnlessStray'
    <2> SUFFICES ASSUME NEW d \in deny' \ stray'
                 PROVE  teamOf[d[1]] \in Teams /\ Recorded(<<teamOf[d[1]], d[2]>>, d[3])'
      BY <1>1 DEF RecordedUnlessStray
    <2>1. d \in deny \ stray /\ d \in Roles \X Models \X Endpoints
      BY <1>0, <1>3 DEF NothingNew
    <2>2. PICK q : q = <<teamOf[d[1]], d[2]>>
      OBVIOUS
    <2>3. teamOf[d[1]] \in Teams /\ Recorded(q, d[3])
      BY <1>0, <2>1, <2>2 DEF RecordedUnlessStray
    <2>4. Recorded(q, d[3])'
      <3>1. CASE blocked[q].status # "NONE" /\ blocked[q].endpoint = d[3]
        BY <1>0, <3>1 DEF Recorded
      <3>2. ASSUME NEW z \in Shards, enf[z].pc = "attach", Rec(z).pair = q,
                   Rec(z).endpoint = d[3], z # s
            PROVE  Recorded(q, d[3])'
        BY <1>1, <3>2 DEF OthersWait, AtWork, Recorded
      <3>3. CASE /\ enf[s].pc = "attach" /\ Rec(s).pair = q /\ Rec(s).endpoint = d[3]
                 /\ ~(blocked[q].status # "NONE" /\ blocked[q].endpoint = d[3])
        <4>1. stray' = deny \cap (stray \cup (RolesOf(q[1]) \X {q[2]} \X {d[3]}))
          BY <3>3 DEF RaceCrashEnforcer
        <4>2. d \in RolesOf(q[1]) \X {q[2]} \X {d[3]}
          BY <2>1, <2>2 DEF RolesOf
        <4> QED
          BY <2>1, <4>1, <4>2
      <3> QED
        BY <2>3, <3>1, <3>2, <3>3 DEF Recorded
    <2> QED
      BY <1>1, <2>2, <2>3, <2>4
  <1> QED
    BY <1>4, <1>5 DEF Accounts

(* One removing loop may have made progress: its own policies are looked   *)
(* at apart.                                                               *)
LEMMA AccountsTurn ==
  ASSUME Accounted, NothingNew, AttachesStay, LiftedInFull',
         UNCHANGED <<blocked, teamOf, tag, outdated>>
  PROVE  Accounts'
  BY RecordedFrame, AnswersFrame DEF Accounted, Accounts

LEMMA AccountsListRoles ==
  ASSUME Accounted, NEW s \in Shards, RaceListRoles(s)
  PROVE  Accounts'
  <1>0. Held /\ ListRoles(s) /\ UNCHANGED <<stray, outdated>> /\ LiftedInFull
    BY DEF Accounted, Accounts, RaceListRoles
  <1>1. /\ UNCHANGED <<deny, blocked, teamOf, rem, tag>>
        /\ enf[s].pc \in {"list", "liftList"}
        /\ \E l \in LoopPcs : Loops(s, l, RolesOf(Rec(s).pair[1]), FALSE)
    BY <1>0, EnforcerLists DEF LoopPcs
  <1>2. NothingNew
    BY <1>0, <1>1 DEF NothingNew
  <1>3. AttachesStay
    BY <1>1 DEF Loops, OthersWait, AtWork, AttachesStay
  <1>4. ASSUME NEW z \in Shards, enf'[z].pc = "detach", ~enf'[z].failed
        PROVE  LiftsAll(Rec(z).pair, Rec(z).endpoint, enf[z].todo)'
    <2>1. CASE z = s
      <3>1. enf'[z].todo = RolesOf(Rec(s).pair[1]) /\ Rec(z)' = Rec(s)
        BY <1>1, <2>1 DEF Loops
      <3> QED
        BY <1>1, <3>1 DEF LiftsAll, RolesOf
    <2>2. CASE z # s
      <3>1. enf'[z] = enf[z] /\ Rec(z)' = Rec(z)
        BY <1>1, <1>4, <2>2 DEF Loops, OthersWait, AtWork
      <3>2. LiftsAll(Rec(z).pair, Rec(z).endpoint, enf[z].todo)
        BY <1>0, <1>4, <3>1 DEF LiftedInFull
      <3> QED
        BY <1>0, <1>1, <3>1, <3>2 DEF LiftsAll, RolesOf
    <2> QED
      BY <2>1, <2>2
  <1>5. ASSUME NEW x \in Removers, rem'[x].pc = "remove", ~rem'[x].failed, NEW j \in rem'[x].cur
        PROVE  LiftsAll(j.pair, j.endpoint, rem[x].todo)'
    <2>1. LiftsAll(j.pair, j.endpoint, rem[x].todo)
      BY <1>0, <1>1, <1>5 DEF LiftedInFull
    <2> QED
      BY <1>0, <1>1, <2>1 DEF LiftsAll, RolesOf
  <1>6. LiftedInFull'
    BY <1>4, <1>5 DEF LiftedInFull
  <1> QED
    BY <1>0, <1>1, <1>2, <1>3, <1>6, AccountsTurn

LEMMA AccountsDetach ==
  ASSUME Accounted, NEW s \in Shards, NEW r \in Roles, RaceDetachDeny(s, r)
  PROVE  Accounts'
  <1>0. Held /\ DetachDeny(s, r) /\ stray' = stray \cap deny' /\ outdated' = outdated
        /\ LiftedInFull
    BY DEF Accounted, Accounts, RaceDetachDeny, Takes
  <1>1. PICK d : d = <<r, Rec(s).pair[2], Rec(s).endpoint>>
    OBVIOUS
  <1>2. /\ UNCHANGED <<blocked, teamOf, rem, tag>> /\ enf[s].pc = "detach" /\ deny' \subseteq deny
        /\ \/ Loops(s, "detach", enf[s].todo \ {r}, enf[s].failed) /\ d \notin deny'
           \/ Loops(s, "detach", enf[s].todo \ {r}, TRUE)
    BY <1>0, <1>1, EnforcerDetaches
  <1>3. NothingNew
    BY <1>0, <1>2 DEF NothingNew
  <1>4. AttachesStay
    BY <1>2 DEF Loops, OthersWait, AtWork, AttachesStay
  <1>5. ASSUME NEW z \in Shards, enf'[z].pc = "detach", ~enf'[z].failed
        PROVE  LiftsAll(Rec(z).pair, Rec(z).endpoint, enf[z].todo)'
    <2>1. CASE z = s
      <3>1. /\ enf'[s].todo = enf[s].todo \ {r} /\ Rec(s)' = Rec(s) /\ ~enf[s].failed
            /\ d \notin deny'
        BY <1>2, <1>5, <2>1 DEF Loops
      <3>2. LiftsAll(Rec(s).pair, Rec(s).endpoint, enf[s].todo)
        BY <1>0, <1>2, <3>1 DEF LiftedInFull
      <3> QED
        BY <1>1, <1>3, <2>1, <3>1, <3>2 DEF LiftsAll, RolesOf, NothingNew
    <2>2. CASE z # s
      <3>1. enf'[z] = enf[z] /\ Rec(z)' = Rec(z)
        BY <1>2, <1>5, <2>2 DEF Loops, OthersWait, AtWork
      <3>2. LiftsAll(Rec(z).pair, Rec(z).endpoint, enf[z].todo)
        BY <1>0, <1>5, <3>1 DEF LiftedInFull
      <3> QED
        BY <1>3, <3>1, <3>2 DEF LiftsAll, RolesOf, NothingNew
    <2> QED
      BY <2>1, <2>2
  <1>6. ASSUME NEW x \in Removers, rem'[x].pc = "remove", ~rem'[x].failed, NEW j \in rem'[x].cur
        PROVE  LiftsAll(j.pair, j.endpoint, rem[x].todo)'
    <2>1. LiftsAll(j.pair, j.endpoint, rem[x].todo)
      BY <1>0, <1>2, <1>6 DEF LiftedInFull
    <2> QED
      BY <1>2, <1>3, <2>1 DEF LiftsAll, RolesOf, NothingNew
  <1>7. LiftedInFull'
    BY <1>5, <1>6 DEF LiftedInFull
  <1> QED
    BY <1>0, <1>2, <1>3, <1>4, <1>7, AccountsTurn

LEMMA AccountsRemove ==
  ASSUME Accounted, NEW x \in Removers, NEW r \in Roles, RaceRemoveDeny(x, r)
  PROVE  Accounts'
  <1>0. Held /\ RemoveDeny(x, r) /\ rem[x].pc = "remove" /\ LiftedInFull
    BY DEF Accounted, Accounts, RaceRemoveDeny, RemoveDeny
  <1>1. PICK j : rem[x].cur = {j}
    BY <1>0, JobHeld
  <1>2. PICK d : d = <<r, j.pair[2], j.endpoint>>
    OBVIOUS
  <1>3. /\ UNCHANGED <<enf, stream, blocked, teamOf, tag>>
        /\ OthersRest(x)
        /\ rem'[x].cur = rem[x].cur /\ rem'[x].todo = rem[x].todo \ {r}
        /\ deny' \subseteq deny
        /\ \/ rem'[x].failed = rem[x].failed /\ d \notin deny'
           \/ rem'[x].failed
    BY <1>0, <1>1, <1>2, RemoverRemoves
  <1>4. stray' = stray \cap deny' /\ outdated' = outdated
    BY DEF RaceRemoveDeny, Takes
  <1>5. NothingNew
    BY <1>3, <1>4 DEF NothingNew
  <1>6. \A z \in Shards : enf'[z] = enf[z] /\ Rec(z)' = Rec(z)
    BY <1>3 DEF Rec
  <1>7. AttachesStay
    BY <1>6 DEF AttachesStay
  <1>8. ASSUME NEW z \in Shards, enf'[z].pc = "detach", ~enf'[z].failed
        PROVE  LiftsAll(Rec(z).pair, Rec(z).endpoint, enf[z].todo)'
    <2>1. LiftsAll(Rec(z).pair, Rec(z).endpoint, enf[z].todo)
      BY <1>0, <1>6, <1>8 DEF LiftedInFull
    <2> QED
      BY <1>3, <1>5, <1>6, <2>1 DEF LiftsAll, RolesOf, NothingNew
  <1>9. ASSUME NEW y \in Removers, rem'[y].pc = "remove", ~rem'[y].failed, NEW k \in rem'[y].cur
        PROVE  LiftsAll(k.pair, k.endpoint, rem[y].todo)'
    <2>1. CASE y = x
      <3>1. k = j /\ ~rem[x].failed /\ d \notin deny'
        BY <1>1, <1>3, <1>9, <2>1
      <3>2. LiftsAll(j.pair, j.endpoint, rem[x].todo)
        BY <1>0, <1>1, <3>1 DEF LiftedInFull
      <3> QED
        BY <1>2, <1>3, <1>5, <2>1, <3>1, <3>2 DEF LiftsAll, RolesOf, NothingNew
    <2>2. CASE y # x
      <3>1. rem'[y] = rem[y]
        BY <1>3, <2>2 DEF OthersRest
      <3>2. LiftsAll(k.pair, k.endpoint, rem[y].todo)
        BY <1>0, <1>9, <3>1 DEF LiftedInFull
      <3> QED
        BY <1>3, <1>5, <3>1, <3>2 DEF LiftsAll, RolesOf, NothingNew
    <2> QED
      BY <2>1, <2>2
  <1>10. LiftedInFull'
    BY <1>8, <1>9 DEF LiftedInFull
  <1> QED
    BY <1>3, <1>4, <1>5, <1>7, <1>10, AccountsTurn

(* The taggers that hold an answer after a step held it before.            *)
AnswersStay ==
  \A w \in Taggers : tag'[w].pc = "attach" =>
    tag[w].pc = "attach" /\ tag'[w].team = tag[w].team /\ tag'[w].todo \subseteq tag[w].todo

(* A policy is attached in time, for a team its role has, with a row or an *)
(* enforcer that knows of it.                                              *)
LEMMA AccountsNew ==
  ASSUME Accounted, NEW r \in Roles, NEW p \in Pairs, NEW e,
         UNCHANGED <<blocked, teamOf, rem, outdated>>, AttachesStay, LiftsStay, AnswersStay,
         \A d \in deny' \ stray' :
           \/ d \in deny \ stray
           \/ d = <<r, p[2], e>> /\ ~TooLate(r, p, e) /\ Recorded(p, e)
  PROVE  Accounts'
  <1>0. /\ Held /\ LiftedInFull /\ AnswersCurrent /\ RecordedUnlessStray
        /\ p = <<p[1], p[2]>> /\ p[1] \in Teams
    BY DEF Accounted, Accounts, Pairs
  <1>1. AnswersCurrent'
    BY <1>0, AnswersFrame DEF AnswersStay
  <1>2. ASSUME NEW z \in Shards, enf'[z].pc = "detach", ~enf'[z].failed
        PROVE  LiftsAll(Rec(z).pair, Rec(z).endpoint, enf[z].todo)'
    <2>1. /\ enf[z].pc = "detach" /\ ~enf[z].failed /\ Rec(z)' = Rec(z)
          /\ enf'[z].todo = enf[z].todo
      BY <1>2 DEF LiftsStay
    <2>2. LiftsAll(Rec(z).pair, Rec(z).endpoint, enf[z].todo)
      BY <1>0, <2>1 DEF LiftedInFull
    <2>3. PICK q, f : q = Rec(z).pair /\ f = Rec(z).endpoint
      OBVIOUS
    <2>4. q = <<q[1], q[2]>>
      BY <1>0, <2>1, <2>3, RecHeld DEF Pairs
    <2>5. ASSUME NEW u \in Roles, teamOf[u] = q[1], <<u, q[2], f>> \in deny' \ stray'
          PROVE  u \in enf[z].todo
      <3>1. CASE <<u, q[2], f>> \in deny \ stray
        BY <2>2, <2>3, <2>5, <3>1 DEF LiftsAll, RolesOf
      <3>2. CASE <<u, q[2], f>> = <<r, p[2], e>> /\ ~TooLate(r, p, e)
        <4>1. u = r /\ q[2] = p[2] /\ f = e
          BY <3>2
        <4>2. q = p
          BY <1>0, <2>4, <2>5, <3>2, <4>1 DEF TooLate
        <4> QED
          BY <2>1, <2>3, <3>2, <4>1, <4>2 DEF TooLate, LiftedPast
      <3> QED
        BY <2>5, <3>1, <3>2
    <2> QED
      BY <2>1, <2>3, <2>5 DEF LiftsAll, RolesOf
  <1>3. ASSUME NEW x \in Removers, rem[x].pc = "remove", ~rem[x].failed, NEW j \in rem[x].cur
        PROVE  LiftsAll(j.pair, j.endpoint, rem[x].todo)'
    <2>1. LiftsAll(j.pair, j.endpoint, rem[x].todo)
      BY <1>0, <1>3 DEF LiftedInFull
    <2>2. PICK q, f : q = j.pair /\ f = j.endpoint
      OBVIOUS
    <2>3. q = <<q[1], q[2]>>
      BY <1>0, <1>3, <2>2, JobHeld DEF Pairs
    <2>4. ASSUME NEW u \in Roles, teamOf[u] = q[1], <<u, q[2], f>> \in deny' \ stray'
          PROVE  u \in rem[x].todo
      <3>1. CASE <<u, q[2], f>> \in deny \ stray
        BY <2>1, <2>2, <2>4, <3>1 DEF LiftsAll, RolesOf
      <3>2. CASE <<u, q[2], f>> = <<r, p[2], e>> /\ ~TooLate(r, p, e)
        <4>1. u = r /\ q[2] = p[2] /\ f = e
          BY <3>2
        <4>2. q = p
          BY <1>0, <2>3, <2>4, <3>2, <4>1 DEF TooLate
        <4> QED
          BY <1>3, <2>2, <3>2, <4>1, <4>2 DEF TooLate, LiftedPast
      <3> QED
        BY <2>4, <3>1, <3>2
    <2> QED
      BY <2>2, <2>4 DEF LiftsAll, RolesOf
  <1>4. LiftedInFull'
    BY <1>2, <1>3 DEF LiftedInFull, LiftsStay
  <1>5. RecordedUnlessStray'
    <2> SUFFICES ASSUME NEW d \in deny' \ stray'
                 PROVE  teamOf[d[1]] \in Teams /\ Recorded(<<teamOf[d[1]], d[2]>>, d[3])'
      BY DEF RecordedUnlessStray
    <2>1. teamOf[d[1]] \in Teams /\ Recorded(<<teamOf[d[1]], d[2]>>, d[3])
      <3>1. CASE d \in deny \ stray
        BY <1>0, <3>1 DEF RecordedUnlessStray
      <3>2. CASE d = <<r, p[2], e>> /\ ~TooLate(r, p, e) /\ Recorded(p, e)
        <4>1. d[1] = r /\ d[2] = p[2] /\ d[3] = e /\ teamOf[r] = p[1]
          BY <3>2 DEF TooLate
        <4> QED
          BY <1>0, <3>2, <4>1
      <3> QED
        BY <3>1, <3>2
    <2>2. ASSUME NEW q, NEW f, Recorded(q, f) PROVE Recorded(q, f)'
      BY <2>2 DEF Recorded, AttachesStay
    <2> QED
      BY <2>1, <2>2
  <1> QED
    BY <1>1, <1>4, <1>5 DEF Accounts

LEMMA AccountsAttach ==
  ASSUME Accounted, NEW s \in Shards, NEW r \in Roles, RaceAttachDeny(s, r)
  PROVE  Accounts'
  <1>0. Held /\ AttachDeny(s, r) /\ outdated' = outdated
    BY DEF Accounted, RaceAttachDeny
  <1>1. PICK p, e, d : p = Rec(s).pair /\ e = Rec(s).endpoint /\ d = <<r, p[2], e>>
    OBVIOUS
  <1>2. /\ UNCHANGED <<blocked, teamOf, rem, tag>> /\ enf[s].pc = "attach"
        /\ deny' \in {deny, deny \cup {d}}
        /\ \E b \in BOOLEAN : Loops(s, "attach", enf[s].todo \ {r}, b)
    BY <1>0, <1>1, EnforcerAttaches
  <1>3. p \in Pairs /\ Recorded(p, e)
    BY <1>0, <1>1, <1>2, RecHeld DEF Recorded
  <1>4. LiftsStay
    BY <1>2 DEF Loops, OthersWait, AtWork, LiftsStay
  <1>5. AttachesStay
    BY <1>2 DEF Loops, OthersWait, AtWork, AttachesStay
  <1>6. AnswersStay
    BY <1>2 DEF AnswersStay
  <1>7. stray' = deny' \cap (IF TooLate(r, p, e) THEN stray \cup {d} ELSE stray \ {d})
    BY <1>1 DEF RaceAttachDeny, Attached
  <1>8. ASSUME NEW c \in deny' \ stray'
        PROVE  c \in deny \ stray \/ (c = d /\ ~TooLate(r, p, e))
    BY <1>2, <1>7
  <1> QED
    BY <1>0, <1>1, <1>2, <1>3, <1>4, <1>5, <1>6, <1>8, AccountsNew

(* What a tagger is about to attach.                                       *)
LEMMA AnswerRecorded ==
  ASSUME Accounted, NEW w \in Taggers, tag[w].pc = "attach", NEW t \in tag[w].team,
         NEW me \in tag[w].todo, NEW r, ~TooLateFor(w, r, t, me)
  PROVE  /\ <<t, me[1]>> \in Pairs /\ Recorded(<<t, me[1]>>, me[2])
         /\ ~TooLate(r, <<t, me[1]>>, me[2])
  <1>1. tag[w] \in TagState
    BY DEF Accounted, Held, Shape, TypeOK
  <1>2. <<t, me[1]>> \in Pairs
    BY <1>1 DEF TagState, Policies, Pairs
  <1> QED
    BY <1>2 DEF Accounted, Accounts, AnswersCurrent, TooLateFor, Recorded

LEMMA AccountsInherits ==
  ASSUME Accounted, NEW w \in Taggers, NEW r \in Roles, NEW me \in Policies,
         RaceAttachInherited(w, r, me)
  PROVE  Accounts'
  <1>0. Held /\ AttachInherited(w, r, me) /\ outdated' = outdated
    BY DEF Accounted, RaceAttachInherited
  <1>1. /\ UNCHANGED <<enf, stream, blocked, rem, teamOf>>
        /\ tag[w].pc = "attach" /\ me \in tag[w].todo /\ OthersTag(w)
        /\ deny' = deny \cup {<<r, me[1], me[2]>>}
        /\ Ends(w) \/ GoesOn(w, "attach", tag[w].todo \ {me})
    BY <1>0, TaggerAttaches DEF Ends, GoesOn
  <1>2. PICK t \in tag[w].team : Attached(TooLateFor(w, r, t, me), {<<r, me[1], me[2]>>})
    BY DEF RaceAttachInherited
  <1>3. PICK p, e, d : p = <<t, me[1]>> /\ e = me[2] /\ d = <<r, p[2], e>>
    OBVIOUS
  <1>4. d = <<r, me[1], me[2]>>
    BY <1>3
  <1>5. p \in Pairs
    <2>1. tag[w] \in TagState
      BY <1>0 DEF Held, Shape, TypeOK
    <2> QED
      BY <1>1, <1>3, <2>1 DEF TagState, Policies, Pairs
  <1>6. \A z \in Shards : enf'[z] = enf[z] /\ Rec(z)' = Rec(z)
    BY <1>1 DEF Rec
  <1>7. AttachesStay /\ LiftsStay
    BY <1>1, <1>6 DEF AttachesStay, LiftsStay
  <1>8. AnswersStay
    BY <1>1 DEF Ends, GoesOn, OthersTag, AnswersStay
  <1>9. ASSUME NEW c \in deny' \ stray'
        PROVE  c \in deny \ stray \/ (c = d /\ ~TooLateFor(w, r, t, me))
    BY <1>1, <1>2, <1>4 DEF Attached
  <1>10. ~TooLateFor(w, r, t, me) => Recorded(p, e) /\ ~TooLate(r, p, e)
    BY <1>1, <1>3, AnswerRecorded
  <1> QED
    BY <1>0, <1>1, <1>3, <1>5, <1>7, <1>8, <1>9, <1>10, AccountsNew

LEMMA AccountsCrashTagger ==
  ASSUME Accounted, NEW w \in Taggers, RaceCrashTagger(w)
  PROVE  Accounts'
  <1>0. Held /\ CrashTagger(w) /\ outdated' = outdated
    BY DEF Accounted, RaceCrashTagger
  <1>1. /\ UNCHANGED <<enf, stream, blocked, rem, teamOf>> /\ OthersTag(w)
        /\ tag[w].pc \in {"query", "attach"} /\ deny \subseteq deny'
        /\ \A c \in deny' \ deny : \E r \in tag[w].role, me \in tag[w].todo :
             c = <<r, me[1], me[2]>>
        /\ tag'[w].pc # "attach"
    BY <1>0, TaggerCrashes DEF Ends, GoesOn
  <1>2. \A z \in Shards : enf'[z] = enf[z] /\ Rec(z)' = Rec(z)
    BY <1>1 DEF Rec
  <1>3. AttachesStay /\ LiftsStay
    BY <1>1, <1>2 DEF AttachesStay, LiftsStay
  <1>4. AnswersStay
    BY <1>1 DEF OthersTag, AnswersStay
  <1>5. deny' \cap stray \subseteq stray'
    BY DEF RaceCrashTagger
  <1>6. CASE deny' = deny
    <2>1. NothingNew
      BY <1>1, <1>5, <1>6 DEF NothingNew
    <2>2. LiftedInFull' /\ RecordedUnlessStray' /\ AnswersCurrent'
      BY <1>0, <1>1, <1>3, <1>4, <2>1, LiftedFrame, RecordedFrame, AnswersFrame
      DEF Accounted, Accounts, AnswersStay
    <2> QED
      BY <2>2 DEF Accounts
  <1>7. CASE deny' # deny
    <2>1. PICK r \in tag[w].role, me \in tag[w].todo : deny' = deny \cup {<<r, me[1], me[2]>>}
      BY <1>0, <1>7 DEF CrashTagger
    <2>2. PICK t \in Teams : r \in Roles /\ t \in tag[w].team
      BY <1>0, <1>1, <2>1, TagHeld
    <2>3. PICK p, e, d : p = <<t, me[1]>> /\ e = me[2] /\ d = <<r, p[2], e>>
      OBVIOUS
    <2>4. d = <<r, me[1], me[2]>>
      BY <2>3
    <2>5. tag[w] \in TagState
      BY <1>0 DEF Held, Shape, TypeOK
    <2>6. p \in Pairs
      BY <2>1, <2>2, <2>3, <2>5 DEF TagState, Policies, Pairs
    <2>7. TooLateFor(w, r, t, me) => d \in stray'
      BY <2>1, <2>2, <2>4 DEF RaceCrashTagger
    <2>8. ASSUME NEW c \in deny' \ stray'
          PROVE  c \in deny \ stray \/ (c = d /\ ~TooLateFor(w, r, t, me))
      BY <1>5, <2>1, <2>4, <2>7
    <2>9. tag[w].pc = "attach"
      BY <1>0, <2>1 DEF Held, OneTag
    <2>10. ~TooLateFor(w, r, t, me) => Recorded(p, e) /\ ~TooLate(r, p, e)
      BY <2>1, <2>2, <2>3, <2>9, AnswerRecorded
    <2> QED
      BY <1>0, <1>1, <1>3, <1>4, <2>2, <2>3, <2>6, <2>8, <2>10, AccountsNew
  <1> QED
    BY <1>6, <1>7

(* A role gets another team: its policies are astray.                      *)
LEMMA AccountsCache ==
  ASSUME Accounted, UNCHANGED <<enf, stream, rem, blocked, deny, outdated>>, AnswersStay,
         NEW r \in Roles, NEW t, teamOf' = [teamOf EXCEPT ![r] = t],
         \/ teamOf[r] = t /\ stray' = stray
         \/ stray' = stray \cup {d \in deny : d[1] = r}
  PROVE  Accounts'
  <1>0. /\ deny \subseteq Roles \X Models \X Endpoints
        /\ teamOf \in [Roles -> Teams \cup {NoTeam}]
    BY DEF Accounted, Held, Shape, TypeOK
  <1>1. NothingNew
    <2> SUFFICES ASSUME NEW d \in deny' \ stray'
                 PROVE  d \in deny \ stray /\ teamOf'[d[1]] = teamOf[d[1]]
      BY DEF NothingNew
    <2>1. d \in deny \ stray /\ d[1] \in Roles
      BY <1>0
    <2>2. teamOf[r] = t \/ d[1] # r
      OBVIOUS
    <2> QED
      BY <1>0, <2>1, <2>2
  <1>2. \A z \in Shards : enf'[z] = enf[z] /\ Rec(z)' = Rec(z)
    BY DEF Rec
  <1>3. AttachesStay /\ LiftsStay
    BY <1>2 DEF AttachesStay, LiftsStay
  <1>4. LiftedInFull' /\ RecordedUnlessStray' /\ AnswersCurrent'
    BY <1>1, <1>3, LiftedFrame, RecordedFrame, AnswersFrame
    DEF Accounted, Accounts, AnswersStay
  <1> QED
    BY <1>4 DEF Accounts

LEMMA AccountsRemap ==
  ASSUME Accounted, NEW r \in Roles, NEW t, RaceRemap(r, t)
  PROVE  Accounts'
  <1>1. /\ UNCHANGED <<enf, stream, rem, blocked, deny, tag, outdated>>
        /\ teamOf' = [teamOf EXCEPT ![r] = t]
        /\ stray' = stray \cup {d \in deny : d[1] = r}
    BY DEF RaceRemap, Remap, tables
  <1>2. AnswersStay
    BY <1>1 DEF AnswersStay
  <1> QED
    BY <1>1, <1>2, AccountsCache

LEMMA AccountsTags ==
  ASSUME Accounted, NEW w \in Taggers, NEW r \in Roles, NEW t \in Teams,
         RaceTagRole(w, r, t) \/ RaceRedeliver(w, r, t)
  PROVE  Accounts'
  <1>0. Held /\ (TagRole(w, r, t) \/ RedeliverTagRole(w, r, t)) /\ RaceCacheRole(r, t)
    BY DEF Accounted, RaceTagRole, RaceRedeliver
  <1>1. /\ UNCHANGED <<enf, stream, blocked, rem, deny>>
        /\ teamOf' = [teamOf EXCEPT ![r] = t]
        /\ OthersTag(w) /\ tag'[w].pc = "query"
    BY <1>0, TaggerCaches
  <1>2. AnswersStay
    BY <1>1 DEF OthersTag, AnswersStay
  <1>3. /\ outdated' = outdated
        /\ \/ teamOf[r] = t /\ stray' = stray
           \/ stray' = stray \cup {d \in deny : d[1] = r}
    BY <1>0 DEF RaceCacheRole
  <1> QED
    BY <1>1, <1>2, <1>3, AccountsCache

LEMMA AccountsQuery ==
  ASSUME Accounted, NEW w \in Taggers, NEW t \in Teams, RaceQueryBlocked(w, t)
  PROVE  Accounts'
  <1>0. /\ Held /\ QueryBlocked(w, t) /\ stray' = stray
        /\ outdated' = outdated \ ({w} \X Models)
    BY DEF Accounted, RaceQueryBlocked
  <1>1. /\ UNCHANGED <<enf, stream, blocked, rem, deny, teamOf>>
        /\ tag[w].team = {t} /\ OthersTag(w)
        /\ \/ tag'[w].pc = "idle"
           \/ /\ tag'[w].team = {t}
              /\ \A me \in tag'[w].todo : /\ blocked[<<t, me[1]>>].status = "BLOCKED"
                                          /\ blocked[<<t, me[1]>>].endpoint = me[2]
    BY <1>0, TaggerQueries DEF Ends, GoesOn
  <1>2. NothingNew
    BY <1>0, <1>1 DEF NothingNew
  <1>3. \A z \in Shards : enf'[z] = enf[z] /\ Rec(z)' = Rec(z)
    BY <1>1 DEF Rec
  <1>4. AttachesStay /\ LiftsStay
    BY <1>1, <1>3 DEF AttachesStay, LiftsStay
  <1>5. LiftedInFull' /\ RecordedUnlessStray'
    BY <1>1, <1>2, <1>4, LiftedFrame, RecordedFrame DEF Accounted, Accounts
  <1>6. AnswersCurrent'
    <2> SUFFICES ASSUME NEW v \in Taggers, tag'[v].pc = "attach",
                        NEW me \in tag'[v].todo, NEW u \in tag'[v].team
                 PROVE  \/ <<v, me[1]>> \in outdated'
                        \/ /\ blocked[<<u, me[1]>>].status = "BLOCKED"
                           /\ blocked[<<u, me[1]>>].endpoint = me[2]
      BY <1>1 DEF AnswersCurrent
    <2>1. CASE v = w
      BY <1>1, <2>1
    <2>2. CASE v # w
      <3>1. tag'[v] = tag[v]
        BY <1>1, <2>2 DEF OthersTag
      <3>2. <<v, me[1]>> \in outdated => <<v, me[1]>> \in outdated'
        BY <1>0, <2>2
      <3> QED
        BY <3>1, <3>2 DEF Accounted, Accounts, AnswersCurrent
    <2> QED
      BY <2>1, <2>2
  <1> QED
    BY <1>5, <1>6 DEF Accounts

LEMMA AccountedStep == Accounted /\ [RaceNext]_raceVars => Accounted'
  <1> SUFFICES ASSUME Accounted, [RaceNext]_raceVars PROVE Accounted'
    OBVIOUS
  <1>1. Held'
    BY HeldStep DEF Accounted
  <1>2. Accounts'
    <2>1. CASE OtherStep /\ UNCHANGED <<missed, stray, outdated>>
      BY <2>1, AccountsOthers
    <2>2. CASE \E r \in Roles, t \in Teams \cup {NoTeam} : RaceRemap(r, t)
      BY <2>2, AccountsRemap
    <2>3. ASSUME NEW s \in Shards, RaceEnforcer(s) PROVE Accounts'
      BY <2>3, AccountsListRoles, AccountsAttach, AccountsDetach, AccountsPut,
         AccountsFinishLift, AccountsCrashEnforcer DEF RaceEnforcer
    <2>4. ASSUME NEW x \in Removers, RaceRemover(x) PROVE Accounts'
      BY <2>4, AccountsRemove, AccountsSettle, AccountsCrashRemover DEF RaceRemover
    <2>5. ASSUME NEW w \in Taggers, RaceTagger(w) PROVE Accounts'
      BY <2>5, AccountsTags, AccountsQuery, AccountsInherits, AccountsCrashTagger
      DEF RaceTagger
    <2>6. CASE UNCHANGED raceVars
      <3>1. UNCHANGED <<enf, stream, rem, blocked, deny, teamOf, tag, stray, outdated>>
        BY <2>6 DEF raceVars, vars, tables
      <3>2. \A z \in Shards : enf'[z] = enf[z] /\ Rec(z)' = Rec(z)
        BY <3>1 DEF Rec
      <3>3. LiftsStay /\ AttachesStay
        BY <3>1, <3>2 DEF LiftsStay, AttachesStay
      <3> QED
        BY <3>1, <3>3, AccountsStop
    <2> QED
      BY <2>1, <2>2, <2>3, <2>4, <2>5, <2>6 DEF RaceNext
  <1> QED
    BY <1>1, <1>2 DEF Accounted

(* In every behaviour, with any number of teams, roles, shards and         *)
(* handlers that overlap, fail and are redelivered, a deny policy has the  *)
(* row that leads the reset, a lift or a manual removal to it, or an       *)
(* enforcer about to write it, unless the history names what set it astray *)
(* (putBlockedState, clearBlockedState, resetBlockedStatePair,             *)
(* handleTagRoleEvent).                                                    *)
THEOREM PoliciesAreRecorded == RaceSpec => []RecordedUnlessStray
  <1>1. RaceInit => Accounted
    BY InitAccounted
  <1>2. Accounted /\ [RaceNext]_raceVars => Accounted'
    BY AccountedStep
  <1>3. Accounted => RecordedUnlessStray
    BY DEF Accounted, Accounts
  <1> QED
    BY <1>1, <1>2, <1>3, PTL DEF RaceSpec
=============================================================================
