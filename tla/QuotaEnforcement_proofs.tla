---------------------- MODULE QuotaEnforcement_proofs ----------------------
EXTENDS QuotaEnforcement, SequenceTheorems, TLAPS

(* A row that records something is dated: Job could not be built from it   *)
(* otherwise.                                                              *)
RowsDated ==
  \A p \in Pairs : blocked[p].status # "NONE" => blocked[p].day \in Days

(* A running invocation stands inside its batch, and on a record of it     *)
(* while it evaluates one.                                                 *)
InvocationInBatch ==
  \A s \in Shards :
    /\ enf[s].pc # "idle" => enf[s].i >= 1 /\ enf[s].n <= Len(stream[s])
    /\ enf[s].pc \notin {"idle", "fetch"} => enf[s].i <= enf[s].n

Shape == TypeOK /\ RowsDated /\ InvocationInBatch

LEMMA InitShape == Init => Shape
  <1> SUFFICES ASSUME Init PROVE Shape
    OBVIOUS
  <1> USE ConstantsAssumption
  <1>1. TypeOK
    BY DEF Init, TypeOK, Days, Row, NoRow, EnfState, EnfIdle, RemState, RemIdle,
           TagState, TagIdle, Removers, Endpoints, Statuses, Budgets, Pairs, Policies
  <1>2. RowsDated /\ InvocationInBatch
    BY DEF Init, RowsDated, InvocationInBatch, NoRow, EnfIdle
  <1> QED
    BY <1>1, <1>2 DEF Shape

LEMMA RecTyped ==
  ASSUME Shape, NEW s \in Shards, enf[s].pc # "idle", enf[s].i <= enf[s].n
  PROVE  /\ Rec(s) \in Record
         /\ enf[s].i \in 1 .. Len(stream[s])
  BY DEF Shape, TypeOK, InvocationInBatch, Rec, EnfState

LEMMA SpendTyped ==
  ASSUME left \in [Budgets -> Nat], NEW b \in Budgets, Spend(b)
  PROVE  left' \in [Budgets -> Nat]
  <1>1. left[b] - 1 \in Nat
    BY DEF Spend
  <1> QED
    BY <1>1 DEF Spend

LEMMA WriteUsageShape ==
  ASSUME Shape, NEW p \in Pairs, NEW v \in 0 .. MaxTokens, NEW e \in Endpoints,
         WriteUsage(p, v, e)
  PROVE  Shape'
  <1> USE ConstantsAssumption
  <1> DEFINE rec == [pair |-> p, day |-> day, total |-> v, endpoint |-> e]
  <1>1. rec \in Record
    BY DEF Record, Shape, TypeOK
  <1>2. stream' = [stream EXCEPT ![ShardOf[p]] = Append(@, rec)]
    BY DEF WriteUsage
  <1>3. /\ stream' \in [Shards -> Seq(Record)]
        /\ \A s \in Shards : Len(stream'[s]) >= Len(stream[s])
    BY <1>1, <1>2 DEF Shape, TypeOK
  <1>4. left' \in [Budgets -> Nat] /\ usage' \in [Pairs -> 0 .. MaxTokens]
    BY SpendTyped DEF WriteUsage, Shape, TypeOK, Budgets
  <1>5. peak' \in [Pairs -> [Days -> 0 .. MaxTokens]]
    BY DEF WriteUsage, Shape, TypeOK
  <1>6. reached' \subseteq Pairs \X Days /\ served' \subseteq Pairs \X Endpoints
    BY DEF WriteUsage, Shape, TypeOK
  <1>7. TypeOK'
    BY <1>3, <1>4, <1>5, <1>6 DEF WriteUsage, Shape, TypeOK
  <1>8. RowsDated'
    BY DEF WriteUsage, Shape, RowsDated
  <1>9. InvocationInBatch'
    <2> SUFFICES ASSUME NEW s \in Shards
                 PROVE  /\ enf[s].pc # "idle" => enf[s].i >= 1 /\ enf[s].n <= Len(stream'[s])
                        /\ enf[s].pc \notin {"idle", "fetch"} => enf[s].i <= enf[s].n
      BY DEF WriteUsage, InvocationInBatch
    <2>1. enf[s].n \in Nat
      BY DEF Shape, TypeOK, EnfState
    <2>2. Len(stream[s]) \in Nat /\ Len(stream'[s]) \in Nat /\ Len(stream'[s]) >= Len(stream[s])
      BY <1>3 DEF Shape, TypeOK
    <2> QED
      BY <2>1, <2>2 DEF Shape, InvocationInBatch
  <1> QED
    BY <1>7, <1>8, <1>9 DEF Shape

LEMMA EnvironmentShape ==
  ASSUME Shape, Environment
  PROVE  Shape'
  <1> USE ConstantsAssumption
  <1>1. CASE \E p \in Pairs, k \in 1 .. MaxTokens : AddUsage(p, k)
    <2> PICK p \in Pairs, k \in 1 .. MaxTokens : AddUsage(p, k)
      BY <1>1
    <2>1. usage[p] + k \in 0 .. MaxTokens
      BY DEF AddUsage, Shape, TypeOK
    <2> QED
      BY <2>1, WriteUsageShape DEF AddUsage, Endpoints
  <1>2. CASE \E p \in Pairs, v \in 1 .. MaxTokens : SetUsage(p, v)
    BY <1>2, WriteUsageShape DEF SetUsage, Endpoints
  <1>3. ASSUME NEW p \in Pairs, NEW q \in 1 .. MaxTokens, PutQuota(p, q)
        PROVE  Shape'
    <2>1. left' \in [Budgets -> Nat]
      BY <1>3, SpendTyped DEF PutQuota, Shape, TypeOK, Budgets
    <2>2. quota' \in [Pairs -> 0 .. MaxTokens] /\ reached' \subseteq Pairs \X Days
      BY <1>3 DEF PutQuota, Shape, TypeOK
    <2>3. TypeOK'
      BY <1>3, <2>1, <2>2 DEF PutQuota, Shape, TypeOK
    <2> QED
      BY <1>3, <2>3 DEF PutQuota, Shape, RowsDated, InvocationInBatch
  <1>4. ASSUME NEW r \in Roles, NEW t \in Teams \cup {NoTeam}, Remap(r, t)
        PROVE  Shape'
    <2>1. left' \in [Budgets -> Nat]
      BY <1>4, SpendTyped DEF Remap, Shape, TypeOK, Budgets
    <2>2. TypeOK'
      BY <1>4, <2>1 DEF Remap, tables, Shape, TypeOK
    <2> QED
      BY <1>4, <2>2 DEF Remap, tables, Shape, RowsDated, InvocationInBatch
  <1>5. CASE NextDay
    <2>1. day' \in Days /\ usage' \in [Pairs -> 0 .. MaxTokens] /\ due' \in 0 .. Attempts
      BY <1>5 DEF NextDay, Shape, TypeOK, Days
    <2>2. TypeOK'
      BY <1>5, <2>1 DEF NextDay, history, Shape, TypeOK
    <2> QED
      BY <1>5, <2>2 DEF NextDay, Shape, RowsDated, InvocationInBatch
  <1> QED
    BY <1>1, <1>2, <1>3, <1>4, <1>5 DEF Environment

(* An enforcer step replaces the invocation of its shard by one that       *)
(* stands in the same batch.                                               *)
LEMMA EnforcerMoves ==
  ASSUME Shape, NEW s \in Shards, NEW e \in EnfState,
         enf' = [enf EXCEPT ![s] = e],
         stream' = stream,
         e.pc # "idle" => e.i >= 1 /\ e.n <= Len(stream[s]),
         e.pc \notin {"idle", "fetch"} => e.i <= e.n
  PROVE  enf' \in [Shards -> EnfState] /\ InvocationInBatch'
  BY DEF Shape, TypeOK, InvocationInBatch

LEMMA NextRecordTyped ==
  ASSUME Shape, NEW s \in Shards, enf[s].pc # "idle"
  PROVE  /\ NextRecord(s) \in EnfState
         /\ NextRecord(s).pc = "fetch"
         /\ NextRecord(s).i >= 1
         /\ NextRecord(s).n <= Len(stream[s])
  <1>1. enf[s] \in EnfState
    BY DEF Shape, TypeOK
  <1>2. enf[s].i + 1 \in Nat
    BY <1>1 DEF EnfState
  <1>3. /\ NextRecord(s) \in EnfState
        /\ NextRecord(s).pc = "fetch"
        /\ NextRecord(s).i = enf[s].i + 1
        /\ NextRecord(s).n = enf[s].n
    BY <1>1, <1>2 DEF EnfState, NextRecord
  <1> QED
    BY <1>1, <1>3 DEF EnfState, Shape, InvocationInBatch

(* The invocation goes on with the record it is evaluating.                *)
LEMMA SameRecord ==
  ASSUME Shape, NEW s \in Shards, enf[s].pc # "idle", enf[s].i <= enf[s].n,
         NEW e \in EnfState, e.i = enf[s].i, e.n = enf[s].n, e.pc # "idle",
         stream' = stream, enf' = [enf EXCEPT ![s] = e]
  PROVE  enf' \in [Shards -> EnfState] /\ InvocationInBatch'
  BY EnforcerMoves DEF Shape, InvocationInBatch

LEMMA RoleShape ==
  ASSUME Shape, NEW s \in Shards, NEW r \in Roles, NEW policies,
         enf[s].pc # "idle", enf[s].i <= enf[s].n,
         stream' = stream, EnforcerRole(s, r, policies)
  PROVE  /\ enf' \in [Shards -> EnfState] /\ InvocationInBatch'
         /\ left' \in [Budgets -> Nat]
         /\ deny' \in {deny, policies}
  <1>0. enf[s] \in EnfState
    BY DEF Shape, TypeOK
  <1>1. CASE enf' = [enf EXCEPT ![s].todo = @ \ {r}] /\ deny' = policies /\ UNCHANGED left
    <2> DEFINE e == [enf[s] EXCEPT !.todo = @ \ {r}]
    <2>1. e \in EnfState /\ e.i = enf[s].i /\ e.n = enf[s].n /\ e.pc = enf[s].pc
      BY <1>0 DEF EnfState
    <2>2. enf' = [enf EXCEPT ![s] = e]
      BY <1>1
    <2> HIDE DEF e
    <2> QED
      BY <1>1, <2>1, <2>2, SameRecord DEF Shape, TypeOK
  <1>2. CASE /\ enf' = [enf EXCEPT ![s] = [enf[s] EXCEPT !.todo = @ \ {r}, !.failed = TRUE]]
             /\ deny' \in {deny, policies}
             /\ Spend("fault")
    <2> DEFINE e == [enf[s] EXCEPT !.todo = @ \ {r}, !.failed = TRUE]
    <2>1. e \in EnfState /\ e.i = enf[s].i /\ e.n = enf[s].n /\ e.pc = enf[s].pc
      BY <1>0 DEF EnfState
    <2>2. enf' = [enf EXCEPT ![s] = e]
      BY <1>2
    <2>3. left' \in [Budgets -> Nat]
      BY <1>2, SpendTyped DEF Shape, TypeOK, Budgets
    <2> HIDE DEF e
    <2> QED
      BY <1>2, <2>1, <2>2, <2>3, SameRecord
  <1> QED
    BY <1>1, <1>2 DEF EnforcerRole

(* Moving the checkpoint of an invocation that ends.                       *)
LEMMA CheckpointShape ==
  ASSUME Shape, NEW s \in Shards, enf[s].pc # "idle", Checkpoint(s),
         enf' = [enf EXCEPT ![s] = EnfIdle],
         left' \in [Budgets -> Nat],
         UNCHANGED checkpointUnchanged
  PROVE  Shape'
  <1> USE ConstantsAssumption
  <1>1. SubSeq(stream[s], enf[s].n + 1, Len(stream[s])) \in Seq(Record)
    BY SubSeqProperties DEF Shape, TypeOK, EnfState
  <1>2. stream' \in [Shards -> Seq(Record)]
    BY <1>1 DEF Checkpoint, Shape, TypeOK
  <1>3. EnfIdle \in EnfState /\ EnfIdle.pc = "idle"
    BY DEF EnfIdle, EnfState, Days
  <1>4. enf' \in [Shards -> EnfState] /\ InvocationInBatch'
    BY <1>3 DEF Checkpoint, Shape, TypeOK, InvocationInBatch
  <1> QED
    BY <1>2, <1>4 DEF checkpointUnchanged, history, Shape, TypeOK, RowsDated

LEMMA EnforcerShape ==
  ASSUME Shape, NEW s \in Shards, EnforcerStep(s)
  PROVE  Shape'
  <1> USE ConstantsAssumption DEF enforcerUnchanged, tables
  <1>0. enf[s] \in EnfState
    BY DEF Shape, TypeOK
  <1>1. CASE StartBatch(s)
    <2>1. PICK n \in 1 .. Earlier(BatchSize, Len(stream[s])) :
            enf' = [enf EXCEPT ![s] = [enf[s] EXCEPT !.pc = "fetch", !.now = day, !.n = n, !.i = 1]]
      BY <1>1 DEF StartBatch
    <2> DEFINE e == [enf[s] EXCEPT !.pc = "fetch", !.now = day, !.n = n, !.i = 1]
    <2>2. n \in Nat /\ n <= Len(stream[s])
      BY DEF Earlier, Shape, TypeOK
    <2>3. day \in Days
      BY DEF Shape, TypeOK
    <2>4. e \in EnfState /\ e.pc = "fetch" /\ e.i = 1 /\ e.n = n
      BY <1>0, <2>2, <2>3 DEF EnfState
    <2>5. enf' = [enf EXCEPT ![s] = e]
      BY <2>1
    <2> HIDE DEF e
    <2>6. enf' \in [Shards -> EnfState] /\ InvocationInBatch'
      <3>1. stream' = stream
        BY <1>1 DEF StartBatch
      <3>2. e.i >= 1 /\ e.n <= Len(stream[s])
        BY <2>2, <2>4
      <3>3. ~(e.pc \notin {"idle", "fetch"})
        BY <2>4
      <3> QED
        BY <2>4, <2>5, <3>1, <3>2, <3>3, EnforcerMoves
    <2> QED
      BY <1>1, <2>6 DEF StartBatch, Shape, TypeOK, RowsDated
  <1>2. CASE SkipRecord(s)
    <2>1. enf' \in [Shards -> EnfState] /\ InvocationInBatch'
      BY <1>2, NextRecordTyped, EnforcerMoves DEF SkipRecord
    <2> QED
      BY <1>2, <2>1 DEF SkipRecord, Shape, TypeOK, RowsDated
  <1>3. CASE ReadQuota(s)
    <2>1. PICK l \in {"liftGuard", "guard"} : enf' = [enf EXCEPT ![s].pc = l]
      <3> PICK l : l = IF quota[Rec(s).pair] = 0 \/ Rec(s).total < quota[Rec(s).pair]
                       THEN "liftGuard" ELSE "guard"
        OBVIOUS
      <3> QED
        BY <1>3 DEF ReadQuota
    <2> DEFINE e == [enf[s] EXCEPT !.pc = l]
    <2>2. e \in EnfState /\ e.pc = l /\ e.i = enf[s].i /\ e.n = enf[s].n
      <3>1. e.pc = l /\ e.i = enf[s].i /\ e.n = enf[s].n
        BY <1>0 DEF EnfState
      <3>2. e \in EnfState
        BY <1>0 DEF EnfState
      <3> QED
        BY <3>1, <3>2
    <2>3. enf' = [enf EXCEPT ![s] = e]
      BY <2>1
    <2> HIDE DEF e
    <2>4. enf' \in [Shards -> EnfState] /\ InvocationInBatch'
      <3>1. enf[s].pc # "idle" /\ enf[s].i <= enf[s].n /\ stream' = stream
        BY <1>3 DEF ReadQuota
      <3>2. e.pc # "idle"
        BY <2>2
      <3> QED
        BY <2>2, <2>3, <3>1, <3>2, SameRecord
    <2> QED
      BY <1>3, <2>4 DEF ReadQuota, Shape, TypeOK, RowsDated
  <1>4. CASE CheckBlocked(s)
    <2>1. enf[s].i <= enf[s].n
      BY <1>4 DEF CheckBlocked, Shape, InvocationInBatch
    <2> DEFINE e == [enf[s] EXCEPT !.pc = "list"]
    <2>2. e \in EnfState /\ e.pc = "list" /\ e.i = enf[s].i /\ e.n = enf[s].n
      BY <1>0 DEF EnfState
    <2>3. enf' = [enf EXCEPT ![s] = NextRecord(s)] \/ enf' = [enf EXCEPT ![s] = e]
      BY <1>4 DEF CheckBlocked
    <2> HIDE DEF e
    <2>4. enf' \in [Shards -> EnfState] /\ InvocationInBatch'
      BY <1>4, <2>1, <2>2, <2>3, SameRecord, NextRecordTyped, EnforcerMoves DEF CheckBlocked
    <2> QED
      BY <1>4, <2>4 DEF CheckBlocked, Shape, TypeOK, RowsDated
  <1>5. CASE ListRoles(s)
    <2>1. enf[s].i <= enf[s].n
      BY <1>5 DEF ListRoles, Shape, InvocationInBatch
    <2>2. PICK l \in {"attach", "detach"} :
            enf' = [enf EXCEPT ![s] = [enf[s] EXCEPT
                      !.pc = l, !.todo = RolesOf(Rec(s).pair[1]), !.failed = FALSE]]
      BY <1>0, <1>5 DEF ListRoles
    <2> DEFINE e == [enf[s] EXCEPT
                       !.pc = l, !.todo = RolesOf(Rec(s).pair[1]), !.failed = FALSE]
    <2>3. e \in EnfState /\ e.pc = l /\ e.i = enf[s].i /\ e.n = enf[s].n
      BY <1>0 DEF EnfState, RolesOf
    <2>4. enf' = [enf EXCEPT ![s] = e]
      BY <2>2
    <2> HIDE DEF e
    <2>5. enf' \in [Shards -> EnfState] /\ InvocationInBatch'
      BY <1>5, <2>1, <2>3, <2>4, SameRecord DEF ListRoles
    <2> QED
      BY <1>5, <2>5 DEF ListRoles, Shape, TypeOK, RowsDated
  <1>6. ASSUME NEW r \in Roles, AttachDeny(s, r)
        PROVE  Shape'
    <2>1. enf[s].pc = "attach" /\ enf[s].i <= enf[s].n
      BY <1>6 DEF AttachDeny, Shape, InvocationInBatch
    <2>2. <<r, Rec(s).pair[2], Rec(s).endpoint>> \in Roles \X Models \X Endpoints
      BY <2>1, RecTyped DEF Record, Pairs
    <2>3. /\ enf' \in [Shards -> EnfState] /\ InvocationInBatch'
          /\ left' \in [Budgets -> Nat]
          /\ deny' \in {deny, deny \cup {<<r, Rec(s).pair[2], Rec(s).endpoint>>}}
      BY <1>6, <2>1, RoleShape DEF AttachDeny
    <2> QED
      BY <1>6, <2>2, <2>3 DEF AttachDeny, Shape, TypeOK, RowsDated
  <1>7. CASE PutBlockedState(s)
    <2>1. enf' \in [Shards -> EnfState] /\ InvocationInBatch'
      BY <1>7, NextRecordTyped, EnforcerMoves DEF PutBlockedState
    <2>2. Rec(s) \in Record
      BY <1>7, RecTyped DEF PutBlockedState, Shape, InvocationInBatch
    <2>3. blocked' \in [Pairs -> Row] /\ RowsDated' /\ late' \subseteq Pairs \X Days
      BY <1>7, <2>2 DEF PutBlockedState, Shape, TypeOK, RowsDated, Row, Record, Days, Statuses
    <2> QED
      BY <1>7, <2>1, <2>3 DEF PutBlockedState, Shape, TypeOK
  <1>8. CASE LiftGuard(s)
    <2>1. enf[s].i <= enf[s].n
      BY <1>8 DEF LiftGuard, Shape, InvocationInBatch
    <2> DEFINE e == [enf[s] EXCEPT !.pc = "liftList"]
    <2>2. e \in EnfState /\ e.pc = "liftList" /\ e.i = enf[s].i /\ e.n = enf[s].n
      BY <1>0 DEF EnfState
    <2>3. enf' = [enf EXCEPT ![s] = NextRecord(s)] \/ enf' = [enf EXCEPT ![s] = e]
      BY <1>8 DEF LiftGuard
    <2> HIDE DEF e
    <2>4. enf' \in [Shards -> EnfState] /\ InvocationInBatch'
      BY <1>8, <2>1, <2>2, <2>3, SameRecord, NextRecordTyped, EnforcerMoves DEF LiftGuard
    <2> QED
      BY <1>8, <2>4 DEF LiftGuard, Shape, TypeOK, RowsDated
  <1>9. ASSUME NEW r \in Roles, DetachDeny(s, r)
        PROVE  Shape'
    <2>1. enf[s].pc = "detach" /\ enf[s].i <= enf[s].n
      BY <1>9 DEF DetachDeny, Shape, InvocationInBatch
    <2>2. /\ enf' \in [Shards -> EnfState] /\ InvocationInBatch'
          /\ left' \in [Budgets -> Nat]
          /\ deny' \in {deny, deny \ {<<r, Rec(s).pair[2], Rec(s).endpoint>>}}
      BY <1>9, <2>1, RoleShape DEF DetachDeny
    <2> QED
      BY <1>9, <2>2 DEF DetachDeny, Shape, TypeOK, RowsDated
  <1>10. CASE FinishLift(s)
    <2>1. enf' \in [Shards -> EnfState] /\ InvocationInBatch'
      BY <1>10, NextRecordTyped, EnforcerMoves DEF FinishLift
    <2>2. NoRow \in Row /\ NoRow.status = "NONE"
      BY DEF Row, NoRow, Endpoints
    <2>3. blocked' \in [Pairs -> Row] /\ RowsDated'
      BY <1>10, <2>2 DEF FinishLift, Shape, TypeOK, RowsDated
    <2> QED
      BY <1>10, <2>1, <2>3 DEF FinishLift, Shape, TypeOK
  <1>11. CASE FinishBatch(s)
    <2>1. left' \in [Budgets -> Nat]
      BY <1>11 DEF FinishBatch, Shape, TypeOK
    <2> QED
      BY <1>11, <2>1, CheckpointShape DEF FinishBatch
  <1> QED
    BY <1>1, <1>2, <1>3, <1>4, <1>5, <1>6, <1>7, <1>8, <1>9, <1>10, <1>11 DEF EnforcerStep

(* The invocations of the removers and of the TagRole handler meet the     *)
(* others only through the tables.                                         *)
LEMMA RemIdleTyped == RemIdle \in RemState
  <1> USE ConstantsAssumption
  <1> QED
    BY DEF RemIdle, RemState

LEMMA ResetShape ==
  ASSUME Shape, ResetStep
  PROVE  Shape'
  <1> USE ConstantsAssumption DEF removerUnchanged, tables
  <1>0. "reset" \in Removers /\ rem["reset"] \in RemState
    BY DEF Removers, Shape, TypeOK
  <1>1. CASE StartReset
    <2> DEFINE e == [RemIdle EXCEPT !.pc = "query", !.prev = day - 1, !.ask = Statuses]
    <2>1. day - 1 \in 0 .. MaxDay
      BY DEF Shape, TypeOK, Days
    <2>2. e \in RemState
      BY <2>1, RemIdleTyped DEF RemState
    <2>3. rem' = [rem EXCEPT !["reset"] = e]
      BY <1>1 DEF StartReset
    <2> HIDE DEF e
    <2>4. rem' \in [Removers -> RemState] /\ due' \in 0 .. Attempts
      BY <1>0, <1>1, <2>2, <2>3 DEF StartReset, Shape, TypeOK
    <2> QED
      BY <1>1, <2>4 DEF StartReset, Shape, TypeOK, RowsDated, InvocationInBatch
  <1>2. ASSUME NEW st \in Statuses, QueryPairs(st)
        PROVE  Shape'
    <2> DEFINE prev  == rem["reset"].prev
               found == {p \in Pairs : blocked[p].status = st /\ blocked[p].day = prev}
               jobs  == {[pair |-> p, status |-> st, day |-> prev,
                          endpoint |-> blocked[p].endpoint] : p \in found}
               ask   == rem["reset"].ask \ {st}
               next  == IF ask = {} THEN "next" ELSE "query"
               e     == [rem["reset"] EXCEPT
                           !.queue = @ \cup jobs, !.ask = ask, !.pc = next]
    <2>1. rem' = [rem EXCEPT !["reset"] = e]
      BY <1>2 DEF QueryPairs
    <2>2. ASSUME NEW p \in found
          PROVE  [pair |-> p, status |-> st, day |-> prev,
                  endpoint |-> blocked[p].endpoint] \in Job
      <3>1. p \in Pairs /\ blocked[p] \in Row /\ blocked[p].status # "NONE" /\ blocked[p].day = prev
        BY DEF Shape, TypeOK, Statuses
      <3>2. prev \in Days /\ blocked[p].endpoint \in Endpoints
        BY <3>1 DEF Shape, RowsDated, Row
      <3> QED
        BY <3>1, <3>2 DEF Job
    <2>3. jobs \subseteq Job
      BY <2>2
    <2>4. ask \subseteq Statuses /\ next \in {"next", "query"}
      BY <1>0 DEF RemState
    <2> HIDE DEF jobs, ask, next
    <2>5. e \in RemState
      BY <1>0, <2>3, <2>4 DEF RemState
    <2> HIDE DEF e
    <2>6. rem' \in [Removers -> RemState]
      BY <1>0, <2>1, <2>5 DEF Shape, TypeOK
    <2> QED
      BY <1>2, <2>6 DEF QueryPairs, Shape, TypeOK, RowsDated, InvocationInBatch
  <1> QED
    BY <1>1, <1>2 DEF ResetStep

LEMMA RemoverShape ==
  ASSUME Shape, NEW x \in Removers, RemoverStep(x)
  PROVE  Shape'
  <1> USE ConstantsAssumption DEF removerUnchanged, tables
  <1>0. rem[x] \in RemState
    BY DEF Shape, TypeOK
  <1>1. ASSUME NEW j \in rem[x].queue, BeginPair(x, j)
        PROVE  Shape'
    <2> DEFINE e == [rem[x] EXCEPT
                       !.pc = "remove", !.queue = @ \ {j}, !.cur = {j},
                       !.todo = RolesOf(j.pair[1]), !.failed = FALSE]
    <2>1. j \in Job /\ RolesOf(j.pair[1]) \subseteq Roles
      BY <1>0 DEF RemState, RolesOf
    <2>2. e \in RemState
      BY <1>0, <2>1 DEF RemState
    <2>3. rem' = [rem EXCEPT ![x] = e]
      BY <1>1 DEF BeginPair
    <2> HIDE DEF e
    <2>4. rem' \in [Removers -> RemState]
      BY <2>2, <2>3 DEF Shape, TypeOK
    <2> QED
      BY <1>1, <2>4 DEF BeginPair, Shape, TypeOK, RowsDated, InvocationInBatch
  <1>2. ASSUME NEW r \in Roles, RemoveDeny(x, r)
        PROVE  Shape'
    <2> DEFINE e == [rem[x] EXCEPT !.todo = @ \ {r}]
               f == [rem[x] EXCEPT !.todo = @ \ {r}, !.failed = TRUE]
    <2>1. e \in RemState /\ f \in RemState
      BY <1>0 DEF RemState
    <2>2. PICK j \in rem[x].cur :
            LET policies == deny \ {<<r, j.pair[2], j.endpoint>>}
            IN  \/ /\ deny' = policies
                   /\ rem' = [rem EXCEPT ![x].todo = @ \ {r}]
                   /\ UNCHANGED left
                \/ /\ Spend("fault")
                   /\ deny' \in {deny, policies}
                   /\ rem' = [rem EXCEPT ![x] = [rem[x] EXCEPT !.todo = @ \ {r}, !.failed = TRUE]]
      BY <1>2 DEF RemoveDeny
    <2>3. rem' = [rem EXCEPT ![x] = e] \/ rem' = [rem EXCEPT ![x] = f]
      BY <2>2
    <2>4. deny' \subseteq deny
      BY <2>2
    <2>5. left' \in [Budgets -> Nat]
      BY <2>2, SpendTyped DEF Shape, TypeOK, Budgets
    <2> HIDE DEF e, f
    <2>6. rem' \in [Removers -> RemState]
      BY <2>1, <2>3 DEF Shape, TypeOK
    <2> QED
      BY <1>2, <2>4, <2>5, <2>6 DEF RemoveDeny, Shape, TypeOK, RowsDated, InvocationInBatch
  <1>3. CASE SettlePair(x)
    <2> DEFINE e == [rem[x] EXCEPT !.pc = "next", !.cur = {}, !.failed = FALSE]
    <2>1. e \in RemState /\ rem' = [rem EXCEPT ![x] = e]
      BY <1>0, <1>3 DEF SettlePair, RemState
    <2> HIDE DEF e
    <2>2. rem' \in [Removers -> RemState]
      BY <2>1 DEF Shape, TypeOK
    <2>3. PICK j \in rem[x].cur :
            blocked' = [blocked EXCEPT ![j.pair] =
              IF rem[x].failed
              THEN [status |-> "PENDING_RESET", day |-> j.day, endpoint |-> j.endpoint]
              ELSE NoRow]
      BY <1>3 DEF SettlePair
    <2>4. j.pair \in Pairs /\ j.day \in Days /\ j.endpoint \in Endpoints
      BY <1>0 DEF RemState, Job
    <2> DEFINE row == IF rem[x].failed
                      THEN [status |-> "PENDING_RESET", day |-> j.day, endpoint |-> j.endpoint]
                      ELSE NoRow
    <2>5. row \in Row /\ (row.status # "NONE" => row.day \in Days)
      BY <2>4 DEF Row, NoRow, Statuses, Days, Endpoints
    <2>6. blocked' = [blocked EXCEPT ![j.pair] = row]
      BY <2>3
    <2> HIDE DEF row
    <2>7. blocked' \in [Pairs -> Row] /\ RowsDated'
      BY <2>4, <2>5, <2>6 DEF Shape, TypeOK, RowsDated
    <2> QED
      BY <1>3, <2>2, <2>7 DEF SettlePair, Shape, TypeOK, InvocationInBatch
  <1>4. CASE FinishRemover(x)
    <2>1. rem' \in [Removers -> RemState]
      BY <1>4, RemIdleTyped DEF FinishRemover, Shape, TypeOK
    <2>2. due' \in 0 .. Attempts /\ swept' \subseteq 0 .. MaxDay
      <3>1. rem[x].prev \in 0 .. MaxDay
        BY <1>0 DEF RemState
      <3>2. CASE x = "reset"
        <4>1. due' = 0 /\ swept' = swept \cup {rem[x].prev}
          BY <1>4, <3>2 DEF FinishRemover
        <4>2. 0 \in 0 .. Attempts
          OBVIOUS
        <4>3. swept' \subseteq 0 .. MaxDay
          BY <3>1, <4>1, Zenon DEF Shape, TypeOK
        <4> QED
          BY <4>1, <4>2, <4>3
      <3>3. CASE x # "reset"
        BY <1>4, <3>3 DEF FinishRemover, Shape, TypeOK
      <3> QED
        BY <3>2, <3>3
    <2> QED
      BY <1>4, <2>1, <2>2 DEF FinishRemover, Shape, TypeOK, RowsDated, InvocationInBatch
  <1> QED
    BY <1>1, <1>2, <1>3, <1>4 DEF RemoverStep

LEMMA ManualShape ==
  ASSUME Shape, NEW x \in Admins, NEW p \in Pairs, StartManual(x, p)
  PROVE  Shape'
  <1> USE ConstantsAssumption DEF removerUnchanged, tables
  <1> DEFINE row == blocked[p]
             job == IF row.status = "NONE"
                    THEN [pair |-> p, status |-> "BLOCKED", day |-> day,
                          endpoint |-> "bedrock-runtime"]
                    ELSE [pair |-> p, status |-> row.status, day |-> row.day,
                          endpoint |-> row.endpoint]
             e   == [RemIdle EXCEPT !.pc = "next", !.queue = {job}]
  <1>1. row \in Row /\ day \in Days
    BY DEF Shape, TypeOK
  <1>2. job \in Job
    <2>1. CASE row.status = "NONE"
      BY <1>1, <2>1 DEF Job, Statuses, Endpoints
    <2>2. CASE row.status # "NONE"
      BY <1>1, <2>2 DEF Job, Row, Shape, RowsDated
    <2> QED
      BY <2>1, <2>2
  <1>3. rem' = [rem EXCEPT ![x] = e]
    BY DEF StartManual
  <1> HIDE DEF job
  <1>4. e \in RemState
    BY <1>2, RemIdleTyped DEF RemState
  <1> HIDE DEF e
  <1>5. rem' \in [Removers -> RemState] /\ left' \in [Budgets -> Nat]
    BY <1>3, <1>4, SpendTyped DEF StartManual, Shape, TypeOK, Removers, Budgets
  <1> QED
    BY <1>5 DEF StartManual, Shape, TypeOK, RowsDated, InvocationInBatch

LEMMA TagIdleTyped == TagIdle \in TagState
  BY DEF TagIdle, TagState

LEMMA CacheRoleShape ==
  ASSUME Shape, NEW w \in Taggers, NEW r \in Roles, NEW t \in Teams,
         CacheRole(w, r, t), left' \in [Budgets -> Nat]
  PROVE  Shape'
  <1> USE DEF taggerUnchanged, tables
  <1> DEFINE e == [tag[w] EXCEPT !.pc = "query", !.role = {r}, !.team = {t}, !.tries = @ + 1]
  <1>1. tag[w] \in TagState
    BY DEF Shape, TypeOK
  <1>2. tag[w].tries + 1 \in Nat
    BY <1>1 DEF TagState
  <1>3. e \in TagState /\ tag' = [tag EXCEPT ![w] = e]
    BY <1>1, <1>2 DEF CacheRole, TagState
  <1> HIDE DEF e
  <1>4. tag' \in [Taggers -> TagState]
    BY <1>3 DEF Shape, TypeOK
  <1> QED
    BY <1>4 DEF CacheRole, Shape, TypeOK, RowsDated, InvocationInBatch

LEMMA TaggerShape ==
  ASSUME Shape, NEW w \in Taggers, TaggerStep(w)
  PROVE  Shape'
  <1> USE DEF taggerUnchanged, tables
  <1>0. tag[w] \in TagState
    BY DEF Shape, TypeOK
  <1>1. ASSUME NEW r \in Roles, NEW t \in Teams, RedeliverTagRole(w, r, t)
        PROVE  Shape'
    BY <1>1, CacheRoleShape DEF RedeliverTagRole, Shape, TypeOK
  <1>2. ASSUME NEW t \in Teams, QueryBlocked(w, t)
        PROVE  Shape'
    <2> DEFINE found == {m \in Models : blocked[<<t, m>>].status = "BLOCKED"}
               todo  == {<<m, blocked[<<t, m>>].endpoint>> : m \in found}
               e     == [tag[w] EXCEPT !.pc = "attach", !.todo = todo]
    <2>1. todo \subseteq Policies
      <3>1. ASSUME NEW m \in found
            PROVE  <<m, blocked[<<t, m>>].endpoint>> \in Policies
        <4>1. blocked[<<t, m>>] \in Row
          BY DEF Shape, TypeOK, Pairs
        <4> QED
          BY <4>1 DEF Row, Policies
      <3> QED
        BY <3>1
    <2>2. tag' = [tag EXCEPT ![w] = TagIdle] \/ tag' = [tag EXCEPT ![w] = e]
      BY <1>2 DEF QueryBlocked
    <2> HIDE DEF todo
    <2>3. e \in TagState
      BY <1>0, <2>1 DEF TagState
    <2> HIDE DEF e
    <2>4. tag' \in [Taggers -> TagState]
      BY <2>2, <2>3, TagIdleTyped DEF Shape, TypeOK
    <2> QED
      BY <1>2, <2>4 DEF QueryBlocked, Shape, TypeOK, RowsDated, InvocationInBatch
  <1>3. ASSUME NEW r \in Roles, NEW me \in Policies, AttachInherited(w, r, me)
        PROVE  Shape'
    <2> DEFINE e == [tag[w] EXCEPT !.todo = @ \ {me}]
    <2>1. e \in TagState
      BY <1>0 DEF TagState
    <2>2. tag' = [tag EXCEPT ![w] = TagIdle] \/ tag' = [tag EXCEPT ![w] = e]
      BY <1>3 DEF AttachInherited
    <2> HIDE DEF e
    <2>3. tag' \in [Taggers -> TagState]
      BY <2>1, <2>2, TagIdleTyped DEF Shape, TypeOK
    <2>4. deny' \subseteq Roles \X Models \X Endpoints
      BY <1>3 DEF AttachInherited, Policies, Shape, TypeOK
    <2> QED
      BY <1>3, <2>3, <2>4 DEF AttachInherited, Shape, TypeOK, RowsDated, InvocationInBatch
  <1> QED
    BY <1>1, <1>2, <1>3 DEF TaggerStep

LEMMA RequestShape ==
  ASSUME Shape, Request
  PROVE  Shape'
  <1>1. ASSUME NEW w \in Taggers, NEW r \in Roles, NEW t \in Teams, TagRole(w, r, t)
        PROVE  Shape'
    BY <1>1, CacheRoleShape, SpendTyped DEF TagRole, Budgets, Shape, TypeOK
  <1> QED
    BY <1>1, ManualShape DEF Request

LEMMA CrashShape ==
  ASSUME Shape, Crash
  PROVE  Shape'
  <1>0. ASSUME Spend("fault")
        PROVE  left' \in [Budgets -> Nat]
    BY <1>0, SpendTyped DEF Shape, TypeOK, Budgets
  <1>1. ASSUME NEW s \in Shards, CrashEnforcer(s)
        PROVE  Shape'
    <2>1. CASE enf[s].tries + 1 = MaxDeliveries
      BY <1>0, <1>1, <2>1, CheckpointShape DEF CrashEnforcer
    <2>2. CASE enf[s].tries + 1 # MaxDeliveries
      <3> DEFINE e == [EnfIdle EXCEPT !.tries = enf[s].tries + 1]
      <3>1. enf[s].tries + 1 \in Nat
        BY DEF Shape, TypeOK, EnfState
      <3>2. e \in EnfState /\ e.pc = "idle"
        <4>1. EnfIdle \in EnfState /\ EnfIdle.pc = "idle"
          BY ConstantsAssumption DEF EnfIdle, EnfState, Days
        <4> QED
          BY <3>1, <4>1 DEF EnfState
      <3>3. enf' = [enf EXCEPT ![s] = e] /\ stream' = stream
        BY <1>1, <2>2 DEF CrashEnforcer
      <3> HIDE DEF e
      <3>4. enf' \in [Shards -> EnfState] /\ InvocationInBatch'
        BY <3>2, <3>3, EnforcerMoves
      <3> QED
        BY <1>0, <1>1, <3>3, <3>4
           DEF CrashEnforcer, checkpointUnchanged, history, Shape, TypeOK, RowsDated
    <2> QED
      BY <2>1, <2>2
  <1>2. ASSUME NEW x \in Removers, CrashRemover(x)
        PROVE  Shape'
    BY <1>0, <1>2, RemIdleTyped
       DEF CrashRemover, removerUnchanged, tables, Shape, TypeOK, RowsDated, InvocationInBatch
  <1>3. ASSUME NEW w \in Taggers, CrashTagger(w)
        PROVE  Shape'
    <2>0. tag[w] \in TagState
      BY DEF Shape, TypeOK
    <2> DEFINE e == [tag[w] EXCEPT !.pc = "cache", !.todo = {}]
    <2>1. e \in TagState
      BY <2>0 DEF TagState
    <2>2. tag' = [tag EXCEPT ![w] = TagIdle] \/ tag' = [tag EXCEPT ![w] = e]
      BY <1>3 DEF CrashTagger
    <2> HIDE DEF e
    <2>3. tag' \in [Taggers -> TagState]
      BY <2>1, <2>2, TagIdleTyped DEF Shape, TypeOK
    <2>4. ASSUME NEW r \in tag[w].role, NEW me \in tag[w].todo
          PROVE  <<r, me[1], me[2]>> \in Roles \X Models \X Endpoints
      BY <2>0 DEF TagState, Policies
    <2>5. deny' \subseteq Roles \X Models \X Endpoints
      BY <1>3, <2>4 DEF CrashTagger, Shape, TypeOK
    <2>6. UNCHANGED <<day, usage, quota, stream, blocked, teamOf, enf, rem, due>>
          /\ UNCHANGED <<peak, reached, served, mapped, swept, late>>
      BY <1>3 DEF CrashTagger, taggerUnchanged, tables
    <2>7. left' \in [Budgets -> Nat]
      BY <1>0, <1>3 DEF CrashTagger
    <2>8. TypeOK'
      BY <2>3, <2>5, <2>6, <2>7 DEF Shape, TypeOK
    <2>9. RowsDated' /\ InvocationInBatch'
      BY <2>6 DEF Shape, RowsDated, InvocationInBatch
    <2> QED
      BY <2>8, <2>9 DEF Shape
  <1> QED
    BY <1>1, <1>2, <1>3 DEF Crash

(* Whatever the number of teams, models, roles, shards and concurrent      *)
(* handlers, and however deep the stream, every step leaves rows, jobs and *)
(* in-flight invocations well-formed; in particular no job is built from a *)
(* row that is not there, and no invocation reads past its batch.          *)
THEOREM TypeCorrect == Spec => []TypeOK
  <1>1. Shape /\ [Next]_vars => Shape'
    <2> SUFFICES ASSUME Shape, [Next]_vars
                 PROVE  Shape'
      OBVIOUS
    <2>1. CASE Next
      BY <2>1, EnvironmentShape, EnforcerShape, ResetShape, RemoverShape, TaggerShape,
         RequestShape, CrashShape DEF Next
    <2>2. CASE UNCHANGED vars
      BY <2>2 DEF vars, tables, history, Shape, TypeOK, RowsDated, InvocationInBatch
    <2> QED
      BY <2>1, <2>2
  <1>2. Shape => TypeOK
    BY DEF Shape
  <1> QED
    BY InitShape, <1>1, <1>2, PTL DEF Spec

-----------------------------------------------------------------------------
(* Why every policy and every block is justified: the history variables    *)
(* grow only, and what a handler has read and not yet acted upon is still  *)
(* covered by them when it acts.                                           *)

(* A record in the stream is no greater than what its row has held.        *)
RecordsCounted ==
  \A s \in Shards : \A i \in 1 .. Len(stream[s]) :
    LET r == stream[s][i]
    IN  r.total <= peak[r.pair][r.day] /\ <<r.pair, r.endpoint>> \in served

PeaksReached ==
  \A p \in Pairs, d \in Days :
    quota[p] > 0 /\ peak[p][d] >= quota[p] => <<p, d>> \in reached

(* The breach an enforcer acts upon did happen, whatever the quota is now. *)
BreachesReached ==
  \A s \in Shards :
    enf[s].pc \in {"guard", "list", "attach"} => <<Rec(s).pair, Rec(s).day>> \in reached

CacheMapped ==
  \A r \in Roles, t \in Teams : teamOf[r] = t => <<r, t>> \in mapped

RolesMapped ==
  \A s \in Shards :
    enf[s].pc = "attach" => \A r \in enf[s].todo : <<r, Rec(s).pair[1]>> \in mapped

TaggedMapped ==
  \A w \in Taggers : tag[w].role \X tag[w].team \subseteq mapped

(* What a tagged role is about to inherit was used and reached its quota.  *)
Due(team, me) ==
  \E t \in team : /\ <<<<t, me[1]>>, me[2]>> \in served
                  /\ \E d \in Days : <<<<t, me[1]>>, d>> \in reached

InheritedReached ==
  \A w \in Taggers :
    /\ tag[w].pc # "attach" => tag[w].todo = {}
    /\ \A me \in tag[w].todo : Due(tag[w].team, me)

Justified ==
  /\ Shape
  /\ RecordsCounted /\ PeaksReached /\ BreachesReached
  /\ CacheMapped /\ RolesMapped
  /\ TaggedMapped /\ InheritedReached
  /\ BlockJustified /\ DenyJustified

LEMMA InitJustified == Init => Justified
  <1> SUFFICES ASSUME Init PROVE Justified
    OBVIOUS
  <1> USE ConstantsAssumption
  <1>1. RecordsCounted /\ BreachesReached /\ RolesMapped
    BY DEF Init, RecordsCounted, BreachesReached, RolesMapped, EnfIdle
  <1>2. PeaksReached
    <2>1. quota \in [Pairs -> 0 .. MaxTokens]
      BY DEF Init
    <2> QED
      BY <2>1 DEF Init, PeaksReached
  <1>3. CacheMapped
    BY DEF Init, CacheMapped
  <1>4. TaggedMapped /\ InheritedReached
    BY DEF Init, TaggedMapped, InheritedReached, TagIdle
  <1>5. BlockJustified /\ DenyJustified
    BY DEF Init, BlockJustified, DenyJustified, NoRow
  <1> QED
    BY InitShape, <1>1, <1>2, <1>3, <1>4, <1>5 DEF Justified

(* What a step leaves alone.                                               *)
LEMMA UsageUntouched ==
  ASSUME Justified, UNCHANGED <<quota, stream, peak, reached, served>>
  PROVE  RecordsCounted' /\ PeaksReached'
  BY DEF Justified, RecordsCounted, PeaksReached

LEMMA TaggersUntouched ==
  ASSUME Justified, UNCHANGED <<teamOf, tag>>,
         reached \subseteq reached', served \subseteq served', mapped \subseteq mapped'
  PROVE  CacheMapped' /\ TaggedMapped' /\ InheritedReached'
  <1>1. CacheMapped' /\ TaggedMapped'
    BY DEF Justified, CacheMapped, TaggedMapped
  <1>2. InheritedReached'
    BY DEF Justified, InheritedReached, Due
  <1> QED
    BY <1>1, <1>2

LEMMA EnforcersUntouched ==
  ASSUME Justified, UNCHANGED <<stream, enf>>,
         reached \subseteq reached', mapped \subseteq mapped'
  PROVE  BreachesReached' /\ RolesMapped'
  BY DEF Justified, BreachesReached, RolesMapped, Rec

LEMMA NoNewBlock ==
  ASSUME Justified, reached \subseteq reached', served \subseteq served',
         \A p \in Pairs : blocked'[p].status = "BLOCKED" => blocked'[p] = blocked[p]
  PROVE  BlockJustified'
  BY DEF Justified, BlockJustified

LEMMA NoNewDeny ==
  ASSUME Justified, deny' \subseteq deny,
         reached \subseteq reached', served \subseteq served', mapped \subseteq mapped'
  PROVE  DenyJustified'
  BY DEF Justified, DenyJustified

LEMMA PeakTyped ==
  ASSUME TypeOK, NEW p \in Pairs, NEW d \in Days
  PROVE  peak[p][d] \in Nat
  <1>1. peak[p] \in [Days -> 0 .. MaxTokens]
    BY DEF TypeOK
  <1>2. peak[p][d] \in 0 .. MaxTokens
    BY <1>1
  <1> QED
    BY <1>2, ConstantsAssumption

LEMMA WriteUsageJustified ==
  ASSUME Justified, NEW p \in Pairs, NEW v \in 0 .. MaxTokens, NEW e \in Endpoints,
         WriteUsage(p, v, e)
  PROVE  Justified'
  <1> USE ConstantsAssumption
  <1> DEFINE rec == [pair |-> p, day |-> day, total |-> v, endpoint |-> e]
             top == IF v > peak[p][day] THEN v ELSE peak[p][day]
  <1>0. /\ Shape' /\ day \in Days /\ peak[p][day] \in Nat /\ v \in Nat
        /\ stream \in [Shards -> Seq(Record)]
    <2>1. Shape'
      BY WriteUsageShape DEF Justified
    <2>2. day \in Days /\ v \in Nat /\ stream \in [Shards -> Seq(Record)]
      BY DEF Justified, Shape, TypeOK
    <2> QED
      BY <2>1, <2>2, PeakTyped DEF Justified, Shape
  <1>1. reached \subseteq reached' /\ served \subseteq served' /\ mapped \subseteq mapped'
    BY DEF WriteUsage
  <1>2. \A q \in Pairs, d \in Days : peak'[q][d] = IF q = p /\ d = day THEN top ELSE peak[q][d]
    BY <1>0 DEF WriteUsage, Justified, Shape, TypeOK
  <1>3. \A q \in Pairs, d \in Days : peak'[q][d] >= peak[q][d]
    BY <1>0, <1>2, PeakTyped DEF Justified, Shape
  <1>4. ASSUME NEW s \in Shards, NEW i \in 1 .. Len(stream[s])
        PROVE  i \in 1 .. Len(stream'[s]) /\ stream'[s][i] = stream[s][i]
    BY <1>0 DEF WriteUsage
  <1>5. ASSUME NEW s \in Shards, NEW i \in 1 .. Len(stream'[s]), i \notin 1 .. Len(stream[s])
        PROVE  stream'[s][i] = rec
    BY <1>0, <1>5 DEF WriteUsage
  <1>6. RecordsCounted'
    <2> SUFFICES ASSUME NEW s \in Shards, NEW i \in 1 .. Len(stream'[s])
                 PROVE  /\ stream'[s][i].total <= peak'[stream'[s][i].pair][stream'[s][i].day]
                        /\ <<stream'[s][i].pair, stream'[s][i].endpoint>> \in served'
      BY DEF RecordsCounted
    <2>1. CASE i \in 1 .. Len(stream[s])
      <3> DEFINE r == stream[s][i]
      <3>1. r \in Record /\ r.total <= peak[r.pair][r.day] /\ <<r.pair, r.endpoint>> \in served
        BY <1>0, <2>1 DEF Justified, RecordsCounted
      <3>2. r.pair \in Pairs /\ r.day \in Days /\ r.total \in Nat
        BY <3>1 DEF Record
      <3>3. peak[r.pair][r.day] \in Nat /\ peak'[r.pair][r.day] \in Nat
        <4>1. peak[r.pair][r.day] \in Nat
          BY <1>0, <3>2, PeakTyped DEF Justified, Shape
        <4>2. top \in Nat
          <5>1. peak[p][day] \in Nat
            BY <1>0, PeakTyped DEF Justified, Shape, TypeOK
          <5> QED
            BY <5>1
        <4> HIDE DEF top
        <4> QED
          BY <1>2, <3>2, <4>1, <4>2
      <3>4. stream'[s][i] = r
        BY <1>4, <2>1
      <3> HIDE DEF r
      <3>5. peak'[r.pair][r.day] >= peak[r.pair][r.day]
        BY <1>3, <3>2
      <3>6. r.total <= peak'[r.pair][r.day]
        BY <3>1, <3>2, <3>3, <3>5
      <3>7. <<r.pair, r.endpoint>> \in served'
        BY <1>1, <3>1
      <3> QED
        BY <3>4, <3>6, <3>7
    <2>2. CASE i \notin 1 .. Len(stream[s])
      <3>1. stream'[s][i] = rec
        BY <1>5, <2>2
      <3>2. v <= peak'[p][day] /\ <<p, e>> \in served'
        BY <1>0, <1>2 DEF WriteUsage
      <3> QED
        BY <3>1, <3>2
    <2> QED
      BY <2>1, <2>2
  <1>7. PeaksReached'
    <2> SUFFICES ASSUME NEW q \in Pairs, NEW d \in Days, quota[q] > 0, peak'[q][d] >= quota[q]
                 PROVE  <<q, d>> \in reached'
      BY DEF PeaksReached, WriteUsage
    <2>1. CASE q = p /\ d = day
      BY <1>2, <2>1 DEF WriteUsage
    <2>2. CASE ~(q = p /\ d = day)
      BY <1>1, <1>2, <2>2 DEF Justified, PeaksReached
    <2> QED
      BY <2>1, <2>2
  <1>8. ASSUME NEW s \in Shards, enf[s].pc \notin {"idle", "fetch"}
        PROVE  Rec(s)' = Rec(s)
    <2>1. enf[s].i \in 1 .. Len(stream[s]) /\ enf' = enf
      BY <1>8, RecTyped DEF WriteUsage, Justified, Shape, InvocationInBatch
    <2> QED
      BY <1>4, <2>1 DEF Rec
  <1>9. BreachesReached' /\ RolesMapped'
    BY <1>1, <1>8 DEF WriteUsage, Justified, BreachesReached, RolesMapped
  <1>10. CacheMapped' /\ TaggedMapped' /\ InheritedReached'
    BY <1>1, TaggersUntouched DEF WriteUsage
  <1>11. BlockJustified' /\ DenyJustified'
    BY <1>1, NoNewBlock, NoNewDeny DEF WriteUsage
  <1> QED
    BY <1>0, <1>6, <1>7, <1>9, <1>10, <1>11 DEF Justified

LEMMA EnvironmentJustified ==
  ASSUME Justified, Environment
  PROVE  Justified'
  <1> USE ConstantsAssumption DEF tables
  <1>0. Shape'
    BY EnvironmentShape DEF Justified
  <1>1. ASSUME NEW p \in Pairs, NEW k \in 1 .. MaxTokens, AddUsage(p, k)
        PROVE  Justified'
    <2>1. usage[p] + k \in 0 .. MaxTokens
      BY <1>1 DEF AddUsage, Justified, Shape, TypeOK
    <2> QED
      BY <1>1, <2>1, WriteUsageJustified DEF AddUsage, Endpoints
  <1>2. ASSUME NEW p \in Pairs, NEW v \in 1 .. MaxTokens, SetUsage(p, v)
        PROVE  Justified'
    BY <1>2, WriteUsageJustified DEF SetUsage, Endpoints
  <1>3. ASSUME NEW p \in Pairs, NEW q \in 1 .. MaxTokens, PutQuota(p, q)
        PROVE  Justified'
    <2>1. reached \subseteq reached' /\ UNCHANGED <<peak, served, mapped>>
      BY <1>3 DEF PutQuota
    <2>2. RecordsCounted'
      BY <1>3 DEF PutQuota, Justified, RecordsCounted
    <2>3. PeaksReached'
      <3> SUFFICES ASSUME NEW x \in Pairs, NEW d \in Days, quota'[x] > 0, peak[x][d] >= quota'[x]
                   PROVE  <<x, d>> \in reached'
        BY <2>1 DEF PeaksReached
      <3>1. CASE x = p
        BY <1>3, <3>1 DEF PutQuota, Justified, Shape, TypeOK
      <3>2. CASE x # p
        BY <1>3, <2>1, <3>2 DEF PutQuota, Justified, PeaksReached, Shape, TypeOK
      <3> QED
        BY <3>1, <3>2
    <2>4. BreachesReached' /\ RolesMapped' /\ CacheMapped' /\ TaggedMapped' /\ InheritedReached'
      BY <1>3, <2>1, EnforcersUntouched, TaggersUntouched DEF PutQuota
    <2>5. BlockJustified' /\ DenyJustified'
      BY <1>3, <2>1, NoNewBlock, NoNewDeny DEF PutQuota
    <2> QED
      BY <1>0, <2>2, <2>3, <2>4, <2>5 DEF Justified
  <1>4. ASSUME NEW r \in Roles, NEW t \in Teams \cup {NoTeam}, Remap(r, t)
        PROVE  Justified'
    <2>1. mapped \subseteq mapped' /\ UNCHANGED <<reached, served>>
      BY <1>4 DEF Remap
    <2>2. RecordsCounted' /\ PeaksReached' /\ BreachesReached' /\ RolesMapped'
      BY <1>4, <2>1, UsageUntouched, EnforcersUntouched DEF Remap
    <2>3. CacheMapped'
      BY <1>4 DEF Remap, CacheMapped, Justified, Shape, TypeOK
    <2>4. TaggedMapped' /\ InheritedReached'
      BY <1>4, <2>1 DEF Remap, TaggedMapped, InheritedReached, Due, Justified
    <2>5. BlockJustified' /\ DenyJustified'
      BY <1>4, <2>1, NoNewBlock, NoNewDeny DEF Remap
    <2> QED
      BY <1>0, <2>2, <2>3, <2>4, <2>5 DEF Justified
  <1>5. CASE NextDay
    <2>1. UNCHANGED <<quota, stream, blocked, teamOf, deny, enf, tag,
                      peak, reached, served, mapped>>
      BY <1>5 DEF NextDay, history
    <2>2. RecordsCounted' /\ PeaksReached' /\ BreachesReached' /\ RolesMapped'
      BY <2>1, UsageUntouched, EnforcersUntouched
    <2>3. CacheMapped' /\ TaggedMapped' /\ InheritedReached'
      BY <2>1, TaggersUntouched
    <2>4. BlockJustified' /\ DenyJustified'
      BY <2>1, NoNewBlock, NoNewDeny
    <2> QED
      BY <1>0, <2>2, <2>3, <2>4 DEF Justified
  <1> QED
    BY <1>1, <1>2, <1>3, <1>4, <1>5 DEF Environment

(* A step of one enforcer: the others keep the record they evaluate, and   *)
(* it keeps its own or has let go of it.                                   *)
LEMMA EnforcerKeeps ==
  ASSUME Justified, NEW s \in Shards, NEW e,
         enf' = [enf EXCEPT ![s] = e], UNCHANGED <<stream, reached, mapped>>,
         e.pc \in {"guard", "list", "attach"} =>
           e.i = enf[s].i /\ <<Rec(s).pair, Rec(s).day>> \in reached,
         e.pc = "attach" => \A r \in e.todo : <<r, Rec(s).pair[1]>> \in mapped
  PROVE  BreachesReached' /\ RolesMapped'
  <1>1. \A x \in Shards : x # s => enf'[x] = enf[x] /\ Rec(x)' = Rec(x)
    BY DEF Justified, Shape, TypeOK, Rec
  <1>2. enf'[s] = e /\ (e.i = enf[s].i => Rec(s)' = Rec(s))
    BY DEF Justified, Shape, TypeOK, Rec
  <1>3. BreachesReached'
    BY <1>1, <1>2 DEF Justified, BreachesReached
  <1>4. RolesMapped'
    BY <1>1, <1>2 DEF Justified, RolesMapped
  <1> QED
    BY <1>3, <1>4

(* The enforcer's own conjuncts apart, what its steps on the tables keep.  *)
LEMMA EnforcerFrame ==
  ASSUME Justified, UNCHANGED enforcerUnchanged
  PROVE  /\ RecordsCounted' /\ PeaksReached'
         /\ CacheMapped' /\ TaggedMapped' /\ InheritedReached'
         /\ UNCHANGED <<stream, reached, served, mapped>>
  <1>1. UNCHANGED <<quota, stream, teamOf, tag, peak, reached, served, mapped>>
    BY DEF enforcerUnchanged, tables
  <1> QED
    BY <1>1, UsageUntouched, TaggersUntouched

LEMMA LetGo ==
  ASSUME Justified, NEW s \in Shards, NEW e, UNCHANGED enforcerUnchanged,
         enf' = [enf EXCEPT ![s] = e],
         e.pc \notin {"guard", "list", "attach"}
  PROVE  BreachesReached' /\ RolesMapped'
  BY EnforcerKeeps, EnforcerFrame

(* What is left of a stream behind a checkpoint.                           *)
LEMMA SuffixElements ==
  ASSUME NEW S, NEW q \in Seq(S), NEW n \in Nat, n <= Len(q)
  PROVE  \A i \in 1 .. Len(SubSeq(q, n + 1, Len(q))) :
           SubSeq(q, n + 1, Len(q))[i] = q[n + i] /\ n + i \in 1 .. Len(q)
  <1> DEFINE m == n + 1
             l == Len(q)
  <1>1. m \in Int /\ l \in Int /\ l \in Nat /\ \A i \in m .. l : q[i] \in S
    OBVIOUS
  <1>2. /\ Len(SubSeq(q, m, l)) = IF m <= l THEN l - m + 1 ELSE 0
        /\ \A i \in 1 .. l - m + 1 : SubSeq(q, m, l)[i] = q[m + i - 1]
    BY <1>1, SubSeqProperties
  <1>3. Len(SubSeq(q, m, l)) = l - n
    BY <1>1, <1>2
  <1> QED
    BY <1>1, <1>2, <1>3

LEMMA CheckpointJustified ==
  ASSUME Justified, NEW s \in Shards, enf[s].pc # "idle", Checkpoint(s),
         enf' = [enf EXCEPT ![s] = EnfIdle],
         UNCHANGED checkpointUnchanged,
         Shape'
  PROVE  Justified'
  <1>1. UNCHANGED <<quota, blocked, teamOf, deny, tag, peak, reached, served, mapped>>
    BY DEF checkpointUnchanged, history
  <1> DEFINE rest == SubSeq(stream[s], enf[s].n + 1, Len(stream[s]))
  <1>2. /\ stream \in [Shards -> Seq(Record)]
        /\ enf[s].n \in Nat /\ enf[s].n <= Len(stream[s])
    BY DEF Justified, Shape, TypeOK, EnfState, InvocationInBatch
  <1>3. \A i \in 1 .. Len(rest) :
          rest[i] = stream[s][enf[s].n + i] /\ enf[s].n + i \in 1 .. Len(stream[s])
    BY <1>2, SuffixElements
  <1>4. stream' = [stream EXCEPT ![s] = rest]
    BY DEF Checkpoint
  <1> HIDE DEF rest
  <1>5. RecordsCounted'
    <2> SUFFICES ASSUME NEW x \in Shards, NEW i \in 1 .. Len(stream'[x])
                 PROVE  /\ stream'[x][i].total <= peak[stream'[x][i].pair][stream'[x][i].day]
                        /\ <<stream'[x][i].pair, stream'[x][i].endpoint>> \in served
      BY <1>1 DEF RecordsCounted
    <2>1. PICK j \in 1 .. Len(stream[x]) : stream'[x][i] = stream[x][j]
      <3>1. CASE x = s
        <4>1. stream'[x] = rest
          BY <1>2, <1>4, <3>1
        <4> QED
          BY <1>3, <3>1, <4>1
      <3>2. CASE x # s
        BY <1>2, <1>4, <3>2
      <3> QED
        BY <3>1, <3>2
    <2> QED
      BY <2>1 DEF Justified, RecordsCounted
  <1>6. BreachesReached' /\ RolesMapped'
    <2>1. \A x \in Shards : x # s => enf'[x] = enf[x] /\ stream'[x] = stream[x]
      BY <1>2, <1>4 DEF Justified, Shape, TypeOK
    <2>2. enf'[s].pc = "idle"
      BY DEF Justified, Shape, TypeOK, EnfIdle
    <2> QED
      BY <1>1, <2>1, <2>2 DEF Justified, BreachesReached, RolesMapped, Rec
  <1>7. PeaksReached' /\ CacheMapped' /\ TaggedMapped' /\ InheritedReached'
    BY <1>1, TaggersUntouched DEF Justified, PeaksReached
  <1>8. BlockJustified' /\ DenyJustified'
    BY <1>1, NoNewBlock, NoNewDeny
  <1> QED
    BY <1>5, <1>6, <1>7, <1>8 DEF Justified

(* One role of a loop leaves the invocation on its record.                 *)
LEMMA RoleJustified ==
  ASSUME Justified, NEW s \in Shards, NEW r \in Roles, NEW policies,
         EnforcerRole(s, r, policies), UNCHANGED enforcerUnchanged
  PROVE  BreachesReached' /\ RolesMapped'
  <1>0. enf[s] \in EnfState
    BY DEF Justified, Shape, TypeOK
  <1> DEFINE e == [enf[s] EXCEPT !.todo = @ \ {r}]
             f == [enf[s] EXCEPT !.todo = @ \ {r}, !.failed = TRUE]
  <1>1. enf' = [enf EXCEPT ![s] = e] \/ enf' = [enf EXCEPT ![s] = f]
    BY DEF EnforcerRole
  <1>2. /\ e.pc = enf[s].pc /\ e.i = enf[s].i /\ e.todo \subseteq enf[s].todo
        /\ f.pc = enf[s].pc /\ f.i = enf[s].i /\ f.todo \subseteq enf[s].todo
    BY <1>0 DEF EnfState
  <1>3. /\ enf[s].pc \in {"guard", "list", "attach"} => <<Rec(s).pair, Rec(s).day>> \in reached
        /\ enf[s].pc = "attach" => \A x \in enf[s].todo : <<x, Rec(s).pair[1]>> \in mapped
    BY DEF Justified, BreachesReached, RolesMapped
  <1> HIDE DEF e, f
  <1> QED
    BY <1>1, <1>2, <1>3, EnforcerKeeps, EnforcerFrame

LEMMA EnforcerJustified ==
  ASSUME Justified, NEW s \in Shards, EnforcerStep(s)
  PROVE  Justified'
  <1>0. Shape' /\ enf[s] \in EnfState /\ NextRecord(s).pc = "fetch"
    BY EnforcerShape DEF Justified, Shape, TypeOK, EnfState, NextRecord
  <1>1. CASE StartBatch(s)
    <2>1. UNCHANGED enforcerUnchanged /\ UNCHANGED <<blocked, deny>>
      BY <1>1 DEF StartBatch
    <2>2. PICK n \in 1 .. Earlier(BatchSize, Len(stream[s])) :
            enf' = [enf EXCEPT ![s] =
                      [enf[s] EXCEPT !.pc = "fetch", !.now = day, !.n = n, !.i = 1]]
      BY <1>1 DEF StartBatch
    <2> DEFINE e == [enf[s] EXCEPT !.pc = "fetch", !.now = day, !.n = n, !.i = 1]
    <2>3. e.pc = "fetch" /\ enf' = [enf EXCEPT ![s] = e]
      BY <1>0, <2>2 DEF EnfState
    <2> HIDE DEF e
    <2> QED
      BY <1>0, <2>1, <2>3, LetGo, EnforcerFrame, NoNewBlock, NoNewDeny DEF Justified
  <1>2. CASE SkipRecord(s)
    <2>1. UNCHANGED enforcerUnchanged /\ UNCHANGED <<blocked, deny>>
      BY <1>2 DEF SkipRecord
    <2>2. BreachesReached' /\ RolesMapped'
      BY <1>0, <1>2, LetGo DEF SkipRecord
    <2> QED
      BY <1>0, <2>1, <2>2, EnforcerFrame, NoNewBlock, NoNewDeny DEF Justified
  <1>3. CASE ReadQuota(s)
    <2>1. UNCHANGED enforcerUnchanged /\ UNCHANGED <<blocked, deny>>
      BY <1>3 DEF ReadQuota
    <2> DEFINE q == quota[Rec(s).pair]
               l == IF q = 0 \/ Rec(s).total < q THEN "liftGuard" ELSE "guard"
               e == [enf[s] EXCEPT !.pc = l]
    <2>2. enf' = [enf EXCEPT ![s] = e]
      BY <1>3 DEF ReadQuota
    <2>3. e.pc = l /\ e.i = enf[s].i
      BY <1>0 DEF EnfState
    <2>4. /\ Rec(s).pair \in Pairs /\ Rec(s).day \in Days /\ Rec(s).total \in Nat
          /\ Rec(s).total <= peak[Rec(s).pair][Rec(s).day]
      <3>1. enf[s].pc # "idle" /\ enf[s].i <= enf[s].n
        BY <1>3 DEF ReadQuota
      <3>2. Rec(s) \in Record /\ enf[s].i \in 1 .. Len(stream[s])
        BY <3>1, RecTyped DEF Justified
      <3>3. Rec(s).total <= peak[Rec(s).pair][Rec(s).day]
        BY <3>2 DEF Rec, Justified, RecordsCounted
      <3>4. Rec(s).pair \in Pairs /\ Rec(s).day \in Days /\ Rec(s).total \in 0 .. MaxTokens
        BY <3>2 DEF Record
      <3> QED
        BY <3>3, <3>4, ConstantsAssumption
    <2>5. q \in Nat /\ peak[Rec(s).pair][Rec(s).day] \in Nat
      <3>1. q \in 0 .. MaxTokens
        BY <2>4 DEF Justified, Shape, TypeOK
      <3> QED
        BY <2>4, <3>1, PeakTyped, ConstantsAssumption DEF Justified, Shape
    <2>6. l = "guard" => <<Rec(s).pair, Rec(s).day>> \in reached
      BY <2>4, <2>5 DEF Justified, PeaksReached
    <2>7. l \in {"guard", "liftGuard"}
      OBVIOUS
    <2> HIDE DEF l, e
    <2>8. BreachesReached' /\ RolesMapped'
      BY <2>1, <2>2, <2>3, <2>6, <2>7, EnforcerKeeps, EnforcerFrame
    <2> QED
      BY <1>0, <2>1, <2>8, EnforcerFrame, NoNewBlock, NoNewDeny DEF Justified
  <1>4. CASE CheckBlocked(s)
    <2>1. UNCHANGED enforcerUnchanged /\ UNCHANGED <<blocked, deny>>
      BY <1>4 DEF CheckBlocked
    <2> DEFINE e == [enf[s] EXCEPT !.pc = "list"]
    <2>2. enf' = [enf EXCEPT ![s] = NextRecord(s)] \/ enf' = [enf EXCEPT ![s] = e]
      BY <1>4 DEF CheckBlocked
    <2>3. e.pc = "list" /\ e.i = enf[s].i
      BY <1>0 DEF EnfState
    <2>4. <<Rec(s).pair, Rec(s).day>> \in reached
      BY <1>4 DEF CheckBlocked, Justified, BreachesReached
    <2> HIDE DEF e
    <2>5. BreachesReached' /\ RolesMapped'
      BY <1>0, <2>1, <2>2, <2>3, <2>4, EnforcerKeeps, LetGo, EnforcerFrame
    <2> QED
      BY <1>0, <2>1, <2>5, EnforcerFrame, NoNewBlock, NoNewDeny DEF Justified
  <1>5. CASE ListRoles(s)
    <2>1. UNCHANGED enforcerUnchanged /\ UNCHANGED <<blocked, deny>>
      BY <1>5 DEF ListRoles
    <2> DEFINE l == IF enf[s].pc = "list" THEN "attach" ELSE "detach"
               e == [enf[s] EXCEPT
                       !.pc = l, !.todo = RolesOf(Rec(s).pair[1]), !.failed = FALSE]
    <2>2. enf' = [enf EXCEPT ![s] = e]
      BY <1>5 DEF ListRoles
    <2>3. e.pc = l /\ e.i = enf[s].i /\ e.todo = RolesOf(Rec(s).pair[1])
      BY <1>0 DEF EnfState
    <2>4. l = "attach" => <<Rec(s).pair, Rec(s).day>> \in reached
      BY DEF Justified, BreachesReached
    <2>5. \A r \in RolesOf(Rec(s).pair[1]) : <<r, Rec(s).pair[1]>> \in mapped
      <3>1. Rec(s).pair[1] \in Teams
        BY <1>5, RecTyped DEF ListRoles, Justified, Shape, InvocationInBatch, Record, Pairs
      <3> QED
        BY <3>1 DEF Justified, CacheMapped, RolesOf
    <2>6. l \in {"attach", "detach"}
      OBVIOUS
    <2> HIDE DEF l, e
    <2>7. BreachesReached' /\ RolesMapped'
      BY <2>1, <2>2, <2>3, <2>4, <2>5, <2>6, EnforcerKeeps, EnforcerFrame
    <2> QED
      BY <1>0, <2>1, <2>7, EnforcerFrame, NoNewBlock, NoNewDeny DEF Justified
  <1>6. ASSUME NEW r \in Roles, AttachDeny(s, r)
        PROVE  Justified'
    <2> DEFINE new == <<r, Rec(s).pair[2], Rec(s).endpoint>>
    <2>1. UNCHANGED enforcerUnchanged /\ UNCHANGED blocked /\ deny' \subseteq deny \cup {new}
      BY <1>6 DEF AttachDeny, EnforcerRole
    <2>2. BreachesReached' /\ RolesMapped'
      BY <1>6, RoleJustified DEF AttachDeny
    <2>3. /\ Rec(s) \in Record /\ enf[s].i \in 1 .. Len(stream[s])
          /\ r \in enf[s].todo /\ enf[s].pc = "attach"
      BY <1>6, RecTyped DEF AttachDeny, Justified, Shape, InvocationInBatch
    <2>4. /\ <<Rec(s).pair, Rec(s).endpoint>> \in served
          /\ <<Rec(s).pair, Rec(s).day>> \in reached
          /\ <<r, Rec(s).pair[1]>> \in mapped
      BY <2>3 DEF Justified, RecordsCounted, BreachesReached, RolesMapped, Rec
    <2>5. /\ Rec(s).pair[1] \in Teams /\ Rec(s).day \in Days
          /\ Rec(s).pair = <<Rec(s).pair[1], Rec(s).pair[2]>>
      BY <2>3 DEF Record, Pairs
    <2>6. DenyJustified'
      <3> SUFFICES ASSUME NEW x \in Roles, NEW m \in Models, NEW e \in Endpoints,
                          <<x, m, e>> \in deny'
                   PROVE  \E t \in Teams :
                            /\ <<x, t>> \in mapped
                            /\ <<<<t, m>>, e>> \in served
                            /\ \E d \in Days : <<<<t, m>>, d>> \in reached
        BY <2>1, EnforcerFrame DEF DenyJustified
      <3>1. CASE <<x, m, e>> \in deny
        BY <3>1 DEF Justified, DenyJustified
      <3>2. CASE <<x, m, e>> = new
        <4>1. x = r /\ m = Rec(s).pair[2] /\ e = Rec(s).endpoint
          BY <3>2
        <4> QED
          BY <2>4, <2>5, <4>1
      <3> QED
        BY <2>1, <3>1, <3>2
    <2> QED
      BY <1>0, <2>1, <2>2, <2>6, EnforcerFrame, NoNewBlock DEF Justified
  <1>7. CASE PutBlockedState(s)
    <2>1. UNCHANGED enforcerUnchanged /\ UNCHANGED deny
      BY <1>7 DEF PutBlockedState
    <2>2. BreachesReached' /\ RolesMapped'
      BY <1>0, <1>7, LetGo DEF PutBlockedState
    <2>3. Rec(s) \in Record /\ enf[s].i \in 1 .. Len(stream[s])
      BY <1>7, RecTyped DEF PutBlockedState, Justified, Shape, InvocationInBatch
    <2>4. /\ <<Rec(s).pair, Rec(s).endpoint>> \in served
          /\ <<Rec(s).pair, Rec(s).day>> \in reached
      BY <1>7, <2>3 DEF PutBlockedState, Justified, RecordsCounted, BreachesReached, Rec
    <2>5. BlockJustified'
      BY <1>7, <2>1, <2>3, <2>4, EnforcerFrame
         DEF PutBlockedState, Justified, BlockJustified, Shape, TypeOK
    <2> QED
      BY <1>0, <2>1, <2>2, <2>5, EnforcerFrame, NoNewDeny DEF Justified
  <1>8. CASE LiftGuard(s)
    <2>1. UNCHANGED enforcerUnchanged /\ UNCHANGED <<blocked, deny>>
      BY <1>8 DEF LiftGuard
    <2> DEFINE e == [enf[s] EXCEPT !.pc = "liftList"]
    <2>2. enf' = [enf EXCEPT ![s] = NextRecord(s)] \/ enf' = [enf EXCEPT ![s] = e]
      BY <1>8 DEF LiftGuard
    <2>3. e.pc = "liftList"
      BY <1>0 DEF EnfState
    <2> HIDE DEF e
    <2>4. BreachesReached' /\ RolesMapped'
      BY <1>0, <2>1, <2>2, <2>3, LetGo
    <2> QED
      BY <1>0, <2>1, <2>4, EnforcerFrame, NoNewBlock, NoNewDeny DEF Justified
  <1>9. ASSUME NEW r \in Roles, DetachDeny(s, r)
        PROVE  Justified'
    <2>1. UNCHANGED enforcerUnchanged /\ UNCHANGED blocked /\ deny' \subseteq deny
      BY <1>9 DEF DetachDeny, EnforcerRole
    <2>2. BreachesReached' /\ RolesMapped'
      BY <1>9, RoleJustified DEF DetachDeny
    <2> QED
      BY <1>0, <2>1, <2>2, EnforcerFrame, NoNewBlock, NoNewDeny DEF Justified
  <1>10. CASE FinishLift(s)
    <2>1. UNCHANGED enforcerUnchanged /\ UNCHANGED deny
      BY <1>10 DEF FinishLift
    <2>2. BreachesReached' /\ RolesMapped'
      BY <1>0, <1>10, LetGo DEF FinishLift
    <2>3. \A p \in Pairs : blocked'[p].status = "BLOCKED" => blocked'[p] = blocked[p]
      BY <1>10 DEF FinishLift, NoRow, Justified, Shape, TypeOK
    <2> QED
      BY <1>0, <2>1, <2>2, <2>3, EnforcerFrame, NoNewBlock, NoNewDeny DEF Justified
  <1>11. CASE FinishBatch(s)
    BY <1>0, <1>11, CheckpointJustified DEF FinishBatch
  <1> QED
    BY <1>1, <1>2, <1>3, <1>4, <1>5, <1>6, <1>7, <1>8, <1>9, <1>10, <1>11 DEF EnforcerStep

(* The removers write no BLOCKED row and add no policy.                    *)
LEMMA RemoverFrame ==
  ASSUME Justified, Shape', UNCHANGED removerUnchanged, deny' \subseteq deny,
         \A p \in Pairs : blocked'[p].status = "BLOCKED" => blocked'[p] = blocked[p]
  PROVE  Justified'
  <1>1. UNCHANGED <<quota, stream, teamOf, enf, tag, peak, reached, served, mapped>>
    BY DEF removerUnchanged, tables
  <1>2. RecordsCounted' /\ PeaksReached' /\ BreachesReached' /\ RolesMapped'
    BY <1>1, UsageUntouched, EnforcersUntouched
  <1>3. CacheMapped' /\ TaggedMapped' /\ InheritedReached'
    BY <1>1, TaggersUntouched
  <1>4. BlockJustified' /\ DenyJustified'
    BY <1>1, NoNewBlock, NoNewDeny
  <1> QED
    BY <1>2, <1>3, <1>4 DEF Justified

LEMMA ResetJustified ==
  ASSUME Justified, ResetStep
  PROVE  Justified'
  <1>1. Shape'
    BY ResetShape DEF Justified
  <1>2. UNCHANGED removerUnchanged /\ UNCHANGED <<blocked, deny>>
    BY DEF ResetStep, StartReset, QueryPairs
  <1> QED
    BY <1>1, <1>2, RemoverFrame

LEMMA RemoverJustified ==
  ASSUME Justified, NEW x \in Removers, RemoverStep(x)
  PROVE  Justified'
  <1>0. Shape'
    BY RemoverShape DEF Justified
  <1>1. ASSUME NEW j \in rem[x].queue, BeginPair(x, j)
        PROVE  Justified'
    BY <1>0, <1>1, RemoverFrame DEF BeginPair
  <1>2. ASSUME NEW r \in Roles, RemoveDeny(x, r)
        PROVE  Justified'
    <2>1. UNCHANGED removerUnchanged /\ UNCHANGED blocked /\ deny' \subseteq deny
      BY <1>2 DEF RemoveDeny
    <2> QED
      BY <1>0, <2>1, RemoverFrame
  <1>3. CASE SettlePair(x)
    <2>1. UNCHANGED removerUnchanged /\ UNCHANGED deny
      BY <1>3 DEF SettlePair
    <2>2. PICK j \in rem[x].cur :
            blocked' = [blocked EXCEPT ![j.pair] =
              IF rem[x].failed
              THEN [status |-> "PENDING_RESET", day |-> j.day, endpoint |-> j.endpoint]
              ELSE NoRow]
      BY <1>3 DEF SettlePair
    <2>3. \A p \in Pairs : blocked'[p].status = "BLOCKED" => blocked'[p] = blocked[p]
      BY <2>2 DEF NoRow, Justified, Shape, TypeOK
    <2> QED
      BY <1>0, <2>1, <2>3, RemoverFrame
  <1>4. CASE FinishRemover(x)
    BY <1>0, <1>4, RemoverFrame DEF FinishRemover
  <1> QED
    BY <1>1, <1>2, <1>3, <1>4 DEF RemoverStep

(* What a TagRole invocation leaves alone.                                 *)
LEMMA TaggerFrame ==
  ASSUME Justified, UNCHANGED taggerUnchanged, mapped \subseteq mapped'
  PROVE  /\ RecordsCounted' /\ PeaksReached' /\ BreachesReached' /\ RolesMapped'
         /\ BlockJustified'
         /\ UNCHANGED <<reached, served>>
  <1>1. UNCHANGED <<quota, stream, blocked, enf, peak, reached, served>>
    BY DEF taggerUnchanged, tables
  <1> QED
    BY <1>1, UsageUntouched, EnforcersUntouched, NoNewBlock

LEMMA CacheRoleJustified ==
  ASSUME Justified, Shape', NEW w \in Taggers, NEW r \in Roles, NEW t \in Teams,
         tag[w].pc # "attach", CacheRole(w, r, t)
  PROVE  Justified'
  <1>0. tag \in [Taggers -> TagState] /\ tag[w] \in TagState
    BY DEF Justified, Shape, TypeOK
  <1>1. UNCHANGED taggerUnchanged /\ UNCHANGED deny /\ mapped' = mapped \cup {<<r, t>>}
    BY DEF CacheRole
  <1>2. CacheMapped'
    BY <1>1 DEF CacheRole, Justified, CacheMapped, Shape, TypeOK
  <1> DEFINE e == [tag[w] EXCEPT !.pc = "query", !.role = {r}, !.team = {t}, !.tries = @ + 1]
  <1>3. tag' = [tag EXCEPT ![w] = e]
    BY DEF CacheRole
  <1>4. e.role = {r} /\ e.team = {t} /\ e.todo = {}
    BY <1>0 DEF TagState, Justified, InheritedReached
  <1> HIDE DEF e
  <1>5. TaggedMapped'
    BY <1>0, <1>1, <1>3, <1>4 DEF Justified, TaggedMapped
  <1>6. InheritedReached'
    <2>1. UNCHANGED <<reached, served>>
      BY <1>1, TaggerFrame
    <2>2. \A x \in Taggers : x # w => tag'[x] = tag[x]
      BY <1>0, <1>3
    <2>3. tag'[w] = e
      BY <1>0, <1>3
    <2> QED
      BY <1>4, <2>1, <2>2, <2>3 DEF Justified, InheritedReached, Due
  <1>7. DenyJustified'
    BY <1>1, NoNewDeny, TaggerFrame
  <1> QED
    BY <1>1, <1>2, <1>5, <1>6, <1>7, TaggerFrame DEF Justified

(* An invocation that goes on with no more to inherit than before.         *)
LEMMA TaggerKeeps ==
  ASSUME Justified, Shape', NEW w \in Taggers, NEW e,
         UNCHANGED taggerUnchanged, UNCHANGED <<teamOf, mapped>>,
         tag' = [tag EXCEPT ![w] = e],
         e.role \X e.team \subseteq mapped,
         e.pc # "attach" => e.todo = {},
         \A me \in e.todo : Due(e.team, me),
         DenyJustified'
  PROVE  Justified'
  <1>0. tag \in [Taggers -> TagState] /\ UNCHANGED <<reached, served>>
    BY TaggerFrame DEF Justified, Shape, TypeOK
  <1>1. CacheMapped'
    BY DEF Justified, CacheMapped
  <1>2. tag'[w] = e /\ \A x \in Taggers : x # w => tag'[x] = tag[x]
    BY <1>0
  <1>3. TaggedMapped'
    BY <1>2 DEF Justified, TaggedMapped
  <1>4. InheritedReached'
    BY <1>0, <1>2 DEF Justified, InheritedReached, Due
  <1> QED
    BY <1>1, <1>3, <1>4, TaggerFrame DEF Justified

LEMMA TagIdleHarmless ==
  /\ TagIdle.role \X TagIdle.team = {}
  /\ TagIdle.todo = {}
  BY DEF TagIdle

(* Attaching what the invocation inherits, as a step or as a call that     *)
(* failed after IAM applied it.                                            *)
LEMMA InheritJustified ==
  ASSUME Justified, NEW w \in Taggers, NEW r \in tag[w].role, NEW me \in tag[w].todo,
         deny' = deny \cup {<<r, me[1], me[2]>>}, UNCHANGED <<reached, served, mapped>>
  PROVE  DenyJustified'
  <1>1. tag[w] \in TagState
    BY DEF Justified, Shape, TypeOK
  <1>2. r \in Roles /\ me \in Policies
    BY <1>1 DEF TagState
  <1>3. PICK t \in tag[w].team : /\ <<<<t, me[1]>>, me[2]>> \in served
                                 /\ \E d \in Days : <<<<t, me[1]>>, d>> \in reached
    BY DEF Justified, InheritedReached, Due
  <1>4. t \in Teams /\ <<r, t>> \in mapped
    BY <1>1 DEF TagState, Justified, TaggedMapped
  <1> SUFFICES ASSUME NEW x \in Roles, NEW m \in Models, NEW e \in Endpoints,
                      <<x, m, e>> \in deny'
               PROVE  \E u \in Teams :
                        /\ <<x, u>> \in mapped
                        /\ <<<<u, m>>, e>> \in served
                        /\ \E d \in Days : <<<<u, m>>, d>> \in reached
    BY DEF DenyJustified
  <1>5. CASE <<x, m, e>> \in deny
    BY <1>5 DEF Justified, DenyJustified
  <1>6. CASE <<x, m, e>> = <<r, me[1], me[2]>>
    <2>1. x = r /\ m = me[1] /\ e = me[2]
      BY <1>6
    <2> QED
      BY <1>3, <1>4, <2>1
  <1> QED
    BY <1>5, <1>6

LEMMA TaggerJustified ==
  ASSUME Justified, NEW w \in Taggers, TaggerStep(w)
  PROVE  Justified'
  <1>0. Shape' /\ tag[w] \in TagState /\ tag[w].role \X tag[w].team \subseteq mapped
    BY TaggerShape DEF Justified, Shape, TypeOK, TaggedMapped
  <1>1. ASSUME NEW r \in Roles, NEW t \in Teams, RedeliverTagRole(w, r, t)
        PROVE  Justified'
    BY <1>0, <1>1, CacheRoleJustified DEF RedeliverTagRole
  <1>2. ASSUME NEW t \in Teams, QueryBlocked(w, t)
        PROVE  Justified'
    <2> DEFINE found == {m \in Models : blocked[<<t, m>>].status = "BLOCKED"}
               todo  == {<<m, blocked[<<t, m>>].endpoint>> : m \in found}
               e     == [tag[w] EXCEPT !.pc = "attach", !.todo = todo]
    <2>1. /\ UNCHANGED taggerUnchanged /\ UNCHANGED <<teamOf, mapped, deny>>
          /\ t \in tag[w].team
          /\ tag' = [tag EXCEPT ![w] = TagIdle] \/ tag' = [tag EXCEPT ![w] = e]
      BY <1>2 DEF QueryBlocked
    <2>2. ASSUME NEW m \in found
          PROVE  Due(tag[w].team, <<m, blocked[<<t, m>>].endpoint>>)
      <3>1. /\ <<t, m>> \in Pairs /\ blocked[<<t, m>>].day \in Days
            /\ <<<<t, m>>, blocked[<<t, m>>].day>> \in reached
            /\ <<<<t, m>>, blocked[<<t, m>>].endpoint>> \in served
        BY DEF Pairs, Justified, BlockJustified, Shape, RowsDated
      <3> QED
        BY <2>1, <3>1 DEF Due
    <2>3. \A me \in todo : Due(tag[w].team, me)
      BY <2>2
    <2> HIDE DEF todo
    <2>4. e.pc = "attach" /\ e.todo = todo /\ e.role = tag[w].role /\ e.team = tag[w].team
      BY <1>0 DEF TagState
    <2> HIDE DEF e
    <2>5. DenyJustified'
      BY <2>1, NoNewDeny, TaggerFrame
    <2> QED
      BY <1>0, <2>1, <2>3, <2>4, <2>5, TaggerKeeps, TagIdleHarmless
  <1>3. ASSUME NEW r \in Roles, NEW me \in Policies, AttachInherited(w, r, me)
        PROVE  Justified'
    <2> DEFINE e == [tag[w] EXCEPT !.todo = @ \ {me}]
    <2>1. /\ UNCHANGED taggerUnchanged /\ UNCHANGED <<teamOf, mapped>>
          /\ r \in tag[w].role /\ me \in tag[w].todo /\ tag[w].pc = "attach"
          /\ deny' = deny \cup {<<r, me[1], me[2]>>}
          /\ tag' = [tag EXCEPT ![w] = TagIdle] \/ tag' = [tag EXCEPT ![w] = e]
      BY <1>3 DEF AttachInherited
    <2>2. /\ e.pc = "attach" /\ e.todo \subseteq tag[w].todo
          /\ e.role = tag[w].role /\ e.team = tag[w].team
      BY <1>0, <2>1 DEF TagState
    <2> HIDE DEF e
    <2>3. DenyJustified'
      BY <2>1, InheritJustified, TaggerFrame
    <2>4. \A x \in e.todo : Due(e.team, x)
      BY <2>2 DEF Justified, InheritedReached
    <2> QED
      BY <1>0, <2>1, <2>2, <2>3, <2>4, TaggerKeeps, TagIdleHarmless
  <1> QED
    BY <1>1, <1>2, <1>3 DEF TaggerStep

LEMMA RequestJustified ==
  ASSUME Justified, Request
  PROVE  Justified'
  <1>0. Shape'
    BY RequestShape DEF Justified
  <1>1. ASSUME NEW x \in Admins, NEW p \in Pairs, StartManual(x, p)
        PROVE  Justified'
    <2>1. UNCHANGED removerUnchanged /\ UNCHANGED <<blocked, deny>>
      BY <1>1 DEF StartManual
    <2> QED
      BY <1>0, <2>1, RemoverFrame
  <1>2. ASSUME NEW w \in Taggers, NEW r \in Roles, NEW t \in Teams, TagRole(w, r, t)
        PROVE  Justified'
    BY <1>0, <1>2, CacheRoleJustified DEF TagRole
  <1> QED
    BY <1>1, <1>2 DEF Request

LEMMA CrashJustified ==
  ASSUME Justified, Crash
  PROVE  Justified'
  <1>0. Shape'
    BY CrashShape DEF Justified
  <1>1. ASSUME NEW s \in Shards, CrashEnforcer(s)
        PROVE  Justified'
    <2>1. CASE enf[s].tries + 1 = MaxDeliveries
      BY <1>0, <1>1, <2>1, CheckpointJustified DEF CrashEnforcer
    <2>2. CASE enf[s].tries + 1 # MaxDeliveries
      <3> DEFINE e == [EnfIdle EXCEPT !.tries = enf[s].tries + 1]
      <3>1. e.pc = "idle" /\ enf' = [enf EXCEPT ![s] = e] /\ stream' = stream
        BY <1>1, <2>2 DEF CrashEnforcer, EnfIdle
      <3> HIDE DEF e
      <3>2. UNCHANGED enforcerUnchanged /\ UNCHANGED <<blocked, deny>>
        BY <1>1, <3>1 DEF CrashEnforcer, checkpointUnchanged, history, enforcerUnchanged, tables
      <3>3. BreachesReached' /\ RolesMapped'
        BY <3>1, <3>2, LetGo
      <3> QED
        BY <1>0, <3>2, <3>3, EnforcerFrame, NoNewBlock, NoNewDeny DEF Justified
    <2> QED
      BY <2>1, <2>2
  <1>2. ASSUME NEW x \in Removers, CrashRemover(x)
        PROVE  Justified'
    BY <1>0, <1>2, RemoverFrame DEF CrashRemover
  <1>3. ASSUME NEW w \in Taggers, CrashTagger(w)
        PROVE  Justified'
    <2>0. tag[w] \in TagState /\ tag[w].role \X tag[w].team \subseteq mapped
      BY DEF Justified, Shape, TypeOK, TaggedMapped
    <2> DEFINE e == [tag[w] EXCEPT !.pc = "cache", !.todo = {}]
    <2>1. /\ UNCHANGED taggerUnchanged /\ UNCHANGED <<teamOf, mapped>>
          /\ tag' = [tag EXCEPT ![w] = TagIdle] \/ tag' = [tag EXCEPT ![w] = e]
      BY <1>3 DEF CrashTagger
    <2>2. e.pc = "cache" /\ e.todo = {} /\ e.role = tag[w].role /\ e.team = tag[w].team
      BY <2>0 DEF TagState
    <2> HIDE DEF e
    <2>3. DenyJustified'
      <3>1. CASE deny' = deny
        BY <2>1, <3>1, NoNewDeny, TaggerFrame
      <3>2. CASE \E r \in tag[w].role, me \in tag[w].todo : deny' = deny \cup {<<r, me[1], me[2]>>}
        BY <2>1, <3>2, InheritJustified, TaggerFrame
      <3> QED
        BY <1>3, <3>1, <3>2 DEF CrashTagger
    <2> QED
      BY <1>0, <2>0, <2>1, <2>2, <2>3, TaggerKeeps, TagIdleHarmless
  <1> QED
    BY <1>1, <1>2, <1>3 DEF Crash

LEMMA JustifiedIsInvariant == Spec => []Justified
  <1>1. Justified /\ [Next]_vars => Justified'
    <2> SUFFICES ASSUME Justified, [Next]_vars
                 PROVE  Justified'
      OBVIOUS
    <2>1. CASE Next
      BY <2>1, EnvironmentJustified, EnforcerJustified, ResetJustified, RemoverJustified,
         TaggerJustified, RequestJustified, CrashJustified DEF Next
    <2>2. CASE UNCHANGED vars
      <3>1. Shape'
        BY <2>2 DEF vars, tables, history, Justified, Shape, TypeOK, RowsDated, InvocationInBatch
      <3>2. UNCHANGED removerUnchanged /\ UNCHANGED <<blocked, deny>>
        BY <2>2 DEF vars, tables, history, removerUnchanged
      <3> QED
        BY <3>1, <3>2, RemoverFrame
    <2> QED
      BY <2>1, <2>2
  <1> QED
    BY InitJustified, <1>1, PTL DEF Spec

(* However records, redeliveries, retaggings, quota edits and failures     *)
(* interleave, no role is denied a model on an endpoint unless a team it   *)
(* has been mapped to used that model there and reached a quota for it     *)
(* (attachModelDenyPolicy and handleTagRoleEvent).                         *)
THEOREM DeniesAreJustified == Spec => []DenyJustified
  <1>1. Justified => DenyJustified
    BY DEF Justified
  <1> QED
    BY JustifiedIsInvariant, <1>1, PTL

(* A BLOCKED row names a day on which its pair reached a quota in force    *)
(* and an endpoint it was used on, although the enforcer writes the row    *)
(* long after it read the quota (putBlockedState).                         *)
THEOREM BlocksAreJustified == Spec => []BlockJustified
  <1>1. Justified => BlockJustified
    BY DEF Justified
  <1> QED
    BY JustifiedIsInvariant, <1>1, PTL

-----------------------------------------------------------------------------
(* Why a finished Daily_Reset leaves its day clear: a row that is not late *)
(* was there when the reset asked for it, and the reset holds it since.    *)

OnTime(p, d) ==
  blocked[p].status = "BLOCKED" /\ blocked[p].day = d /\ <<p, d>> \notin late

SweptPast == \A d \in swept : d < day

ResetOfYesterday == rem["reset"].pc # "idle" => rem["reset"].prev = day - 1

ResetPhases ==
  /\ rem["reset"].pc # "query" => rem["reset"].ask = {}
  /\ rem["reset"].pc # "remove" => rem["reset"].cur = {}
  /\ \A j, k \in rem["reset"].cur : j = k

ResetHolds ==
  rem["reset"].pc # "idle" /\ "BLOCKED" \notin rem["reset"].ask =>
    \A p \in Pairs : OnTime(p, rem["reset"].prev) =>
      \E j \in rem["reset"].queue \cup rem["reset"].cur : j.pair = p

Sweep ==
  /\ Shape
  /\ SweptPast /\ ResetOfYesterday /\ ResetPhases /\ ResetHolds
  /\ SweptDaysAreClear

LEMMA InitSweep == Init => Sweep
  <1> SUFFICES ASSUME Init PROVE Sweep
    OBVIOUS
  <1>1. rem["reset"] = RemIdle
    BY DEF Init, Removers
  <1>2. RemIdle.pc = "idle" /\ RemIdle.ask = {} /\ RemIdle.cur = {}
    BY DEF RemIdle
  <1>3. SweptPast /\ ResetOfYesterday /\ ResetPhases /\ ResetHolds
    BY <1>1, <1>2 DEF Init, SweptPast, ResetOfYesterday, ResetPhases, ResetHolds
  <1>4. SweptDaysAreClear
    BY DEF Init, SweptDaysAreClear
  <1> QED
    BY InitShape, <1>3, <1>4 DEF Sweep

(* A step that leaves the Daily_Reset alone and records BLOCKED, if at     *)
(* all, for the current day or late.                                       *)
LEMMA ResetUntouched ==
  ASSUME Sweep, Shape', UNCHANGED <<day, swept>>, rem'["reset"] = rem["reset"],
         late \subseteq late',
         \A p \in Pairs : blocked'[p].status = "BLOCKED" =>
           \/ blocked'[p] = blocked[p]
           \/ <<p, blocked'[p].day>> \in late'
           \/ blocked'[p].day >= day
  PROVE  Sweep'
  <1>1. day \in Nat /\ \A p \in Pairs : blocked'[p].day \in Nat
    BY DEF Sweep, Shape, TypeOK, Days, Row
  <1>2. SweptPast' /\ ResetOfYesterday' /\ ResetPhases'
    BY DEF Sweep, SweptPast, ResetOfYesterday, ResetPhases
  <1>3. ASSUME NEW p \in Pairs, NEW d, d < day, OnTime(p, d)'
        PROVE  OnTime(p, d)
    BY <1>1, <1>3 DEF OnTime
  <1>4. ResetHolds'
    <2> SUFFICES ASSUME rem["reset"].pc # "idle", "BLOCKED" \notin rem["reset"].ask,
                        NEW p \in Pairs, OnTime(p, rem["reset"].prev)'
                 PROVE  \E j \in rem["reset"].queue \cup rem["reset"].cur : j.pair = p
      BY DEF ResetHolds, OnTime
    <2>1. rem["reset"].prev < day
      BY <1>1 DEF Sweep, ResetOfYesterday
    <2>2. OnTime(p, rem["reset"].prev)
      BY <1>3, <2>1 DEF OnTime
    <2> QED
      BY <2>2 DEF Sweep, ResetHolds
  <1>5. SweptDaysAreClear'
    BY <1>1 DEF Sweep, SweptPast, SweptDaysAreClear
  <1> QED
    BY <1>2, <1>4, <1>5 DEF Sweep

LEMMA EnvironmentSweep ==
  ASSUME Sweep, Environment
  PROVE  Sweep'
  <1>0. Shape'
    BY EnvironmentShape DEF Sweep
  <1>1. CASE NextDay
    <2>1. /\ day' = day + 1 /\ UNCHANGED <<blocked, rem, swept, late>>
          /\ rem["reset"].pc = "idle" /\ day \in Nat
      BY <1>1 DEF NextDay, history, Sweep, Shape, TypeOK, Days
    <2>2. SweptPast'
      <3>1. \A d \in swept : d \in Nat
        BY DEF Sweep, Shape, TypeOK
      <3> QED
        BY <2>1, <3>1 DEF Sweep, SweptPast
    <2>3. ResetOfYesterday' /\ ResetPhases' /\ ResetHolds' /\ SweptDaysAreClear'
      BY <2>1 DEF Sweep, ResetOfYesterday, ResetPhases, ResetHolds, SweptDaysAreClear
    <2> QED
      BY <1>0, <2>2, <2>3 DEF Sweep
  <1>2. CASE ~NextDay
    <2>1. UNCHANGED <<day, blocked, rem, swept, late>>
      BY <1>2 DEF Environment, AddUsage, SetUsage, WriteUsage, PutQuota, Remap
    <2> QED
      BY <1>0, <2>1, ResetUntouched
  <1> QED
    BY <1>1, <1>2

LEMMA EnforcerSweep ==
  ASSUME Sweep, NEW s \in Shards, EnforcerStep(s)
  PROVE  Sweep'
  <1>0. Shape' /\ blocked \in [Pairs -> Row]
    BY EnforcerShape DEF Sweep, Shape, TypeOK
  <1>1. CASE PutBlockedState(s)
    <2>1. /\ UNCHANGED <<day, rem, swept>>
          /\ blocked' = [blocked EXCEPT ![Rec(s).pair] =
               [status |-> "BLOCKED", day |-> Rec(s).day, endpoint |-> Rec(s).endpoint]]
          /\ late' = IF Rec(s).day < day THEN late \cup {<<Rec(s).pair, Rec(s).day>>} ELSE late
      BY <1>1 DEF PutBlockedState, enforcerUnchanged
    <2>2. Rec(s).day \in Nat /\ day \in Nat
      <3>1. Rec(s) \in Record
        BY <1>1, RecTyped DEF PutBlockedState, Sweep, Shape, InvocationInBatch
      <3> QED
        BY <3>1 DEF Record, Days, Sweep, Shape, TypeOK
    <2>3. \A p \in Pairs : \/ blocked'[p] = blocked[p]
                           \/ p = Rec(s).pair /\ blocked'[p].day = Rec(s).day
      BY <1>0, <2>1
    <2>4. Rec(s).day < day => <<Rec(s).pair, Rec(s).day>> \in late'
      BY <2>1
    <2> QED
      BY <1>0, <2>1, <2>2, <2>3, <2>4, ResetUntouched
  <1>2. CASE FinishLift(s)
    <2>1. UNCHANGED <<day, rem, swept, late>>
      BY <1>2 DEF FinishLift, enforcerUnchanged
    <2>2. \A p \in Pairs : blocked'[p].status = "BLOCKED" => blocked'[p] = blocked[p]
      BY <1>0, <1>2 DEF FinishLift, NoRow
    <2> QED
      BY <1>0, <2>1, <2>2, ResetUntouched
  <1>3. CASE ~PutBlockedState(s) /\ ~FinishLift(s)
    <2>1. UNCHANGED <<day, rem, swept, late, blocked>>
      BY <1>3 DEF EnforcerStep, StartBatch, SkipRecord, ReadQuota, CheckBlocked, ListRoles,
                  AttachDeny, LiftGuard, DetachDeny, FinishBatch, enforcerUnchanged,
                  checkpointUnchanged, history
    <2> QED
      BY <1>0, <2>1, ResetUntouched
  <1> QED
    BY <1>1, <1>2, <1>3

LEMMA ResetSweep ==
  ASSUME Sweep, ResetStep
  PROVE  Sweep'
  <1>0. /\ Shape' /\ rem \in [Removers -> RemState] /\ rem["reset"] \in RemState
        /\ "reset" \in Removers /\ day \in Nat
    <2>1. Shape'
      BY ResetShape DEF Sweep
    <2>2. "reset" \in Removers
      BY DEF Removers
    <2>3. rem \in [Removers -> RemState] /\ day \in Nat
      BY DEF Sweep, Shape, TypeOK, Days
    <2> QED
      BY <2>1, <2>2, <2>3
  <1>1. UNCHANGED <<day, blocked, swept, late>>
    BY DEF ResetStep, StartReset, QueryPairs, removerUnchanged
  <1>2. SweptPast' /\ SweptDaysAreClear'
    BY <1>1 DEF Sweep, SweptPast, SweptDaysAreClear
  <1>3. CASE StartReset
    <2> DEFINE e == [RemIdle EXCEPT !.pc = "query", !.prev = day - 1, !.ask = Statuses]
    <2>1. rem' = [rem EXCEPT !["reset"] = e]
      BY <1>3 DEF StartReset
    <2>2. e.pc = "query" /\ e.prev = day - 1 /\ e.ask = Statuses /\ e.cur = {}
      BY DEF RemIdle
    <2> HIDE DEF e
    <2>3. rem'["reset"] = e
      BY <1>0, <2>1
    <2>4. ResetOfYesterday' /\ ResetPhases' /\ ResetHolds'
      BY <1>1, <2>2, <2>3 DEF ResetOfYesterday, ResetPhases, ResetHolds, Statuses
    <2> QED
      BY <1>0, <1>2, <2>4 DEF Sweep
  <1>4. ASSUME NEW st \in Statuses, QueryPairs(st)
        PROVE  Sweep'
    <2> DEFINE prev  == rem["reset"].prev
               found == {p \in Pairs : blocked[p].status = st /\ blocked[p].day = prev}
               jobs  == {[pair |-> p, status |-> st, day |-> prev,
                          endpoint |-> blocked[p].endpoint] : p \in found}
               ask   == rem["reset"].ask \ {st}
               next  == IF ask = {} THEN "next" ELSE "query"
               e     == [rem["reset"] EXCEPT
                           !.queue = @ \cup jobs, !.ask = ask, !.pc = next]
    <2>1. rem["reset"].pc = "query" /\ rem' = [rem EXCEPT !["reset"] = e]
      BY <1>4 DEF QueryPairs
    <2>2. /\ e.pc = next /\ e.prev = prev /\ e.ask = ask
          /\ e.queue = rem["reset"].queue \cup jobs /\ e.cur = rem["reset"].cur
      BY <1>0 DEF RemState
    <2>3. ASSUME NEW p \in found
          PROVE  \E j \in jobs : j.pair = p
      <3> DEFINE j == [pair |-> p, status |-> st, day |-> prev,
                       endpoint |-> blocked[p].endpoint]
      <3>1. j \in jobs /\ j.pair = p
        OBVIOUS
      <3> QED
        BY <3>1
    <2>4. next \in {"next", "query"} /\ (next # "query" => ask = {})
      OBVIOUS
    <2>5. st # "BLOCKED" => ("BLOCKED" \notin ask => "BLOCKED" \notin rem["reset"].ask)
      OBVIOUS
    <2>6. st = "BLOCKED" => \A p \in Pairs : OnTime(p, prev) => p \in found
      BY DEF OnTime
    <2> HIDE DEF jobs, found, next, ask, e
    <2>7. rem'["reset"] = e
      BY <1>0, <2>1
    <2>8. ResetOfYesterday' /\ ResetPhases'
      BY <1>1, <2>1, <2>2, <2>4, <2>7 DEF Sweep, ResetOfYesterday, ResetPhases
    <2>9. ResetHolds'
      <3> SUFFICES ASSUME "BLOCKED" \notin ask, NEW p \in Pairs, OnTime(p, prev)
                   PROVE  \E j \in rem["reset"].queue \cup jobs \cup rem["reset"].cur : j.pair = p
        BY <1>1, <2>2, <2>7 DEF ResetHolds, OnTime
      <3>1. CASE st = "BLOCKED"
        BY <2>3, <2>6, <3>1
      <3>2. CASE st # "BLOCKED"
        BY <2>1, <2>5, <3>2 DEF Sweep, ResetHolds
      <3> QED
        BY <3>1, <3>2
    <2> QED
      BY <1>0, <1>2, <2>8, <2>9 DEF Sweep
  <1> QED
    BY <1>3, <1>4 DEF ResetStep

LEMMA RemoverSweep ==
  ASSUME Sweep, NEW x \in Removers, RemoverStep(x)
  PROVE  Sweep'
  <1>0. /\ Shape' /\ rem \in [Removers -> RemState] /\ rem[x] \in RemState
        /\ blocked \in [Pairs -> Row]
    <2>1. Shape'
      BY RemoverShape DEF Sweep
    <2> QED
      BY <2>1 DEF Sweep, Shape, TypeOK
  <1>1. UNCHANGED <<day, late>>
    BY DEF RemoverStep, BeginPair, RemoveDeny, SettlePair, FinishRemover, removerUnchanged
  <1>2. \A p \in Pairs : blocked'[p].status = "BLOCKED" => blocked'[p] = blocked[p]
    <2>1. CASE SettlePair(x)
      <3>1. PICK j \in rem[x].cur :
              blocked' = [blocked EXCEPT ![j.pair] =
                IF rem[x].failed
                THEN [status |-> "PENDING_RESET", day |-> j.day, endpoint |-> j.endpoint]
                ELSE NoRow]
        BY <2>1 DEF SettlePair
      <3> QED
        BY <1>0, <3>1 DEF NoRow
    <2>2. CASE ~SettlePair(x)
      BY <2>2 DEF RemoverStep, BeginPair, RemoveDeny, FinishRemover
    <2> QED
      BY <2>1, <2>2
  <1>3. CASE x # "reset"
    <2>1. UNCHANGED swept /\ rem'["reset"] = rem["reset"]
      BY <1>0, <1>3
         DEF RemoverStep, BeginPair, RemoveDeny, SettlePair, FinishRemover, Removers
    <2> QED
      BY <1>0, <1>1, <1>2, <2>1, ResetUntouched
  <1>4. ASSUME NEW j \in rem["reset"].queue, BeginPair("reset", j), x = "reset"
        PROVE  Sweep'
    <2> DEFINE e == [rem["reset"] EXCEPT
                       !.pc = "remove", !.queue = @ \ {j}, !.cur = {j},
                       !.todo = RolesOf(j.pair[1]), !.failed = FALSE]
    <2>1. /\ rem["reset"].pc = "next" /\ UNCHANGED <<blocked, swept>>
          /\ rem' = [rem EXCEPT !["reset"] = e]
      BY <1>4 DEF BeginPair
    <2>2. /\ e.pc = "remove" /\ e.prev = rem["reset"].prev /\ e.ask = rem["reset"].ask
          /\ e.queue = rem["reset"].queue \ {j} /\ e.cur = {j}
      BY <1>0, <1>4 DEF RemState
    <2> HIDE DEF e
    <2>3. rem'["reset"] = e
      BY <1>0, <1>4, <2>1
    <2>4. SweptPast' /\ ResetOfYesterday' /\ ResetPhases' /\ SweptDaysAreClear'
      BY <1>1, <2>1, <2>2, <2>3
         DEF Sweep, SweptPast, ResetOfYesterday, ResetPhases, SweptDaysAreClear
    <2>5. ResetHolds'
      <3> SUFFICES ASSUME "BLOCKED" \notin rem["reset"].ask,
                          NEW p \in Pairs, OnTime(p, rem["reset"].prev)
                   PROVE  \E k \in e.queue \cup e.cur : k.pair = p
        BY <1>1, <2>1, <2>2, <2>3 DEF ResetHolds, OnTime
      <3>1. PICK k \in rem["reset"].queue \cup rem["reset"].cur : k.pair = p
        BY <2>1 DEF Sweep, ResetHolds
      <3>2. rem["reset"].cur = {}
        BY <2>1 DEF Sweep, ResetPhases
      <3>3. k \in e.queue \cup e.cur
        BY <2>2, <3>1, <3>2
      <3> QED
        BY <3>1, <3>3
    <2> QED
      BY <1>0, <2>4, <2>5 DEF Sweep
  <1>5. ASSUME NEW r \in Roles, RemoveDeny("reset", r), x = "reset"
        PROVE  Sweep'
    <2> DEFINE e == [rem["reset"] EXCEPT !.todo = @ \ {r}]
               f == [rem["reset"] EXCEPT !.todo = @ \ {r}, !.failed = TRUE]
    <2>1. /\ rem["reset"].pc = "remove" /\ UNCHANGED <<blocked, swept>>
          /\ rem' = [rem EXCEPT !["reset"] = e] \/ rem' = [rem EXCEPT !["reset"] = f]
      BY <1>5 DEF RemoveDeny
    <2>2. /\ e.pc = rem["reset"].pc /\ e.prev = rem["reset"].prev /\ e.ask = rem["reset"].ask
          /\ e.queue = rem["reset"].queue /\ e.cur = rem["reset"].cur
          /\ f.pc = rem["reset"].pc /\ f.prev = rem["reset"].prev /\ f.ask = rem["reset"].ask
          /\ f.queue = rem["reset"].queue /\ f.cur = rem["reset"].cur
      BY <1>0, <1>5 DEF RemState
    <2> HIDE DEF e, f
    <2>3. rem'["reset"] = e \/ rem'["reset"] = f
      BY <1>0, <1>5, <2>1
    <2>4. SweptPast' /\ ResetOfYesterday' /\ ResetPhases' /\ SweptDaysAreClear'
      BY <1>1, <2>1, <2>2, <2>3
         DEF Sweep, SweptPast, ResetOfYesterday, ResetPhases, SweptDaysAreClear
    <2>5. ResetHolds'
      BY <1>1, <2>1, <2>2, <2>3 DEF Sweep, ResetHolds, OnTime
    <2> QED
      BY <1>0, <2>4, <2>5 DEF Sweep
  <1>6. CASE SettlePair("reset") /\ x = "reset"
    <2> DEFINE e == [rem["reset"] EXCEPT !.pc = "next", !.cur = {}, !.failed = FALSE]
    <2>1. /\ rem["reset"].pc = "remove" /\ UNCHANGED swept
          /\ rem' = [rem EXCEPT !["reset"] = e]
      BY <1>6 DEF SettlePair
    <2>2. /\ e.pc = "next" /\ e.prev = rem["reset"].prev /\ e.ask = rem["reset"].ask
          /\ e.queue = rem["reset"].queue /\ e.cur = {}
      BY <1>0, <1>6 DEF RemState
    <2> HIDE DEF e
    <2>3. rem'["reset"] = e
      BY <1>0, <1>6, <2>1
    <2>4. PICK j \in rem["reset"].cur : blocked'[j.pair].status # "BLOCKED"
      <3>1. PICK j \in rem["reset"].cur :
              blocked' = [blocked EXCEPT ![j.pair] =
                IF rem["reset"].failed
                THEN [status |-> "PENDING_RESET", day |-> j.day, endpoint |-> j.endpoint]
                ELSE NoRow]
        BY <1>6 DEF SettlePair
      <3>2. j.pair \in Pairs
        BY <1>0, <1>6 DEF RemState, Job
      <3> QED
        BY <1>0, <3>1, <3>2 DEF NoRow
    <2>5. SweptPast' /\ ResetOfYesterday' /\ ResetPhases'
      BY <1>1, <2>1, <2>2, <2>3 DEF Sweep, SweptPast, ResetOfYesterday, ResetPhases
    <2>6. SweptDaysAreClear'
      BY <1>1, <1>2, <2>1 DEF Sweep, SweptDaysAreClear
    <2>7. ResetHolds'
      <3> SUFFICES ASSUME "BLOCKED" \notin rem["reset"].ask,
                          NEW p \in Pairs, OnTime(p, rem["reset"].prev)'
                   PROVE  \E k \in rem["reset"].queue : k.pair = p
        BY <2>2, <2>3 DEF ResetHolds, OnTime
      <3>1. OnTime(p, rem["reset"].prev)
        BY <1>1, <1>2, <2>2, <2>3 DEF OnTime
      <3>2. PICK k \in rem["reset"].queue \cup rem["reset"].cur : k.pair = p
        BY <2>1, <3>1 DEF Sweep, ResetHolds
      <3>3. k \notin rem["reset"].cur
        BY <2>4, <3>2 DEF Sweep, ResetPhases, OnTime
      <3> QED
        BY <3>2, <3>3
    <2> QED
      BY <1>0, <2>5, <2>6, <2>7 DEF Sweep
  <1>7. CASE FinishRemover("reset") /\ x = "reset"
    <2>1. /\ rem["reset"].pc = "next" /\ rem["reset"].queue = {}
          /\ rem' = [rem EXCEPT !["reset"] = RemIdle]
          /\ swept' = swept \cup {rem["reset"].prev}
          /\ UNCHANGED blocked
      BY <1>7 DEF FinishRemover
    <2>2. rem'["reset"] = RemIdle /\ RemIdle.pc = "idle" /\ RemIdle.ask = {} /\ RemIdle.cur = {}
      BY <1>0, <1>7, <2>1 DEF RemIdle
    <2>3. rem["reset"].prev = day - 1 /\ rem["reset"].ask = {} /\ rem["reset"].cur = {}
      BY <2>1 DEF Sweep, ResetOfYesterday, ResetPhases
    <2>4. SweptPast'
      <3>1. day \in Nat
        BY DEF Sweep, Shape, TypeOK, Days
      <3> QED
        BY <1>1, <2>1, <2>3, <3>1 DEF Sweep, SweptPast
    <2>5. ResetOfYesterday' /\ ResetPhases' /\ ResetHolds'
      BY <2>2 DEF ResetOfYesterday, ResetPhases, ResetHolds
    <2>6. SweptDaysAreClear'
      <3>1. \A p \in Pairs : ~OnTime(p, rem["reset"].prev)
        BY <2>1, <2>3 DEF Sweep, ResetHolds
      <3> QED
        BY <1>1, <2>1, <3>1 DEF Sweep, SweptDaysAreClear, OnTime
    <2> QED
      BY <1>0, <2>4, <2>5, <2>6 DEF Sweep
  <1> QED
    BY <1>3, <1>4, <1>5, <1>6, <1>7 DEF RemoverStep

LEMMA CrashSweep ==
  ASSUME Sweep, Crash
  PROVE  Sweep'
  <1>0. Shape'
    BY CrashShape DEF Sweep
  <1>1. ASSUME NEW s \in Shards, CrashEnforcer(s)
        PROVE  Sweep'
    BY <1>0, <1>1, ResetUntouched DEF CrashEnforcer, checkpointUnchanged, history
  <1>2. ASSUME NEW x \in Removers, CrashRemover(x)
        PROVE  Sweep'
    <2>1. UNCHANGED <<day, blocked, swept, late>> /\ rem' = [rem EXCEPT ![x] = RemIdle]
      BY <1>2 DEF CrashRemover, removerUnchanged
    <2>2. rem \in [Removers -> RemState] /\ "reset" \in Removers
      BY DEF Sweep, Shape, TypeOK, Removers
    <2>3. CASE x = "reset"
      <3>1. rem'["reset"] = RemIdle /\ RemIdle.pc = "idle" /\ RemIdle.ask = {} /\ RemIdle.cur = {}
        BY <2>1, <2>2, <2>3 DEF RemIdle
      <3> QED
        BY <1>0, <2>1, <3>1
           DEF Sweep, SweptPast, ResetOfYesterday, ResetPhases, ResetHolds, SweptDaysAreClear
    <2>4. CASE x # "reset"
      <3>1. rem'["reset"] = rem["reset"]
        BY <2>1, <2>2, <2>4
      <3> QED
        BY <1>0, <2>1, <3>1, ResetUntouched
    <2> QED
      BY <2>3, <2>4
  <1>3. ASSUME NEW w \in Taggers, CrashTagger(w)
        PROVE  Sweep'
    BY <1>0, <1>3, ResetUntouched DEF CrashTagger, taggerUnchanged
  <1> QED
    BY <1>1, <1>2, <1>3 DEF Crash

LEMMA RequestSweep ==
  ASSUME Sweep, Request
  PROVE  Sweep'
  <1>0. Shape'
    BY RequestShape DEF Sweep
  <1>1. ASSUME NEW x \in Admins, NEW p \in Pairs, StartManual(x, p)
        PROVE  Sweep'
    <2>1. UNCHANGED <<day, blocked, swept, late>>
      BY <1>1 DEF StartManual, removerUnchanged
    <2>2. rem'["reset"] = rem["reset"]
      BY <1>1, ConstantsAssumption DEF StartManual, Sweep, Shape, TypeOK, Removers
    <2> QED
      BY <1>0, <2>1, <2>2, ResetUntouched
  <1>2. ASSUME NEW w \in Taggers, NEW r \in Roles, NEW t \in Teams, TagRole(w, r, t)
        PROVE  Sweep'
    BY <1>0, <1>2, ResetUntouched DEF TagRole, CacheRole, taggerUnchanged
  <1> QED
    BY <1>1, <1>2 DEF Request

LEMMA TaggerSweep ==
  ASSUME Sweep, NEW w \in Taggers, TaggerStep(w)
  PROVE  Sweep'
  <1>1. Shape'
    BY TaggerShape DEF Sweep
  <1>2. UNCHANGED <<day, blocked, rem, swept, late>>
    BY DEF TaggerStep, RedeliverTagRole, CacheRole, QueryBlocked, AttachInherited,
           taggerUnchanged
  <1> QED
    BY <1>1, <1>2, ResetUntouched

(* A Daily_Reset that ran to its end leaves no pair BLOCKED for its day,   *)
(* whatever its two queries, the enforcers, the administrators' removals   *)
(* and the crashes before it did in between; only an enforcer that records *)
(* the ended day after midnight escapes it (runDailyReset).                *)
THEOREM SweptDaysStayClear == Spec => []SweptDaysAreClear
  <1>1. Sweep /\ [Next]_vars => Sweep'
    <2> SUFFICES ASSUME Sweep, [Next]_vars
                 PROVE  Sweep'
      OBVIOUS
    <2>1. CASE Next
      BY <2>1, EnvironmentSweep, EnforcerSweep, ResetSweep, RemoverSweep, TaggerSweep,
         RequestSweep, CrashSweep DEF Next
    <2>2. CASE UNCHANGED vars
      <3>1. Shape'
        BY <2>2 DEF vars, tables, history, Sweep, Shape, TypeOK, RowsDated, InvocationInBatch
      <3>2. UNCHANGED <<day, blocked, rem, swept, late>>
        BY <2>2 DEF vars, history
      <3> QED
        BY <3>1, <3>2, ResetUntouched
    <2> QED
      BY <2>1, <2>2
  <1>2. Sweep => SweptDaysAreClear
    BY DEF Sweep
  <1> QED
    BY InitSweep, <1>1, <1>2, PTL DEF Spec

=============================================================================
