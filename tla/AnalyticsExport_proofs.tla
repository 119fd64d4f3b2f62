----------------------- MODULE AnalyticsExport_proofs -----------------------
(***************************************************************************)
(* Proofs about AnalyticsExport, for every number of runs, keys, days and  *)
(* changes.                                                                *)
(*                                                                         *)
(* ReportedAsStored compares sets of rows that are built by unions of      *)
(* queries; the proofs go row by row instead.  Says(f, k, v) is what the   *)
(* tables say of a row, and Reading(r) what a run may rely on: of the keys *)
(* that have not moved under it, it holds exactly the rows the tables show *)
(* up to where each query has got.  When every query is at its end that is *)
(* the whole file.                                                         *)
(***************************************************************************)
EXTENDS AnalyticsExport, TLAPS

Says(f, k, v) == IF f[1] \in Daily THEN table[f][k] = v ELSE status[k] = v

(* The query of f that returns the rows with the value v.                  *)
By(f, v) == IF f[1] \in Daily THEN "day" ELSE v

Reads  == [Statuses \cup {"day"} -> 0..MaxKey]
RunRow == [todo : Seq(Files), read : Reads,
           got : SUBSET (Keys \X ((1..MaxValue) \cup Statuses)), moved : SUBSET Keys]

RunTyped(r) == r \in RunRow /\ (r.todo # <<>> => r.got \subseteq Keys \X Values(Head(r.todo)))

Reading(r) ==
  r.todo # <<>> =>
    \A k \in Keys \ r.moved : \A v \in Values(Head(r.todo)) :
      <<k, v>> \in r.got <=> /\ Says(Head(r.todo), k, v)
                             /\ k =< r.read[By(Head(r.todo), v)]

FilesAgree ==
  \A f \in Files : \A k \in Keys \ doubt[f] : \A v \in Values(f) :
    <<k, v>> \in files[f] <=> Says(f, k, v)

TablesTyped ==
  /\ day \in 2..MaxDay
  /\ table \in [Daily \X Days -> [Keys -> 0..MaxValue]]
  /\ status \in [Keys -> Statuses \cup {NONE}]
  /\ DOMAIN files = Files /\ \A f \in Files : files[f] \subseteq Keys \X Values(f)
  /\ events \in 0..MaxEvents
  /\ doubt \in [Files -> SUBSET Keys]

RunsRead ==
  run \in [Slots -> RunRow] /\ \A s \in Slots : RunTyped(run[s]) /\ Reading(run[s])

ExportInv == TablesTyped /\ RunsRead /\ FilesAgree

(* The step changes the rows of k in the files F at most.                  *)
SaysElsewhere(F, k) ==
  \A f \in Files, j \in Keys : \A v \in Values(f) :
    f \notin F \/ j # k => (Says(f, j, v)' <=> Says(f, j, v))

USE AnalyticsExportAssumption

-----------------------------------------------------------------------------
(* What the queries return.                                                *)

LEMMA FileKinds ==
  ASSUME NEW f \in Files
  PROVE  /\ f[1] \in Daily => f \in Daily \X Days
         /\ f[1] \notin Daily => f \in {"blocked-state"} \X Days
         /\ f = <<f[1], f[2]>> /\ f[2] \in Days
  BY DEF Files

LEMMA ValuesQueried ==
  ASSUME NEW f \in Files, NEW v \in Values(f)
  PROVE  By(f, v) \in Queries(f) /\ By(f, v) \in Statuses \cup {"day"}
  BY DEF Values, By, Queries

LEMMA RowsReturned ==
  ASSUME TablesTyped, NEW f \in Files, NEW q \in Queries(f)
  PROVE  /\ Result(f, q) \subseteq Keys \X Values(f)
         /\ \A k \in Keys, v \in Values(f) :
              <<k, v>> \in Result(f, q) <=> Says(f, k, v) /\ By(f, v) = q
  <1>1. CASE f[1] \in Daily
    <2>1. /\ table[f] \in [Keys -> 0..MaxValue] /\ Values(f) = 1..MaxValue /\ q = "day"
          /\ Result(f, q) = {<<k, table[f][k]>> : k \in {x \in Keys : table[f][x] > 0}}
      BY <1>1, FileKinds DEF TablesTyped, Values, Queries, Result
    <2>2. \A k \in Keys : table[f][k] \in 0..MaxValue
      BY <2>1
    <2> QED
      BY <1>1, <2>1, <2>2 DEF Says, By
  <1>2. CASE f[1] \notin Daily
    <2>1. /\ Values(f) = Statuses /\ q \in Statuses
          /\ Result(f, q) = {<<k, q>> : k \in {x \in Keys : status[x] = q}}
      BY <1>2 DEF Values, Queries, Result
    <2> QED
      BY <1>2, <2>1 DEF Says, By
  <1> QED
    BY <1>1, <1>2

LEMMA RowsStored ==
  ASSUME TablesTyped, NEW f \in Files
  PROVE  /\ Stored(f) \subseteq Keys \X Values(f)
         /\ \A k \in Keys, v \in Values(f) : <<k, v>> \in Stored(f) <=> Says(f, k, v)
  BY RowsReturned, ValuesQueried DEF Stored

LEMMA AgreeingFiles ==
  ASSUME TablesTyped, FilesAgree
  PROVE  ReportedAsStored
  <1> SUFFICES ASSUME NEW f \in Files
               PROVE  Sure(f, files[f]) = Sure(f, Stored(f))
    BY DEF ReportedAsStored
  <1>1. files[f] \subseteq Keys \X Values(f)
    BY DEF TablesTyped
  <1>2. ASSUME NEW x \in Keys \X Values(f), x[1] \notin doubt[f]
        PROVE  x \in files[f] <=> x \in Stored(f)
    <2>1. x = <<x[1], x[2]>> /\ x[1] \in Keys /\ x[2] \in Values(f)
      OBVIOUS
    <2> QED
      BY <1>2, <2>1, RowsStored DEF FilesAgree
  <1> QED
    BY <1>1, <1>2, RowsStored DEF Sure

-----------------------------------------------------------------------------
(* A run at the start of a file.                                           *)

LEMMA FreshRun ==
  ASSUME NEW t \in Seq(Files)
  PROVE  RunTyped(Run(t)) /\ Reading(Run(t))
  <1>1. Run(t).todo = t /\ Run(t).got = {} /\ Run(t) \in RunRow
    BY DEF Run, RunRow, Reads
  <1>2. ASSUME t # <<>>, NEW v \in Values(Head(t)), NEW k \in Keys
        PROVE  ~ (k =< Run(t).read[By(Head(t), v)])
    <2>1. Head(t) \in Files
      BY <1>2
    <2>2. Run(t).read[By(Head(t), v)] = 0
      BY <2>1, <1>2, ValuesQueried DEF Run
    <2> QED
      BY <2>2 DEF Keys
  <1> QED
    BY <1>1, <1>2 DEF RunTyped, Reading

LEMMA IdleRun == RunTyped(Idle) /\ Reading(Idle)
  <1>1. <<>> \in Seq(Files)
    OBVIOUS
  <1> QED
    BY <1>1, FreshRun DEF Idle

LEMMA WorkTyped ==
  ASSUME TablesTyped
  PROVE  Work(day) \in Seq(Files)
  <1>1. day - 1 \in Days /\ day \in Days
    BY DEF TablesTyped, Days
  <1> QED
    BY <1>1 DEF Work, Files, Daily

LEMMA ExportShape == ExportInv => TypeOK
  BY DEF ExportInv, TablesTyped, RunsRead, RunTyped, RunRow, Reads, TypeOK, Busy, Target

(* A step that gives one run a new row and leaves the tables alone.        *)
LEMMA RunStep ==
  ASSUME RunsRead, NEW s \in Slots, NEW r, RunTyped(r), Reading(r),
         run' = [run EXCEPT ![s] = r], UNCHANGED <<table, status>>
  PROVE  RunsRead'
  <1>1. r \in RunRow /\ run' \in [Slots -> RunRow]
    BY DEF RunsRead, RunTyped
  <1>2. \A u \in Slots : run'[u] = IF u = s THEN r ELSE run[u]
    BY DEF RunsRead
  <1>3. \A u \in Slots : RunTyped(run'[u]) /\ Reading(run'[u])
    BY <1>2 DEF RunsRead
  <1> QED
    BY <1>1, <1>3 DEF RunsRead, RunTyped, Reading, Says

-----------------------------------------------------------------------------
(* The changes of the tables.                                              *)

(* A key of the files F has changed: it moves under the runs that read     *)
(* them, and is in doubt in the files themselves.                          *)
LEMMA MovedRows ==
  ASSUME ExportInv, NEW F \in SUBSET Files, NEW k \in Keys, Moves(F, k),
         SaysElsewhere(F, k), UNCHANGED files
  PROVE  RunsRead' /\ FilesAgree' /\ doubt' \in [Files -> SUBSET Keys]
  <1>1. /\ run \in [Slots -> RunRow] /\ doubt \in [Files -> SUBSET Keys]
        /\ \A u \in Slots : RunTyped(run[u]) /\ Reading(run[u])
    BY DEF ExportInv, TablesTyped, RunsRead
  <1>2. ASSUME NEW u \in Slots
        PROVE  run'[u] \in RunRow /\ RunTyped(run[u])' /\ Reading(run[u])'
    <2>1. CASE Busy(u) /\ Target(u) \in F
      <3>1. /\ run'[u] = [run[u] EXCEPT !.moved = @ \cup {k}]
            /\ run[u] \in RunRow /\ run[u].todo # <<>> /\ Head(run[u].todo) \in Files
        BY <1>1, <2>1 DEF Moves, Busy, Target, RunRow
      <3>2. /\ run'[u].todo = run[u].todo /\ run'[u].got = run[u].got
            /\ run'[u].read = run[u].read /\ run'[u].moved = run[u].moved \cup {k}
            /\ run'[u] \in RunRow
        <4>1. PICK r \in RunRow : /\ r = run[u]
                                  /\ run'[u] = [r EXCEPT !.moved = @ \cup {k}]
          BY <3>1
        <4>2. PICK x : x = r.moved \cup {k}
          OBVIOUS
        <4>3. x \in SUBSET Keys
          BY <4>2 DEF RunRow
        <4> QED
          BY <4>1, <4>2, <4>3 DEF RunRow
      <3>3. \A j \in Keys \ run'[u].moved : j \in Keys \ run[u].moved /\ j # k
        BY <3>2
      <3>4. Reading(run[u]) /\ RunTyped(run[u])
        BY <1>1
      <3> QED
        BY <3>1, <3>2, <3>3, <3>4 DEF RunTyped, Reading, SaysElsewhere
    <2>2. CASE ~(Busy(u) /\ Target(u) \in F)
      <3>1. run'[u] = run[u] /\ run[u] \in RunRow /\ Reading(run[u]) /\ RunTyped(run[u])
        BY <1>1, <2>2 DEF Moves
      <3>2. run[u].todo # <<>> => Head(run[u].todo) \in Files /\ Head(run[u].todo) \notin F
        BY <2>2, <3>1 DEF Busy, Target, RunRow
      <3> QED
        BY <3>1, <3>2 DEF RunTyped, Reading, SaysElsewhere
    <2> QED
      BY <2>1, <2>2
  <1>3. run' \in [Slots -> RunRow]
    BY <1>2 DEF Moves
  <1>4. doubt' \in [Files -> SUBSET Keys]
    BY <1>1 DEF Moves
  <1>5. ASSUME NEW f \in Files, NEW j \in Keys \ doubt'[f], NEW v \in Values(f)
        PROVE  <<j, v>> \in files'[f] <=> Says(f, j, v)'
    <2>1. j \in Keys \ doubt[f] /\ (f \notin F \/ j # k)
      BY <1>1, <1>5 DEF Moves
    <2> QED
      BY <2>1 DEF ExportInv, FilesAgree, SaysElsewhere
  <1>6. FilesAgree'
    BY <1>5 DEF FilesAgree, Values
  <1> QED
    BY <1>2, <1>3, <1>4, <1>6 DEF RunsRead

LEMMA DailyRow ==
  ASSUME TablesTyped, NEW g \in Daily \X Days, NEW k \in Keys, NEW w \in 0..MaxValue,
         table' = [table EXCEPT ![g][k] = w], UNCHANGED status
  PROVE  table' \in [Daily \X Days -> [Keys -> 0..MaxValue]] /\ SaysElsewhere({g}, k)
  <1>1. table \in [Daily \X Days -> [Keys -> 0..MaxValue]] /\ table[g] \in [Keys -> 0..MaxValue]
    BY DEF TablesTyped
  <1>2. [table[g] EXCEPT ![k] = w] \in [Keys -> 0..MaxValue]
    BY <1>1
  <1>3. /\ table' = [table EXCEPT ![g] = [table[g] EXCEPT ![k] = w]]
        /\ table' \in [Daily \X Days -> [Keys -> 0..MaxValue]]
    BY <1>1, <1>2
  <1>4. \A f \in Daily \X Days, j \in Keys : f # g \/ j # k => table'[f][j] = table[f][j]
    BY <1>1, <1>3
  <1> QED
    BY <1>3, <1>4, FileKinds DEF Says, SaysElsewhere

(* A change of one row of a daily file.                                    *)
LEMMA DailyStep ==
  ASSUME ExportInv, Change, NEW g \in Daily \X Days, NEW k \in Keys, NEW w \in 0..MaxValue,
         table' = [table EXCEPT ![g][k] = w], Moves({g}, k), UNCHANGED status
  PROVE  ExportInv'
  <1>1. TablesTyped /\ {g} \in SUBSET Files
    BY DEF ExportInv, Files
  <1>2. table' \in [Daily \X Days -> [Keys -> 0..MaxValue]] /\ SaysElsewhere({g}, k)
    BY <1>1, DailyRow
  <1>3. RunsRead' /\ FilesAgree' /\ doubt' \in [Files -> SUBSET Keys]
    BY <1>1, <1>2, MovedRows DEF Change
  <1>4. TablesTyped'
    BY <1>1, <1>2, <1>3 DEF Change, Event, TablesTyped, Values
  <1> QED
    BY <1>3, <1>4 DEF ExportInv

LEMMA TablesStep ==
  ASSUME ExportInv, Tables
  PROVE  ExportInv'
  <1>0. TablesTyped
    BY DEF ExportInv
  <1>1. ASSUME NEW k \in Keys, NEW d \in Days, AddUsage(d, k) PROVE ExportInv'
    <2>1. PICK g \in Daily \X Days :
            /\ g = <<"token-usage", d>> /\ table[g][k] < MaxValue
            /\ table' = [table EXCEPT ![g][k] = table[g][k] + 1]
            /\ Moves({g}, k) /\ Change /\ UNCHANGED status
      <3>1. <<"token-usage", d>> \in Daily \X Days
        BY DEF Daily
      <3> QED
        BY <1>1, <3>1 DEF AddUsage
    <2>2. table[g][k] \in 0..MaxValue
      BY <1>0 DEF TablesTyped
    <2>3. table[g][k] + 1 \in 0..MaxValue
      BY <2>1, <2>2
    <2> QED
      BY <2>1, <2>3, DailyStep
  <1>2. ASSUME NEW k \in Keys, WriteAuditEntry(k) PROVE ExportInv'
    <2>1. PICK g \in Daily \X Days :
            /\ g = <<"enforcement-audit", day>>
            /\ table' = [table EXCEPT ![g][k] = 1]
            /\ Moves({g}, k) /\ Change /\ UNCHANGED status
      <3>1. <<"enforcement-audit", day>> \in Daily \X Days
        BY <1>0 DEF Daily, TablesTyped, Days
      <3> QED
        BY <1>2, <3>1 DEF WriteAuditEntry
    <2>2. 1 \in 0..MaxValue
      OBVIOUS
    <2> QED
      BY <2>1, <2>2, DailyStep
  <1>3. ASSUME NEW k \in Keys, NEW x \in Statuses \cup {NONE}, SetStatus(k, x) PROVE ExportInv'
    <2>1. PICK F \in SUBSET Files :
            F = {"blocked-state"} \X Days /\ Moves(F, k) /\ UNCHANGED <<files, table>>
      BY <1>3 DEF SetStatus, Change, Files
    <2>2. /\ status' \in [Keys -> Statuses \cup {NONE}]
          /\ \A j \in Keys : j # k => status'[j] = status[j]
      BY <1>0, <1>3 DEF SetStatus, TablesTyped
    <2>3. SaysElsewhere(F, k)
      BY <2>1, <2>2, FileKinds DEF Says, SaysElsewhere
    <2>4. RunsRead' /\ FilesAgree' /\ doubt' \in [Files -> SUBSET Keys]
      BY <2>1, <2>3, MovedRows
    <2>5. TablesTyped'
      BY <1>0, <1>3, <2>2, <2>4 DEF SetStatus, Change, Event, TablesTyped, Values
    <2> QED
      BY <2>4, <2>5 DEF ExportInv
  <1> QED
    BY <1>1, <1>2, <1>3 DEF Tables

-----------------------------------------------------------------------------
(* The steps of a run.                                                     *)

(* A run that leaves the bucket alone.                                     *)
LEMMA RunOnly ==
  ASSUME ExportInv, NEW s \in Slots, NEW r, RunTyped(r), Reading(r),
         run' = [run EXCEPT ![s] = r], UNCHANGED <<day, table, status, files, doubt>>,
         events' \in 0..MaxEvents
  PROVE  ExportInv'
  <1>1. RunsRead'
    BY RunStep DEF ExportInv
  <1>2. TablesTyped'
    BY DEF ExportInv, TablesTyped, Values
  <1>3. FilesAgree'
    BY DEF ExportInv, FilesAgree, Says, Values
  <1> QED
    BY <1>1, <1>2, <1>3 DEF ExportInv

LEMMA BusyRun ==
  ASSUME RunsRead, NEW s \in Slots, Busy(s)
  PROVE  /\ run[s] \in RunRow /\ run[s].todo # <<>> /\ Target(s) = Head(run[s].todo)
         /\ Target(s) \in Files /\ Tail(run[s].todo) \in Seq(Files)
         /\ run[s].got \subseteq Keys \X Values(Target(s)) /\ Reading(run[s])
  BY DEF RunsRead, RunTyped, RunRow, Busy, Target

(* Of the keys of the file f a run has the rows up to k, then up to more.  *)
LEMMA PageJoins ==
  ASSUME TablesTyped, NEW f \in Files, NEW q \in Queries(f), NEW k \in Keys,
         NEW old \in Reads, NEW got, NEW j \in Keys, NEW v \in Values(f), old[q] < k,
         <<j, v>> \in got <=> Says(f, j, v) /\ j =< old[By(f, v)],
         q \in Statuses \cup {"day"}
  PROVE  <<j, v>> \in got \cup {x \in Result(f, q) : old[q] < x[1] /\ x[1] =< k}
           <=> Says(f, j, v) /\ j =< [old EXCEPT ![q] = k][By(f, v)]
  <1>1. <<j, v>> \in Result(f, q) <=> Says(f, j, v) /\ By(f, v) = q
    BY RowsReturned
  <1>2. <<j, v>> \in {x \in Result(f, q) : old[q] < x[1] /\ x[1] =< k}
          <=> <<j, v>> \in Result(f, q) /\ old[q] < j /\ j =< k
    OBVIOUS
  <1>3. [old EXCEPT ![q] = k][By(f, v)] = IF By(f, v) = q THEN k ELSE old[By(f, v)]
    BY ValuesQueried DEF Reads
  <1>4. j \in Nat /\ k \in Nat /\ old[q] \in Nat
    BY DEF Reads, Keys
  <1>5. CASE By(f, v) = q
    BY <1>1, <1>2, <1>3, <1>4, <1>5
  <1>6. CASE By(f, v) # q
    BY <1>1, <1>2, <1>3, <1>6
  <1> QED
    BY <1>5, <1>6

LEMMA PageRead ==
  ASSUME ExportInv, NEW s \in Slots, NEW q \in Statuses \cup {"day"}, NEW k \in Keys,
         ReadPage(s, q, k)
  PROVE  ExportInv'
  <1>1. TablesTyped /\ RunsRead /\ Busy(s) /\ q \in Queries(Target(s)) /\ run[s].read[q] < k
    BY DEF ReadPage, ExportInv
  <1>2. PICK r \in RunRow, f \in Files :
          /\ r = run[s] /\ f = Target(s) /\ r.todo # <<>> /\ f = Head(r.todo)
          /\ r.got \subseteq Keys \X Values(f) /\ Reading(r)
    BY <1>1, BusyRun
  <1>3. PICK page : page = {x \in Result(f, q) : r.read[q] < x[1] /\ x[1] =< k}
    OBVIOUS
  <1>4. PICK p : p = [todo |-> r.todo, read |-> [r.read EXCEPT ![q] = k],
                      got |-> r.got \cup page, moved |-> r.moved]
    OBVIOUS
  <1>5. run' = [run EXCEPT ![s] = p]
    <2>1. run' = [run EXCEPT ![s].read[q] = k, ![s].got = r.got \cup page]
      BY <1>2, <1>3 DEF ReadPage
    <2>2. run \in [Slots -> RunRow]
      BY <1>1 DEF RunsRead
    <2>3. run'[s] = p
      BY <1>2, <1>4, <2>1, <2>2 DEF RunRow
    <2>4. DOMAIN run' = Slots /\ \A u \in Slots : u # s => run'[u] = run[u]
      BY <2>1, <2>2
    <2> QED
      BY <2>1, <2>2, <2>3, <2>4
  <1>6. p \in RunRow /\ RunTyped(p)
    <2>1. page \subseteq Keys \X Values(f)
      BY <1>1, <1>2, <1>3, RowsReturned
    <2>2. r.read \in Reads /\ [r.read EXCEPT ![q] = k] \in Reads
      BY DEF RunRow, Reads, Keys
    <2>3. Values(f) \subseteq (1..MaxValue) \cup Statuses
      BY DEF Values
    <2> QED
      BY <1>2, <1>4, <2>1, <2>2, <2>3 DEF RunRow, RunTyped
  <1>7. Reading(p)
    <2>0. /\ p.todo = r.todo /\ p.moved = r.moved /\ p.got = r.got \cup page
          /\ p.read = [r.read EXCEPT ![q] = k]
      BY <1>4
    <2>1. ASSUME NEW j \in Keys \ p.moved, NEW v \in Values(f)
          PROVE  <<j, v>> \in p.got <=> Says(f, j, v) /\ j =< p.read[By(f, v)]
      <3>1. <<j, v>> \in r.got <=> Says(f, j, v) /\ j =< r.read[By(f, v)]
        BY <1>2, <2>0 DEF Reading
      <3>2. r.read \in Reads
        BY DEF RunRow
      <3>3. q \in Queries(f) /\ r.read[q] < k /\ j \in Keys
        BY <1>1, <1>2
      <3>4. <<j, v>> \in r.got \cup {x \in Result(f, q) : r.read[q] < x[1] /\ x[1] =< k}
              <=> Says(f, j, v) /\ j =< [r.read EXCEPT ![q] = k][By(f, v)]
        BY <1>1, <3>1, <3>2, <3>3, PageJoins
      <3> QED
        BY <1>3, <2>0, <3>4
    <2>2. Head(p.todo) = f
      BY <1>2, <2>0
    <2> QED
      BY <2>1, <2>2 DEF Reading
  <1>8. events' \in 0..MaxEvents /\ UNCHANGED <<day, table, status, files, doubt>>
    BY <1>1 DEF ReadPage, TablesTyped
  <1> QED
    BY <1>5, <1>6, <1>7, <1>8, RunOnly

LEMMA FilePut ==
  ASSUME ExportInv, NEW s \in Slots, Put(s)
  PROVE  ExportInv'
  <1>1. TablesTyped /\ FilesAgree /\ RunsRead /\ AllRead(s) /\ Busy(s)
    BY DEF Put, AllRead, ExportInv
  <1>2. PICK r \in RunRow, f \in Files :
          /\ r = run[s] /\ f = Target(s) /\ r.todo # <<>> /\ f = Head(r.todo)
          /\ Tail(r.todo) \in Seq(Files) /\ r.got \subseteq Keys \X Values(f) /\ Reading(r)
    BY <1>1, BusyRun
  <1>3. RunsRead'
    BY <1>1, <1>2, FreshRun, RunStep DEF Put, Advance
  <1>4. /\ DOMAIN files' = Files /\ doubt' \in [Files -> SUBSET Keys]
        /\ files'[f] = r.got /\ doubt'[f] = r.moved
        /\ \A g \in Files : g # f => files'[g] = files[g] /\ doubt'[g] = doubt[g]
    BY <1>1, <1>2 DEF Put, TablesTyped, RunRow
  <1>5. ASSUME NEW j \in Keys \ r.moved, NEW v \in Values(f)
        PROVE  <<j, v>> \in r.got <=> Says(f, j, v)
    <2>1. By(f, v) \in Queries(f)
      BY ValuesQueried
    <2>2. r.read[By(f, v)] = MaxKey
      BY <1>1, <1>2, <2>1 DEF AllRead
    <2> QED
      BY <1>2, <1>5, <2>2 DEF Reading, Keys
  <1>6. FilesAgree'
    <2>1. ASSUME NEW g \in Files, NEW j \in Keys \ doubt'[g], NEW v \in Values(g)
          PROVE  <<j, v>> \in files'[g] <=> Says(g, j, v)
      BY <1>1, <1>4, <1>5 DEF FilesAgree
    <2> QED
      BY <2>1 DEF FilesAgree, Says, Values, Put
  <1>7. \A g \in Files : files'[g] \subseteq Keys \X Values(g)
    BY <1>1, <1>2, <1>4 DEF TablesTyped
  <1>8. TablesTyped'
    BY <1>1, <1>4, <1>7 DEF Put, TablesTyped, Values
  <1> QED
    BY <1>3, <1>6, <1>8 DEF ExportInv

LEMMA ExportInit == Init => ExportInv
  <1> SUFFICES ASSUME Init PROVE ExportInv
    OBVIOUS
  <1>2. RunsRead
    BY IdleRun DEF Init, RunsRead, RunTyped
  <1>3. TablesTyped
    <2>1. /\ table \in [Daily \X Days -> [Keys -> 0..MaxValue]]
          /\ status \in [Keys -> Statuses \cup {NONE}]
      BY DEF Init
    <2>2. /\ DOMAIN files = Files /\ \A f \in Files : files[f] = {}
          /\ doubt \in [Files -> SUBSET Keys]
      BY DEF Init
    <2>3. day \in 2..MaxDay /\ events \in 0..MaxEvents
      BY DEF Init
    <2> QED
      BY <2>1, <2>2, <2>3 DEF TablesTyped
  <1>4. FilesAgree
    BY DEF Init, FilesAgree
  <1> QED
    BY <1>2, <1>3, <1>4 DEF ExportInv

LEMMA ExportStep == ExportInv /\ [Next]_vars => ExportInv'
  <1> SUFFICES ASSUME ExportInv, [Next]_vars PROVE ExportInv'
    OBVIOUS
  <1>1. TablesTyped /\ RunsRead /\ events \in 0..MaxEvents
    BY DEF ExportInv, TablesTyped
  <1>2. CASE UNCHANGED vars
    BY <1>2 DEF vars, ExportInv, TablesTyped, RunsRead, RunTyped, Reading, FilesAgree, Says, Values
  <1>3. CASE NextDay
    <2>1. day' \in 2..MaxDay
      BY <1>1, <1>3 DEF NextDay, TablesTyped
    <2> QED
      BY <1>3, <2>1
         DEF NextDay, ExportInv, TablesTyped, RunsRead, RunTyped, Reading, FilesAgree, Says, Values
  <1>4. ASSUME NEW s \in Slots, Start(s) PROVE ExportInv'
    <2>1. RunTyped(Run(Work(day))) /\ Reading(Run(Work(day)))
      BY <1>1, WorkTyped, FreshRun
    <2> QED
      BY <1>1, <1>4, <2>1, RunOnly DEF Start
  <1>5. ASSUME NEW s \in Slots, Skip(s) PROVE ExportInv'
    <2>1. Tail(run[s].todo) \in Seq(Files)
      BY <1>1, <1>5, BusyRun DEF Skip, AllRead
    <2>2. RunTyped(Run(Tail(run[s].todo))) /\ Reading(Run(Tail(run[s].todo)))
      BY <2>1, FreshRun
    <2> QED
      BY <1>1, <1>5, <2>2, RunOnly DEF Skip, Advance
  <1>6. ASSUME NEW s \in Slots, Fail(s) PROVE ExportInv'
    <2>1. events' \in 0..MaxEvents /\ RunTyped(Idle) /\ Reading(Idle)
      BY <1>1, <1>6, IdleRun DEF Fail, Event
    <2> QED
      BY <1>6, <2>1, RunOnly DEF Fail
  <1> QED
    BY <1>2, <1>3, <1>4, <1>5, <1>6, TablesStep, PageRead, FilePut DEF Next, Step

-----------------------------------------------------------------------------
(* The state of the export keeps its shape: a run reads and writes only    *)
(* the files of its list, with rows of their own kind, whatever other runs *)
(* and the tables do meanwhile.                                            *)
THEOREM ExportTypes == Spec => []TypeOK
  BY ExportShape, ExportInit, ExportStep, PTL DEF Spec

(* A file of the bucket says of every key what the table says, once,       *)
(* unless the key has changed since the rows of the file were read         *)
(* (analyticsExportEntry.ts:41-65): for any number of overlapping runs,    *)
(* page sizes, failures and changes.                                       *)
THEOREM ExportReportsTables == Spec => []ReportedAsStored
  <1>1. ExportInv => ReportedAsStored
    BY AgreeingFiles DEF ExportInv
  <1> QED
    BY <1>1, ExportInit, ExportStep, PTL DEF Spec
=============================================================================
