--------------------------- MODULE AnalyticsExport ---------------------------
(***************************************************************************)
(* The hourly export of the tables to the analytics bucket                 *)
(* (src/lambdaEntrypoints/analyticsExportEntry.ts, src/analyticsExport.ts, *)
(* src/blockedStateQuery.ts, listAuditEntriesByDay of src/auditLog.ts).    *)
(*                                                                         *)
(* A run reads one partition of an index after another, a page at a time,  *)
(* while the tables go on changing, and puts each under its day in the     *)
(* bucket.  Runs may overlap, and one that fails leaves the rest of its    *)
(* files to the next.  A row is a key and what the table says of it: token *)
(* types, endpoints and time stamps are left out, and an index shows what  *)
(* its table holds.                                                        *)
(***************************************************************************)
EXTENDS Naturals, Sequences

CONSTANTS
  Slots,        \* runs that may be under way at once
  BLOCKED, PENDING_RESET, NONE,    \* the status of a pair, and none
  MaxKey,       \* keys of a partition, 1 to MaxKey in the order of its index
  MaxDay, MaxValue,
  InitTable, InitStatus,    \* sets of what the tables may hold at the start
  MaxEvents     \* bound: changes to the tables and runs that fail

Days     == 1..MaxDay
Keys     == 1..MaxKey
Daily    == {"token-usage", "enforcement-audit"}
Statuses == {BLOCKED, PENDING_RESET}
Files    == (Daily \cup {"blocked-state"}) \X Days

ASSUME AnalyticsExportAssumption ==
  /\ MaxKey \in Nat \ {0} /\ MaxValue \in Nat \ {0}
  /\ MaxDay \in Nat \ {0, 1}
  /\ MaxEvents \in Nat
  /\ InitTable \subseteq [Daily \X Days -> [Keys -> 0..MaxValue]]
  /\ InitStatus \subseteq [Keys -> Statuses \cup {NONE}]

VARIABLES
  day,          \* today
  table,        \* [Daily \X Days -> [Keys -> 0..MaxValue]], 0 for no item
  status,       \* [Keys -> the status of the Blocked_State row, or NONE]
  files,        \* [Files -> set of rows], {} for no object
  run,          \* [Slots -> a run of the handler]
  events,
  \* History, read by no action:
  doubt         \* [Files -> keys changed since the rows of the file were read]

vars == <<day, table, status, files, run, events, doubt>>

(* The files a run writes, in order.                                       *)
Work(d) == <<<<"token-usage", d - 1>>, <<"token-usage", d>>,
             <<"enforcement-audit", d - 1>>, <<"enforcement-audit", d>>,
             <<"blocked-state", d>>>>

(* The queries behind a file and what each returns.                        *)
Queries(f) == IF f[1] \in Daily THEN {"day"} ELSE Statuses
Result(f, q) ==
  IF f[1] \in Daily THEN {<<k, table[f][k]>> : k \in {x \in Keys : table[f][x] > 0}}
  ELSE {<<k, q>> : k \in {x \in Keys : status[x] = q}}
Stored(f) == UNION {Result(f, q) : q \in Queries(f)}
Values(f) == IF f[1] \in Daily THEN 1..MaxValue ELSE Statuses

(* A run has the files of todo left to write and has read the keys up to   *)
(* read[q] with each query of the first.                                   *)
Run(todo) == [todo |-> todo, read |-> [q \in Statuses \cup {"day"} |-> 0],
              got |-> {}, moved |-> {}]
Idle == Run(<<>>)

Busy(s)   == run[s].todo # <<>>
Target(s) == Head(run[s].todo)

TypeOK ==
  /\ day \in 2..MaxDay
  /\ table \in [Daily \X Days -> [Keys -> 0..MaxValue]]
  /\ status \in [Keys -> Statuses \cup {NONE}]
  /\ DOMAIN files = Files /\ \A f \in Files : files[f] \subseteq Keys \X Values(f)
  /\ run \in [Slots -> [todo : Seq(Files), read : [Statuses \cup {"day"} -> 0..MaxKey],
                       got : SUBSET (Keys \X ((1..MaxValue) \cup Statuses)),
                       moved : SUBSET Keys]]
  /\ \A s \in Slots : Busy(s) => run[s].got \subseteq Keys \X Values(Target(s))
  /\ events \in 0..MaxEvents
  /\ doubt \in [Files -> SUBSET Keys]

Init ==
  /\ day = 2
  /\ table \in InitTable /\ status \in InitStatus
  /\ files = [f \in Files |-> {}]
  /\ run = [s \in Slots |-> Idle]
  /\ events = 0
  /\ doubt = [f \in Files |-> Keys]

-----------------------------------------------------------------------------
(* The tables, changed by the collectors, the enforcer and the reset.      *)

(* What the change of a key does to the runs and files that have read it.  *)
Moves(F, k) ==
  /\ run' = [s \in Slots |-> IF Busy(s) /\ Target(s) \in F
                             THEN [run[s] EXCEPT !.moved = @ \cup {k}] ELSE run[s]]
  /\ doubt' = [f \in Files |-> IF f \in F THEN doubt[f] \cup {k} ELSE doubt[f]]

Event == events < MaxEvents /\ events' = events + 1

Change == Event /\ UNCHANGED <<day, files>>

(* Usage is added to a day, today or before.                               *)
AddUsage(d, k) ==
  /\ Change
  /\ d =< day /\ table[<<"token-usage", d>>][k] < MaxValue
  /\ table' = [table EXCEPT ![<<"token-usage", d>>][k] = @ + 1]
  /\ Moves({<<"token-usage", d>>}, k)
  /\ UNCHANGED status

(* writeAuditEntry: an entry of its own, under the day it is written.      *)
WriteAuditEntry(k) ==
  /\ Change
  /\ table[<<"enforcement-audit", day>>][k] = 0
  /\ table' = [table EXCEPT ![<<"enforcement-audit", day>>][k] = 1]
  /\ Moves({<<"enforcement-audit", day>>}, k)
  /\ UNCHANGED status

(* A pair is blocked, its reset fails, or its block is lifted.             *)
SetStatus(k, x) ==
  /\ Change
  /\ status[k] # x
  /\ status' = [status EXCEPT ![k] = x]
  /\ Moves({"blocked-state"} \X Days, k)
  /\ UNCHANGED table

NextDay ==
  /\ day < MaxDay
  /\ day' = day + 1
  /\ UNCHANGED <<table, status, files, run, events, doubt>>

-----------------------------------------------------------------------------
(* A run of the handler.                                                   *)

(* Mutant: targetUsageDays leaves out yesterday.                           *)
Start_today(s) ==
  /\ ~Busy(s)
  /\ run' = [run EXCEPT ![s] = Run(Tail(Work(day)))]
  /\ UNCHANGED <<day, table, status, files, events, doubt>>

(* The hourly rule, or a retry of a run that failed.                       *)
Start(s) ==
  /\ ~Busy(s)
  /\ run' = [run EXCEPT ![s] = Run(Work(day))]
  /\ UNCHANGED <<day, table, status, files, events, doubt>>

(* One page of one query, from where the page before ended.                *)
ReadPage(s, q, k) ==
  /\ Busy(s) /\ q \in Queries(Target(s))
  /\ run[s].read[q] < k
  /\ run' = [run EXCEPT ![s].read[q] = k,
                        ![s].got = @ \cup {x \in Result(Target(s), q) :
                                             run[s].read[q] < x[1] /\ x[1] =< k}]
  /\ UNCHANGED <<day, table, status, files, events, doubt>>

(* Mutant: the first page is taken for the whole partition.                *)
AllRead_first(s) ==
  Busy(s) /\ \A q \in Queries(Target(s)) : run[s].read[q] > 0

(* No query has a LastEvaluatedKey left.                                   *)
AllRead(s) ==
  Busy(s) /\ \A q \in Queries(Target(s)) : run[s].read[q] = MaxKey

Advance(s) == run' = [run EXCEPT ![s] = Run(Tail(run[s].todo))]

(* A day without rows leaves the bucket as it is.                          *)
Skip(s) ==
  /\ AllRead(s) /\ run[s].got = {} /\ Target(s)[1] \in Daily
  /\ Advance(s)
  /\ UNCHANGED <<day, table, status, files, events, doubt>>

(* The object of the day is replaced.                                      *)
Put(s) ==
  /\ AllRead(s)
  /\ run[s].got # {} \/ Target(s)[1] \notin Daily
  /\ files' = [files EXCEPT ![Target(s)] = run[s].got]
  /\ doubt' = [doubt EXCEPT ![Target(s)] = run[s].moved]
  /\ Advance(s)
  /\ UNCHANGED <<day, table, status, events>>

(* A query or a put throws, or the run times out.                          *)
Fail(s) ==
  /\ Busy(s) /\ Event
  /\ run' = [run EXCEPT ![s] = Idle]
  /\ UNCHANGED <<day, table, status, files, doubt>>

-----------------------------------------------------------------------------
Tables ==
  \/ \E k \in Keys, d \in Days : AddUsage(d, k)
  \/ \E k \in Keys : WriteAuditEntry(k)
  \/ \E k \in Keys, x \in Statuses \cup {NONE} : SetStatus(k, x)

Step(s) ==
  \/ Start(s) \/ Skip(s) \/ Put(s)
  \/ \E q \in Statuses \cup {"day"}, k \in Keys : ReadPage(s, q, k)

Next == Tables \/ NextDay \/ \E s \in Slots : Step(s) \/ Fail(s)

Spec == Init /\ [][Next]_vars

(* Runs start every hour and a started run goes on, unless it fails.       *)
FairSpec == Spec /\ \A s \in Slots : WF_vars(Step(s))

-----------------------------------------------------------------------------
(* Properties.                                                             *)

Sure(f, rows) == {x \in rows : x[1] \notin doubt[f]}

(* A file says of a key what the table says, and says it once, unless the  *)
(* key has changed since the file's rows were read: no page is lost or     *)
(* read twice, and an overlapping or failed run leaves nothing worse than  *)
(* an older value.                                                         *)
ReportedAsStored == \A f \in Files : Sure(f, files[f]) = Sure(f, Stored(f))

(* When the tables come to rest the files of yesterday and today, and the  *)
(* snapshot of the blocks under today, come to say what they hold.         *)
ReportCatchesUp ==
  <>[](\A f \in Files :
         f[2] = day \/ (f[2] = day - 1 /\ f[1] \in Daily) => files[f] = Stored(f))
=============================================================================
