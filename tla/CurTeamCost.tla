----------------------------- MODULE CurTeamCost -----------------------------
(***************************************************************************)
(* The billed cost of the teams: every six hours a run asks Athena for the *)
(* month-to-date lines of the AWS bill (CUR 2.0), adds them up and puts    *)
(* them under today; the dashboards read the latest day through a view     *)
(* (src/lambdaEntrypoints/curTeamCostEntry.ts, src/clients/athenaClient.ts,*)
(* src/cur/, infra/stack.ts).                                              *)
(*                                                                         *)
(* The bill is AWS's: it changes at any time, also after its period has    *)
(* ended.  A line is a team, or none, and a usage type, given by the parts *)
(* the parser looks for.  Token amounts are left out: they are added up    *)
(* with the costs.                                                         *)
(***************************************************************************)
EXTENDS Naturals, FiniteSets, Functions

CONSTANTS
  Slots,        \* runs that may be under way at once
  Teams, NoTeam, Untagged,
  Lines,        \* lines of a bill: [team, type]
  MaxDay, MaxPeriod,
  Period,       \* [Days -> Periods], the billing period of a day
  Window,       \* days the view looks back
  None,         \* no usage type
  MaxCost,
  InitBill,     \* set of what the bill may be at the start
  MaxEvents     \* bound: changes of the bill and runs that fail

Days    == 1..MaxDay
Periods == 1..MaxPeriod

Apis     == {"bedrock-runtime", "bedrock-mantle"}
Tokens   == {"input", "output", "cache-read", "cache-write", "other"}
Suffixes == {"", "standard", "priority", "flex", "cross-region-global"}

(* What the parser makes of a usage type: the name of the model, with      *)
(* "mantle" where that part is left in it, and the endpoint.               *)
Parsed(u, left, endpoint) == [model |-> <<u.model, left>>, endpoint |-> endpoint]

ASSUME CurTeamCostAssumption ==
  /\ IsFiniteSet(Lines)
  /\ NoTeam \notin Teams /\ Untagged \notin Teams
  /\ \A l \in Lines : /\ l.team \in Teams \cup {NoTeam}
                      /\ l.type.api \in Apis /\ l.type.token \in Tokens
                      /\ l.type.suffix \in Suffixes
  /\ \A l \in Lines, left \in {"", "mantle"}, a \in Apis : Parsed(l.type, left, a) # None
  /\ MaxDay \in Nat \ {0} /\ MaxPeriod \in Nat \ {0} /\ Window \in Nat
  /\ MaxCost \in Nat /\ MaxEvents \in Nat
  /\ InitBill \subseteq [Periods -> [Lines -> 0..MaxCost]]
  /\ Period \in [Days -> Periods]
  /\ \A d, e \in Days : d =< e => Period[d] =< Period[e]

VARIABLES
  day,
  bill,     \* [Periods -> [Lines -> 0..MaxCost]], 0 for no line
  files,    \* [Days -> [rows, period]], no rows for no object
  view,     \* the view exists
  run,      \* [Slots -> a run of the handler]
  events,
  \* History, read by no action:
  stale     \* [Days -> the bill has changed since the rows of the file were read]

vars == <<day, bill, files, view, run, events, stale>>

-----------------------------------------------------------------------------
(* Usage types.                                                            *)

Runtime(u) == Parsed(u, IF u.api = "bedrock-mantle" THEN "mantle" ELSE "", "bedrock-runtime")

(* The patterns in the order they are tried: a cache pattern anywhere in   *)
(* the name, Mantle with one word behind it, cross-region, tier, plain.    *)
ParseUsageType(u) ==
  IF u.token = "other" THEN None
  ELSE IF u.token \in {"cache-read", "cache-write"} THEN Runtime(u)
  ELSE IF u.api = "bedrock-mantle" /\ u.suffix \in {"standard", "priority", "flex"}
  THEN Parsed(u, "", "bedrock-mantle")
  ELSE IF u.suffix \in {"cross-region-global", "priority", "flex", ""} THEN Runtime(u)
  ELSE None

-----------------------------------------------------------------------------
(* The report of a result.                                                 *)

TeamOf(l) == IF l.team = NoTeam THEN Untagged ELSE l.team

Key(l) == <<TeamOf(l), ParseUsageType(l.type)>>

Recognised(rows) == {x \in rows : ParseUsageType(x[1].type) # None}
CostOf(rows, k) ==
  SumFunctionOnSet([x \in rows |-> x[2]], {x \in Recognised(rows) : Key(x[1]) = k})

(* One row for each team, model and endpoint, with the cost of all its     *)
(* lines; lines the parser does not know are skipped.                      *)
AggregatePerTeamCost(rows) ==
  {[key |-> k, cost |-> CostOf(rows, k)] : k \in {Key(x[1]) : x \in Recognised(rows)}}

Result(p) == {<<l, bill[p][l]>> : l \in {x \in Lines : bill[p][x] > 0}}

Idle == [pc |-> "idle", day |-> 1, header |-> FALSE, left |-> {}, rows |-> {}, moved |-> FALSE]

Init ==
  /\ day = 1
  /\ bill \in InitBill
  /\ files = [d \in Days |-> [rows |-> {}, period |-> Period[d]]]
  /\ view = FALSE
  /\ run = [s \in Slots |-> Idle]
  /\ events = 0
  /\ stale = [d \in Days |-> FALSE]

TypeOK ==
  /\ day \in Days
  /\ bill \in [Periods -> [Lines -> 0..MaxCost]]
  /\ DOMAIN files = Days
  /\ \A d \in Days : /\ files[d].period \in Periods
                     /\ \A x \in files[d].rows : x.key[1] \in Teams \cup {Untagged}
  /\ view \in BOOLEAN
  /\ run \in [Slots -> [pc : {"idle", "view", "query", "fetch"}, day : Days, header : BOOLEAN,
                        left : SUBSET (Lines \X (1..MaxCost)),
                        rows : SUBSET (Lines \X (1..MaxCost)), moved : BOOLEAN]]
  /\ events \in 0..MaxEvents
  /\ stale \in [Days -> BOOLEAN]

-----------------------------------------------------------------------------
(* The bill and the clock.                                                 *)

Event == events < MaxEvents /\ events' = events + 1

(* The line of a period that has begun is billed, or billed anew.          *)
Rebill(p, l, c) ==
  /\ Event
  /\ p =< Period[day] /\ bill[p][l] # c
  /\ bill' = [bill EXCEPT ![p][l] = c]
  /\ stale' = [d \in Days |-> stale[d] \/ files[d].period = p]
  /\ run' = [s \in Slots |-> IF run[s].pc = "fetch" /\ Period[run[s].day] = p
                             THEN [run[s] EXCEPT !.moved = TRUE] ELSE run[s]]
  /\ UNCHANGED <<day, files, view>>

NextDay ==
  /\ day < MaxDay
  /\ day' = day + 1
  /\ UNCHANGED <<bill, files, view, run, events, stale>>

-----------------------------------------------------------------------------
(* A run of the handler.                                                   *)

(* The six-hourly rule, or a retry of a run that failed.                   *)
Start(s) ==
  /\ run[s].pc = "idle"
  /\ run' = [run EXCEPT ![s].pc = "view"]
  /\ UNCHANGED <<day, bill, files, view, events, stale>>

(* The view is created or replaced; now is read when that is done.         *)
EnsureView(s) ==
  /\ run[s].pc = "view"
  /\ view' = TRUE
  /\ run' = [run EXCEPT ![s].pc = "query", ![s].day = day]
  /\ UNCHANGED <<day, bill, files, events, stale>>

(* Athena answers the query for the billing period of now.                 *)
Succeed(s) ==
  /\ run[s].pc = "query"
  /\ run' = [run EXCEPT ![s].pc = "fetch", ![s].header = TRUE,
                        ![s].left = Result(Period[run[s].day])]
  /\ UNCHANGED <<day, bill, files, view, events, stale>>

(* Mutant: the first row of every page is taken for the header.            *)
DataRows_everyPage(r, page) == IF r.header THEN {page} ELSE {page \ {x} : x \in page}

(* The first row is dropped as long as no row has been kept; it is the     *)
(* header when the header has not been returned yet.                       *)
DataRows(r, page) ==
  IF r.rows # {} \/ r.header THEN {page} ELSE {page \ {x} : x \in page}

(* A page of the result: the header comes first and never alone, unless    *)
(* the result is empty.                                                    *)
FetchPage(s, page) ==
  /\ run[s].pc = "fetch"
  /\ page # {} \/ (run[s].header /\ run[s].left = {})
  /\ \E rows \in DataRows(run[s], page) :
       run' = [run EXCEPT ![s].header = FALSE, ![s].left = @ \ page, ![s].rows = @ \cup rows]
  /\ UNCHANGED <<day, bill, files, view, events, stale>>

(* There is no NextToken left.                                             *)
Fetched(s) == run[s].pc = "fetch" /\ ~run[s].header /\ run[s].left = {}

(* Mutant: the day of the object is read again when it is put.             *)
Target_now(s) == day

Target(s) == run[s].day

(* The object of the day is replaced, unless there is nothing to report.   *)
Put(s) ==
  /\ Fetched(s)
  /\ LET rows == AggregatePerTeamCost(run[s].rows)
         d == Target(s)
     IN IF rows = {} THEN UNCHANGED <<files, stale>>
        ELSE /\ files' = [files EXCEPT ![d] = [rows |-> rows, period |-> Period[run[s].day]]]
             /\ stale' = [stale EXCEPT ![d] = run[s].moved]
  /\ run' = [run EXCEPT ![s] = Idle]
  /\ UNCHANGED <<day, bill, view, events>>

(* A query fails or is not answered in time, or another call throws.       *)
Fail(s) ==
  /\ run[s].pc # "idle" /\ Event
  /\ \/ UNCHANGED view
     \/ run[s].pc = "view" /\ view' = TRUE
  /\ run' = [run EXCEPT ![s] = Idle]
  /\ UNCHANGED <<day, bill, files, stale>>

Step(s) ==
  \/ Start(s) \/ EnsureView(s) \/ Succeed(s) \/ Put(s)
  \/ \E page \in SUBSET run[s].left : FetchPage(s, page)

Next ==
  \/ \E p \in Periods, l \in Lines, c \in 1..MaxCost : Rebill(p, l, c)
  \/ NextDay
  \/ \E s \in Slots : Step(s) \/ Fail(s)

Spec == Init /\ [][Next]_vars

(* Runs start every six hours and a started run goes on, unless it fails.  *)
FairSpec == Spec /\ \A s \in Slots : WF_vars(Step(s))

-----------------------------------------------------------------------------
(* The dashboards.                                                         *)

Recent == {d \in Days : files[d].rows # {} /\ d + Window >= day}

(* Mutant: the view reads every day it looks back to.                      *)
Latest_all == Recent

(* The days the view reads: the last one with rows.                        *)
Latest == {d \in Recent : \A e \in Recent : e =< d}

Shown ==
  IF view THEN UNION {{[dt |-> d, key |-> x.key, cost |-> x.cost] : x \in files[d].rows} :
                      d \in Latest}
  ELSE {}

-----------------------------------------------------------------------------
(* Properties.                                                             *)

(* The usage types the parser documents (curUsageTypeParser.ts:5-11).      *)
Documented(u) ==
  \/ u.token \in {"input", "output"} /\ u.api = "bedrock-runtime" /\ u.suffix # "standard"
  \/ u.token \in {"input", "output"} /\ u.api = "bedrock-mantle" /\ u.suffix = "standard"
  \/ u.token \in {"cache-read", "cache-write"} /\ u.api = "bedrock-runtime" /\ u.suffix = ""

(* What a team was billed for an endpoint in a period, and what rows say.  *)
Billed(p, t, a) ==
  SumFunctionOnSet(bill[p],
    {l \in Lines : TeamOf(l) = t /\ l.type.api = a /\ Documented(l.type)})
Reported(rows, t, a) ==
  SumFunctionOnSet([x \in rows |-> x.cost],
    {x \in rows : x.key[1] = t /\ x.key[2].endpoint = a})

Agrees(rows, p) ==
  \A t \in Teams \cup {Untagged}, a \in Apis : Reported(rows, t, a) = Billed(p, t, a)

(* Every documented line of the bill is in the file of a day exactly once, *)
(* under its team, or UNTAGGED, and its endpoint, unless the bill changed  *)
(* after it was read: whatever the pages, and with lines nobody knows.     *)
CostAddsUp ==
  \A d \in Days : files[d].rows # {} /\ ~stale[d] => Agrees(files[d].rows, files[d].period)

(* The dashboard never goes back to an earlier billing period, with runs   *)
(* that were started before midnight and put after it.                     *)
PeriodForward ==
  [][\A d \in Latest, e \in Latest' : files[d].period =< files'[e].period]_vars

(* When the bill comes to rest the dashboard shows the dollars of this     *)
(* period once, and not once for each day it was reported on.              *)
DashboardCatchesUp ==
  <>[](\/ \A l \in Lines : Documented(l.type) => bill[Period[day]][l] = 0
       \/ Agrees(Shown, Period[day]))
=============================================================================
