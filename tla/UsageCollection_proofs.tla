------------------------ MODULE UsageCollection_proofs ------------------------
EXTENDS UsageCollection, RoleMapping_proofs, Integers

USE UsageCollectionAssumption

(* The variables that are not the role mapping's keep their types.         *)
CollectorTypeOK ==
  /\ usage \in [Cells -> Total]
  /\ processed \subseteq Requests
  /\ owed \in [Events -> 0 .. Attempts]
  /\ inv \in [Callers -> Invocation]

MantleTypeOK ==
  /\ day \in Days
  /\ metric \in [Projects \X MantleModels \X Days -> 0 .. MaxMetric]
  /\ projectOf \in [Projects -> Teams \cup {None}]
  /\ run \in Run
  /\ covered \in {"no", "running", "yes"}
  /\ assigned \subseteq Projects \X (Teams \cup {None})

(* A resolveTeam call in progress belongs to the line its invocation is    *)
(* at, and asks for that line's role.                                      *)
CallsOfLines ==
  \A w \in Callers :
    /\ inv[w].pc # "idle" => inv[w].event \in Events
    /\ res[w].pc # "idle" => /\ inv[w].pc = "resolve" /\ AtLine(w)
                             /\ res[w].role = RoleOf[LineAt(w).req]

(* What is charged has a deduplication record, under the row of its model  *)
(* and day.                                                                *)
AddsRecorded ==
  \A c \in Cells, q \in Requests :
    usage[c].added[q] # 0 => q \in processed /\ c[2] = SlotOf[q]

Counted ==
  /\ MappingInv
  /\ CollectorTypeOK
  /\ MantleTypeOK
  /\ left \in [Kinds -> Nat]
  /\ CallsOfLines
  /\ AddsRecorded
  /\ ChargeExplained

LEMMA InitCounted == Init => Counted
  <1> SUFFICES ASSUME Init PROVE Counted
    OBVIOUS
  <1>1. MappingInv
    BY InitMapping DEF Init
  <1>2. CollectorTypeOK
    BY DEF Init, CollectorTypeOK, Total, NoAdds, Invocation, InvIdle
  <1>3. MantleTypeOK
    <2>1. run \in Run
      BY DEF Init, RunIdle, Run, Points
    <2>2. projectOf \in [Projects -> Teams \cup {None}]
      BY DEF Init
    <2>3. assigned \subseteq Projects \X (Teams \cup {None})
      BY DEF Init
    <2>4. day \in Days /\ metric \in [Projects \X MantleModels \X Days -> 0 .. MaxMetric]
      BY DEF Init, Days
    <2> QED
      BY <2>1, <2>2, <2>3, <2>4 DEF Init, MantleTypeOK
  <1>4. left \in [Kinds -> Nat] /\ CallsOfLines /\ AddsRecorded /\ ChargeExplained
    BY DEF Init, MappingInit, CallsOfLines, AddsRecorded, ChargeExplained, NoAdds, InvIdle,
           NoCall, Slots, Days
  <1> QED
    BY <1>1, <1>2, <1>3, <1>4 DEF Counted

LEMMA SpendTyped ==
  ASSUME left \in [Kinds -> Nat], NEW k \in Kinds, Spend(k)
  PROVE  left' \in [Kinds -> Nat]
  BY DEF Spend

LEMMA LineTyped ==
  ASSUME Counted, NEW w \in Callers, AtLine(w)
  PROVE  /\ inv[w].event \in Events
         /\ LineAt(w) \in Line
         /\ LineAt(w).req \in Requests
         /\ RoleOf[LineAt(w).req] \in Roles
         /\ SlotOf[LineAt(w).req] \in Slots
  <1>1. inv[w].event \in Events
    BY DEF Counted, CallsOfLines, AtLine
  <1>2. LinesOf[inv[w].event] \in Seq(Line) /\ inv[w].at \in DOMAIN LinesOf[inv[w].event]
    BY <1>1 DEF AtLine
  <1>3. LineAt(w) \in Line
    BY <1>2 DEF LineAt
  <1> QED
    BY <1>1, <1>3 DEF Line

(* What a step leaves alone, and the properties that follow.               *)
LEMMA StillExplained ==
  ASSUME Counted, held \subseteq held', unresolved \subseteq unresolved',
         UNCHANGED <<usage, processed>>
  PROVE  AddsRecorded' /\ ChargeExplained'
  BY DEF Counted, AddsRecorded, ChargeExplained

LEMMA StillLines ==
  ASSUME Counted, UNCHANGED <<inv, res>>
  PROVE  CallsOfLines'
  BY DEF Counted, CallsOfLines, AtLine, LineAt

LEMMA StillMantle ==
  ASSUME Counted, UNCHANGED mantleVars
  PROVE  MantleTypeOK'
  BY DEF Counted, MantleTypeOK, mantleVars

LEMMA MappingChangeCounted ==
  ASSUME Counted, MappingChange
  PROVE  Counted'
  <1>1. MappingInv' /\ left' \in [Kinds -> Nat]
    <2>1. ASSUME NEW r \in Roles, NEW o \in Owners, ChangeTag(r, o), Spend("tag")
          PROVE  MappingInv' /\ left' \in [Kinds -> Nat]
      BY <2>1, ChangeTagMapping, SpendTyped DEF Counted, Kinds
    <2>2. ASSUME NEW r \in Roles, NEW t \in Teams, MapRoleToTeam(r, t), Spend("map")
          PROVE  MappingInv' /\ left' \in [Kinds -> Nat]
      BY <2>2, MapRoleToTeamMapping, SpendTyped DEF Counted, Kinds
    <2>3. ASSUME NEW r \in Roles, NEW t \in Teams, DeliverTagRole(r, t), UNCHANGED left
          PROVE  MappingInv' /\ left' \in [Kinds -> Nat]
      BY <2>3, DeliverTagRoleMapping DEF Counted
    <2>4. ASSUME NEW r \in Roles, PassTtl(r) \/ DeleteExpired(r), UNCHANGED left
          PROVE  MappingInv' /\ left' \in [Kinds -> Nat]
      BY <2>4, ExpiryMapping DEF Counted
    <2> QED
      BY <2>1, <2>2, <2>3, <2>4 DEF MappingChange
  <1>2. /\ held \subseteq held' /\ unresolved \subseteq unresolved'
        /\ UNCHANGED <<res, collectorVars, mantleVars>>
    BY DEF MappingChange, ChangeTag, MapRoleToTeam, DeliverTagRole, PassTtl, DeleteExpired
  <1>3. CollectorTypeOK'
    BY <1>2 DEF Counted, CollectorTypeOK, collectorVars
  <1>4. MantleTypeOK' /\ CallsOfLines' /\ AddsRecorded' /\ ChargeExplained'
    BY <1>2, StillMantle, StillLines, StillExplained DEF collectorVars
  <1> QED
    BY <1>1, <1>3, <1>4 DEF Counted

(* The steps of resolveTeam: the call stays with its line.                 *)
LEMMA ResolveCounted ==
  ASSUME Counted, NEW w \in Callers, Resolve(w)
  PROVE  Counted'
  <1>1. MappingInv' /\ left' \in [Kinds -> Nat]
    <2>1. CASE ReadTags(w) /\ UNCHANGED left
      BY <2>1, ReadTagsMapping DEF Counted
    <2>2. CASE TagsUnreadable(w) /\ Spend("fault")
      BY <2>2, TagsUnreadableMapping, SpendTyped DEF Counted, Kinds
    <2>3. CASE PutRow(w) /\ UNCHANGED left
      BY <2>3, PutRowMapping DEF Counted
    <2> QED
      BY <2>1, <2>2, <2>3 DEF Resolve
  <1>2. /\ held \subseteq held' /\ unresolved \subseteq unresolved'
        /\ UNCHANGED <<collectorVars, mantleVars>>
    BY DEF Resolve, ReadTags, TagsUnreadable, PutRow
  <1>3. CollectorTypeOK'
    BY <1>2 DEF Counted, CollectorTypeOK, collectorVars
  <1>4. MantleTypeOK' /\ AddsRecorded' /\ ChargeExplained'
    BY <1>2, StillMantle, StillExplained DEF collectorVars
  <1>5. /\ res[w].pc # "idle"
        /\ \A v \in Callers : res'[v].role = res[v].role
        /\ \A v \in Callers \ {w} : res'[v] = res[v]
    <2>1. res \in [Callers -> Resolution]
      BY DEF Counted, MappingInv, MappingTypeOK
    <2>2. PICK p, o : res' = [res EXCEPT ![w] = [res[w] EXCEPT !.pc = p, !.team = o]]
      BY DEF Resolve, ReadTags, TagsUnreadable, PutRow, Answer
    <2>3. res[w].pc # "idle"
      BY DEF Resolve, ReadTags, TagsUnreadable, PutRow
    <2>4. res'[w].role = res[w].role
      BY <2>1, <2>2 DEF Resolution
    <2>5. \A v \in Callers \ {w} : res'[v] = res[v]
      BY <2>1, <2>2
    <2> QED
      BY <2>3, <2>4, <2>5
  <1>6. CallsOfLines'
    BY <1>2, <1>5 DEF Counted, CallsOfLines, AtLine, LineAt, collectorVars
  <1> QED
    BY <1>1, <1>3, <1>4, <1>6 DEF Counted

LEMMA BeginEntryCounted ==
  ASSUME Counted, NEW w \in Callers, BeginEntry(w)
  PROVE  Counted'
  <1>1. AtLine(w) /\ RoleOf[LineAt(w).req] \in Roles
    BY LineTyped DEF BeginEntry
  <1>2. MappingInv'
    BY <1>1, LookUpMapping DEF BeginEntry, Counted
  <1>3. CollectorTypeOK'
    <2>1. [inv[w] EXCEPT !.pc = "resolve"] \in Invocation
      <3>1. inv[w] \in Invocation
        BY DEF Counted, CollectorTypeOK
      <3> QED
        BY <3>1 DEF Invocation
    <2>2. inv' \in [Callers -> Invocation]
      BY <2>1 DEF BeginEntry, Counted, CollectorTypeOK
    <2> QED
      BY <2>2 DEF BeginEntry, Counted, CollectorTypeOK
  <1>4. MantleTypeOK' /\ AddsRecorded' /\ ChargeExplained' /\ left' \in [Kinds -> Nat]
    BY StillMantle, StillExplained DEF BeginEntry, LookUp, Counted
  <1>5. /\ \A v \in Callers \ {w} : res'[v] = res[v] /\ inv'[v] = inv[v]
        /\ res'[w].role = RoleOf[LineAt(w).req]
        /\ inv'[w].event = inv[w].event /\ inv'[w].at = inv[w].at /\ inv'[w].pc = "resolve"
    <2>1. inv[w] \in Invocation /\ inv \in [Callers -> Invocation]
      BY DEF Counted, CollectorTypeOK
    <2>2. inv' = [inv EXCEPT ![w] = [inv[w] EXCEPT !.pc = "resolve"]]
      BY DEF BeginEntry
    <2>3. /\ \A v \in Callers \ {w} : inv'[v] = inv[v]
          /\ inv'[w].event = inv[w].event /\ inv'[w].at = inv[w].at /\ inv'[w].pc = "resolve"
      BY <2>1, <2>2 DEF Invocation
    <2>4. LookUp(w, RoleOf[LineAt(w).req]) /\ res \in [Callers -> Resolution]
      BY DEF BeginEntry, Counted, MappingInv, MappingTypeOK
    <2>5. \A v \in Callers \ {w} : res'[v] = res[v]
      BY <2>4 DEF LookUp
    <2>6. res'[w].role = RoleOf[LineAt(w).req]
      BY <2>4 DEF LookUp, NoCall
    <2> QED
      BY <2>3, <2>5, <2>6
  <1>6. CallsOfLines'
    <2> SUFFICES ASSUME NEW v \in Callers
                 PROVE  /\ inv'[v].pc # "idle" => inv'[v].event \in Events
                        /\ res'[v].pc # "idle" => /\ inv'[v].pc = "resolve" /\ AtLine(v)'
                                                  /\ res'[v].role = RoleOf[LineAt(v)'.req]
      BY DEF CallsOfLines
    <2>1. CASE v = w
      <3>1. inv'[v].event \in Events /\ inv'[v].pc = "resolve"
        BY <1>1, <1>5, <2>1, LineTyped
      <3>2. AtLine(v)' /\ LineAt(v)' = LineAt(w)
        BY <1>1, <1>5, <2>1 DEF AtLine, LineAt
      <3> QED
        BY <1>5, <2>1, <3>1, <3>2
    <2>2. CASE v # w
      BY <1>5, <2>2 DEF Counted, CallsOfLines, AtLine, LineAt
    <2> QED
      BY <2>1, <2>2
  <1> QED
    BY <1>2, <1>3, <1>4, <1>6 DEF Counted

(* The invocation drops its call and goes to another line or to rest.      *)
LEMMA DropLines ==
  ASSUME Counted, NEW w \in Callers, NEW i \in Invocation,
         i.pc # "idle" => i.event \in Events,
         DropCall(w) \/ (UNCHANGED res /\ res[w].pc = "idle"),
         inv' = [inv EXCEPT ![w] = i]
  PROVE  CallsOfLines'
  <1>1. /\ res'[w].pc = "idle" /\ inv'[w] = i
        /\ \A v \in Callers \ {w} : res'[v] = res[v] /\ inv'[v] = inv[v]
    BY DEF DropCall, NoCall, Counted, MappingInv, MappingTypeOK, CollectorTypeOK
  <1> QED
    BY <1>1 DEF Counted, CallsOfLines, AtLine, LineAt

(* DropLines applied to the steps that end an entry or an invocation.      *)
LEMMA IdleInvocation == InvIdle \in Invocation /\ InvIdle.pc = "idle"
  BY DEF InvIdle, Invocation

LEMMA NextLineInvocation ==
  ASSUME Counted, NEW w \in Callers, inv[w].pc # "idle"
  PROVE  /\ [inv[w] EXCEPT !.pc = "line", !.at = inv[w].at + 1] \in Invocation
         /\ [inv[w] EXCEPT !.pc = "line", !.at = inv[w].at + 1].event \in Events
  <1>1. inv[w] \in Invocation /\ inv[w].event \in Events
    BY DEF Counted, CollectorTypeOK, CallsOfLines
  <1>2. inv[w].at + 1 \in Nat
    BY <1>1 DEF Invocation
  <1> QED
    BY <1>1, <1>2 DEF Invocation

LEMMA DeliverCounted ==
  ASSUME Counted, NEW w \in Callers, NEW e \in Events, Deliver(w, e)
  PROVE  Counted'
  <1> PICK i : i = [pc |-> "line", event |-> e, at |-> 1]
    OBVIOUS
  <1>1. i \in Invocation /\ i.event \in Events /\ inv' = [inv EXCEPT ![w] = i]
    BY DEF Deliver, Invocation
  <1>2. MappingInv' /\ MantleTypeOK' /\ AddsRecorded' /\ ChargeExplained' /\ left' \in [Kinds -> Nat]
    BY StillMapping, StillMantle, StillExplained DEF Deliver, Counted, mappingVars
  <1>3. CollectorTypeOK'
    BY <1>1 DEF Deliver, Counted, CollectorTypeOK
  <1>4. res[w].pc = "idle" /\ UNCHANGED res
    BY DEF Deliver, Counted, CallsOfLines, AtLine, mappingVars
  <1>5. CallsOfLines'
    BY <1>1, <1>4, DropLines
  <1> QED
    BY <1>2, <1>3, <1>5 DEF Counted

LEMMA SkipLineCounted ==
  ASSUME Counted, NEW w \in Callers, SkipLine(w)
  PROVE  Counted'
  <1> PICK i : i = [inv[w] EXCEPT !.pc = "line", !.at = inv[w].at + 1]
    OBVIOUS
  <1>1. i \in Invocation /\ i.event \in Events /\ inv' = [inv EXCEPT ![w] = i]
    BY NextLineInvocation DEF SkipLine, NextLine
  <1>2. MappingInv' /\ MantleTypeOK' /\ AddsRecorded' /\ ChargeExplained' /\ left' \in [Kinds -> Nat]
    BY StillMapping, StillMantle, StillExplained DEF SkipLine, Counted, mappingVars
  <1>3. CollectorTypeOK'
    BY <1>1 DEF SkipLine, Counted, CollectorTypeOK
  <1>4. res[w].pc = "idle" /\ UNCHANGED res
    BY DEF SkipLine, Counted, CallsOfLines, mappingVars
  <1>5. CallsOfLines'
    BY <1>1, <1>4, DropLines
  <1> QED
    BY <1>2, <1>3, <1>5 DEF Counted

LEMMA RejectEntryCounted ==
  ASSUME Counted, NEW w \in Callers, RejectEntry(w)
  PROVE  Counted'
  <1>1. MappingInv'
    BY DropCallMapping DEF RejectEntry, Counted
  <1>2. MantleTypeOK' /\ AddsRecorded' /\ ChargeExplained' /\ left' \in [Kinds -> Nat]
    BY StillMantle, StillExplained DEF RejectEntry, Counted
  <1>3. CollectorTypeOK'
    BY IdleInvocation DEF RejectEntry, Counted, CollectorTypeOK
  <1>4. CallsOfLines'
    BY IdleInvocation, DropLines DEF RejectEntry
  <1> QED
    BY <1>1, <1>2, <1>3, <1>4 DEF Counted

LEMMA CrashCollectorCounted ==
  ASSUME Counted, NEW w \in Callers, CrashCollector(w)
  PROVE  Counted'
  <1>1. MappingInv'
    BY DropCallMapping DEF CrashCollector, Counted
  <1>2. MantleTypeOK' /\ AddsRecorded' /\ ChargeExplained' /\ left' \in [Kinds -> Nat]
    BY StillMantle, StillExplained, SpendTyped DEF CrashCollector, Counted, Kinds
  <1>3. CollectorTypeOK'
    BY IdleInvocation DEF CrashCollector, Counted, CollectorTypeOK
  <1>4. CallsOfLines'
    BY IdleInvocation, DropLines DEF CrashCollector
  <1> QED
    BY <1>1, <1>2, <1>3, <1>4 DEF Counted

LEMMA FinishEventCounted ==
  ASSUME Counted, NEW w \in Callers, FinishEvent(w)
  PROVE  Counted'
  <1>1. inv[w].event \in Events
    BY DEF FinishEvent, Counted, CallsOfLines
  <1>2. MappingInv' /\ MantleTypeOK' /\ AddsRecorded' /\ ChargeExplained' /\ left' \in [Kinds -> Nat]
    BY StillMapping, StillMantle, StillExplained DEF FinishEvent, Counted, mappingVars
  <1>3. CollectorTypeOK'
    BY <1>1, IdleInvocation DEF FinishEvent, Counted, CollectorTypeOK
  <1>4. res[w].pc = "idle" /\ UNCHANGED res
    BY DEF FinishEvent, Counted, CallsOfLines, mappingVars
  <1>5. CallsOfLines'
    BY <1>4, IdleInvocation, DropLines DEF FinishEvent
  <1> QED
    BY <1>2, <1>3, <1>5 DEF Counted

LEMMA AddOne ==
  ASSUME NEW f \in [Requests -> Nat], NEW q \in Requests
  PROVE  /\ [f EXCEPT ![q] = f[q] + 1] \in [Requests -> Nat]
         /\ \A o \in Requests \ {q} : [f EXCEPT ![q] = f[q] + 1][o] = f[o]
  OBVIOUS

(* The transaction: the first record of a request charges the team that    *)
(* resolveTeam answered.                                                   *)
LEMMA RecordEntryCounted ==
  ASSUME Counted, NEW w \in Callers, RecordEntry(w)
  PROVE  Counted'
  <1> PICK i : i = [inv[w] EXCEPT !.pc = "line", !.at = inv[w].at + 1]
    OBVIOUS
  <1> PICK q : q = LineAt(w).req
    OBVIOUS
  <1> PICK c : c = <<res[w].team, SlotOf[q]>>
    OBVIOUS
  <1>1. i \in Invocation /\ i.event \in Events /\ inv' = [inv EXCEPT ![w] = i]
    BY NextLineInvocation DEF RecordEntry, NextLine, AtLine
  <1>2. q \in Requests /\ SlotOf[q] \in Slots /\ res[w].role = RoleOf[q]
    BY LineTyped DEF RecordEntry, Counted, CallsOfLines
  <1>3. res[w].team \in Owners /\ c \in Cells /\ Answered(res[w])
    BY <1>2, AnsweredOwner DEF RecordEntry, Counted, Cells, MappingInv, CallHeld
  <1>4. MappingInv' /\ MantleTypeOK' /\ CallsOfLines' /\ left' \in [Kinds -> Nat]
    BY <1>1, DropCallMapping, StillMantle, DropLines DEF RecordEntry, Counted
  <1>5. CASE q \in processed
    <2>1. UNCHANGED <<usage, processed, held, unresolved, owed>>
      BY <1>5 DEF RecordEntry
    <2>2. CollectorTypeOK' /\ AddsRecorded' /\ ChargeExplained'
      BY <1>1, <2>1, StillExplained DEF Counted, CollectorTypeOK
    <2> QED
      BY <1>4, <2>2 DEF Counted
  <1>6. CASE q \notin processed
    <2> PICK total : total = [usage[c] EXCEPT
                       !.added = [usage[c].added EXCEPT ![q] = usage[c].added[q] + 1]]
      OBVIOUS
    <2>1. /\ processed' = processed \cup {q} /\ usage' = [usage EXCEPT ![c] = total]
          /\ UNCHANGED <<held, unresolved, owed>>
      BY <1>6 DEF RecordEntry
    <2>2. usage[c] \in Total
      BY <1>3 DEF Counted, CollectorTypeOK
    <2>3. total \in Total /\ \A o \in Requests \ {q} : total.added[o] = usage[c].added[o]
      <3>1. usage[c].added \in [Requests -> Nat] /\ usage[c].base \in 0 .. MaxMetric
        BY <2>2 DEF Total
      <3> PICK added : added = [usage[c].added EXCEPT ![q] = usage[c].added[q] + 1]
        OBVIOUS
      <3>2. added \in [Requests -> Nat] /\ \A o \in Requests \ {q} : added[o] = usage[c].added[o]
        <4>1. PICK f \in [Requests -> Nat] : f = usage[c].added
          BY <3>1
        <4>2. [f EXCEPT ![q] = f[q] + 1] \in [Requests -> Nat]
          BY <1>2, AddOne
        <4>3. \A o \in Requests \ {q} : [f EXCEPT ![q] = f[q] + 1][o] = f[o]
          BY <1>2, AddOne
        <4>4. added = [f EXCEPT ![q] = f[q] + 1]
          BY <4>1
        <4> QED
          BY <4>1, <4>2, <4>3, <4>4
      <3>3. total = [added |-> added, base |-> usage[c].base]
        BY <2>2 DEF Total
      <3> QED
        BY <3>1, <3>2, <3>3 DEF Total
    <2>4. \A d \in Cells : usage'[d] = IF d = c THEN total ELSE usage[d]
      BY <2>1 DEF Counted, CollectorTypeOK
    <2>5. CollectorTypeOK'
      BY <1>1, <1>2, <2>1, <2>3 DEF Counted, CollectorTypeOK
    <2>6. AddsRecorded'
      <3> SUFFICES ASSUME NEW d \in Cells, NEW o \in Requests, usage'[d].added[o] # 0
                   PROVE  o \in processed' /\ d[2] = SlotOf[o]
        BY DEF AddsRecorded
      <3>1. CASE d = c /\ o = q
        BY <3>1, <2>1
      <3>2. CASE ~ (d = c /\ o = q)
        <4>1. usage'[d].added[o] = usage[d].added[o]
          BY <3>2, <2>3, <2>4
        <4> QED
          BY <4>1, <2>1 DEF Counted, AddsRecorded
      <3> QED
        BY <3>1, <3>2
    <2>7. ChargeExplained'
      <3> SUFFICES ASSUME NEW d \in Cells, NEW o \in Requests, usage'[d].added[o] > 0
                   PROVE  \/ <<RoleOf[o], d[1]>> \in held
                          \/ d[1] = Unmapped /\ RoleOf[o] \in unresolved
        BY <2>1 DEF ChargeExplained
      <3>1. CASE d = c /\ o = q
        BY <3>1, <1>2, <1>3 DEF Answered
      <3>2. CASE ~ (d = c /\ o = q)
        BY <3>2, <2>3, <2>4 DEF Counted, ChargeExplained
      <3> QED
        BY <3>1, <3>2
    <2> QED
      BY <1>4, <2>5, <2>6, <2>7 DEF Counted
  <1> QED
    BY <1>5, <1>6

(* What a step of the Mantle collector, or around it, leaves alone.        *)
MantleFrame == UNCHANGED <<mappingVars, processed, owed, inv>>

(* Such a step that leaves the totals alone as well.                       *)
LEMMA MantleFrameCounted ==
  ASSUME Counted, MantleFrame, UNCHANGED usage, MantleTypeOK', left' \in [Kinds -> Nat]
  PROVE  Counted'
  <1>1. MappingInv' /\ AddsRecorded' /\ ChargeExplained' /\ CallsOfLines'
    BY StillMapping, StillExplained, StillLines DEF MantleFrame, Counted, mappingVars
  <1>2. CollectorTypeOK'
    BY DEF MantleFrame, Counted, CollectorTypeOK
  <1> QED
    BY <1>1, <1>2 DEF Counted

LEMMA EmitTyped ==
  ASSUME MantleTypeOK, NEW p \in Projects, NEW m \in MantleModels, NEW d \in Days,
         Emit(p, m, d)
  PROVE  MantleTypeOK'
  <1> PICK k : k = <<p, m, d>>
    OBVIOUS
  <1>1. k \in Projects \X MantleModels \X Days
    OBVIOUS
  <1>2. metric[k] + 1 \in 0 .. MaxMetric
    BY <1>1 DEF Emit, MantleTypeOK
  <1>3. metric' = [metric EXCEPT ![k] = metric[k] + 1]
    BY DEF Emit
  <1>4. metric' \in [Projects \X MantleModels \X Days -> 0 .. MaxMetric]
    BY <1>2, <1>3 DEF MantleTypeOK
  <1> QED
    BY <1>4 DEF Emit, MantleTypeOK

LEMMA MantleWorldTyped ==
  ASSUME MantleTypeOK, left \in [Kinds -> Nat], MantleWorld
  PROVE  MantleTypeOK' /\ left' \in [Kinds -> Nat] /\ MantleFrame /\ UNCHANGED usage
  <1>1. ASSUME NEW p \in Projects, NEW m \in MantleModels, NEW d \in Days, Emit(p, m, d)
        PROVE  MantleTypeOK' /\ left' \in [Kinds -> Nat] /\ MantleFrame /\ UNCHANGED usage
    BY <1>1, EmitTyped DEF Emit, MantleFrame, mantleUnchanged
  <1>2. ASSUME NEW p \in Projects, NEW t \in Teams, MapProject(p, t)
        PROVE  MantleTypeOK' /\ left' \in [Kinds -> Nat] /\ MantleFrame /\ UNCHANGED usage
    <2>1. left' \in [Kinds -> Nat]
      BY <1>2, SpendTyped DEF MapProject, Kinds
    <2>2. /\ projectOf' \in [Projects -> Teams \cup {None}]
          /\ assigned' \subseteq Projects \X (Teams \cup {None})
      BY <1>2 DEF MapProject, MantleTypeOK
    <2> QED
      BY <1>2, <2>1, <2>2 DEF MapProject, MantleFrame, mantleUnchanged, MantleTypeOK
  <1>3. CASE NextDay
    <2>1. day' \in Days
      BY <1>3 DEF NextDay, MantleTypeOK, Days
    <2> QED
      BY <1>3, <2>1 DEF NextDay, MantleFrame, mantleUnchanged, MantleTypeOK
  <1> QED
    BY <1>1, <1>2, <1>3 DEF MantleWorld

(* A run of the Mantle collector that writes nothing.                      *)
MantleReading ==
  \/ StartRun
  \/ TargetDays
  \/ \E d \in Days : PullDay(d)
  \/ FinishRun
  \/ CrashRun

LEMMA IdleRun == RunIdle \in Run
  BY DEF RunIdle, Run

LEMMA MantleReadingTyped ==
  ASSUME MantleTypeOK, left \in [Kinds -> Nat], MantleReading
  PROVE  MantleTypeOK' /\ left' \in [Kinds -> Nat] /\ MantleFrame /\ UNCHANGED usage
  <1>1. CASE StartRun
    <2>1. run' \in Run
      <3>1. run' = [RunIdle EXCEPT !.pc = "target", !.lookup = projectOf]
        BY <1>1 DEF StartRun
      <3>2. projectOf \in [Projects -> Teams \cup {None}]
        BY DEF MantleTypeOK
      <3> HIDE DEF RunIdle
      <3> QED
        BY <3>1, <3>2, IdleRun DEF Run
    <2> QED
      BY <1>1, <2>1 DEF StartRun, MantleFrame, mantleUnchanged, MantleTypeOK
  <1>2. CASE TargetDays
    <2>1. run' \in Run
      BY <1>2 DEF TargetDays, Run, MantleTypeOK
    <2> QED
      BY <1>2, <2>1 DEF TargetDays, Cover, MantleFrame, mantleUnchanged, MantleTypeOK
  <1>3. ASSUME NEW d \in Days, PullDay(d)
        PROVE  MantleTypeOK' /\ left' \in [Kinds -> Nat] /\ MantleFrame /\ UNCHANGED usage
    <2>1. d \in 0 .. MaxDay
      BY DEF Days
    <2>2. PICK pc \in {"pull", "write"}, found \in SUBSET Points :
            run' = [run EXCEPT !.pc = pc, !.days = @ \ {d}, !.now = d, !.points = found]
      BY <1>3 DEF PullDay
    <2>3. run' \in Run
      BY <2>1, <2>2 DEF Run, MantleTypeOK
    <2> QED
      BY <1>3, <2>3 DEF PullDay, MantleFrame, mantleUnchanged, MantleTypeOK
  <1>4. CASE FinishRun
    BY <1>4, IdleRun DEF FinishRun, MantleFrame, mantleUnchanged, MantleTypeOK
  <1>5. CASE CrashRun
    BY <1>5, IdleRun, SpendTyped DEF CrashRun, MantleFrame, mantleUnchanged, MantleTypeOK, Kinds
  <1> QED
    BY <1>1, <1>2, <1>3, <1>4, <1>5 DEF MantleReading

LEMMA WritePointCounted ==
  ASSUME Counted, NEW pmv \in Points, WritePoint(pmv)
  PROVE  Counted'
  <1> PICK c : c = <<run.lookup[pmv[1]], <<pmv[2], run.now>>>>
    OBVIOUS
  <1> PICK total : total = [added |-> NoAdds, base |-> pmv[3]]
    OBVIOUS
  <1>1. usage' = [usage EXCEPT ![c] = total] /\ UNCHANGED <<mappingVars, processed, owed, inv, left>>
    BY DEF WritePoint, mantleUnchanged
  <1>2. total \in Total /\ \A q \in Requests : total.added[q] = 0
    BY DEF Points, Total, NoAdds
  <1>3. \A d \in Cells : usage'[d] = IF d = c THEN total ELSE usage[d]
    BY <1>1 DEF Counted, CollectorTypeOK
  <1>4. MappingInv' /\ CallsOfLines'
    BY <1>1, StillMapping, StillLines DEF Counted, mappingVars
  <1>5. CollectorTypeOK'
    BY <1>1, <1>2 DEF Counted, CollectorTypeOK
  <1>6. MantleTypeOK'
    <2>1. PICK pc \in {"pull", "write"} :
            run' = [run EXCEPT !.pc = pc, !.points = @ \ {pmv}]
      BY DEF WritePoint
    <2>2. run' \in Run
      BY <2>1 DEF Run, Counted, MantleTypeOK
    <2> QED
      BY <2>2 DEF WritePoint, Counted, MantleTypeOK
  <1>7. AddsRecorded'
    BY <1>1, <1>2, <1>3 DEF Counted, AddsRecorded
  <1>8. ChargeExplained'
    <2>1. UNCHANGED <<held, unresolved>>
      BY <1>1 DEF mappingVars
    <2>2. \A d \in Cells, q \in Requests :
            usage'[d].added[q] > 0 => usage'[d].added[q] = usage[d].added[q]
      BY <1>2, <1>3
    <2> QED
      BY <2>1, <2>2 DEF Counted, ChargeExplained
  <1> QED
    BY <1>1, <1>4, <1>5, <1>6, <1>7, <1>8 DEF Counted

LEMMA NextCounted ==
  ASSUME Counted, [Next]_vars
  PROVE  Counted'
  <1>1. CASE MappingChange
    BY <1>1, MappingChangeCounted
  <1>2. ASSUME NEW w \in Callers, CollectorStep(w) \/ CrashCollector(w)
        PROVE  Counted'
    BY <1>2, DeliverCounted, SkipLineCounted, BeginEntryCounted, ResolveCounted,
       RejectEntryCounted, RecordEntryCounted, FinishEventCounted, CrashCollectorCounted
       DEF CollectorStep
  <1>3. CASE MantleStep
    <2>1. ASSUME NEW pmv \in Points, WritePoint(pmv)
          PROVE  Counted'
      BY <2>1, WritePointCounted
    <2>2. CASE MantleReading
      BY <2>2, MantleReadingTyped, MantleFrameCounted DEF Counted
    <2> QED
      BY <1>3, <2>1, <2>2 DEF MantleStep, MantleReading
  <1>4. CASE MantleWorld
    BY <1>4, MantleWorldTyped, MantleFrameCounted DEF Counted
  <1>5. CASE UNCHANGED vars
    <2>1. MappingInv' /\ CallsOfLines' /\ AddsRecorded' /\ ChargeExplained'
      BY <1>5, StillMapping, StillLines, StillExplained DEF vars, Counted, mappingVars, collectorVars
    <2> QED
      BY <1>5, <2>1 DEF vars, Counted, CollectorTypeOK, MantleTypeOK, collectorVars, mantleVars
  <1> QED
    BY <1>1, <1>2, <1>3, <1>4, <1>5 DEF Next

LEMMA CountedAlways == Spec => []Counted
  BY InitCounted, NextCounted, PTL DEF Spec

(* The type of every table and of every invocation, of both collectors and *)
(* of the role mapping.                                                    *)
THEOREM TypeCorrect == Spec => []TypeOK
  <1>1. Counted => TypeOK
    BY DEF Counted, MappingInv, CollectorTypeOK, MantleTypeOK, TypeOK
  <1> QED
    BY <1>1, CountedAlways, PTL

(* No interleaving of events, administrators, expiry and resolveTeam calls *)
(* caches a team that the role was never tagged or mapped into             *)
(* (teamRoleCache.ts).                                                     *)
THEOREM RowsAreHeld == Spec => []RowsWereHeld
  <1>1. Counted => RowsWereHeld
    BY DEF Counted, MappingInv
  <1> QED
    BY <1>1, CountedAlways, PTL

(* Every charge can be explained by what was once true of the role         *)
(* (processInvocationLogEntry after resolveTeam).                          *)
THEOREM ChargesAreExplained == Spec => []ChargeExplained
  <1>1. Counted => ChargeExplained
    BY DEF Counted
  <1> QED
    BY <1>1, CountedAlways, PTL

-----------------------------------------------------------------------------
(* The refinement.                                                         *)

charges == [c \in Cells |-> usage[c].added]

(* The invocation q is added once to the row c, of the team that            *)
(* resolveTeam answered to w.                                              *)
AddsTo(w, q, c) ==
  /\ q = LineAt(w).req /\ c = <<res[w].team, SlotOf[q]>>
  /\ res[w].team \in Owners /\ SlotOf[q] \in Slots
  /\ usage[c].added \in [Requests -> Nat]
  /\ \A d \in Cells : usage[d].added[q] = 0
  /\ \A d \in Cells : usage'[d].added =
       IF d = c THEN [usage[c].added EXCEPT ![q] = 1] ELSE usage[d].added

LEMMA AddedOnce ==
  ASSUME Counted, NEW w \in Callers, RecordEntry(w), LineAt(w).req \notin processed
  PROVE  \E q \in Requests, c \in Cells : AddsTo(w, q, c)
  <1> PICK q : q = LineAt(w).req
    OBVIOUS
  <1> PICK c : c = <<res[w].team, SlotOf[q]>>
    OBVIOUS
  <1>1. q \in Requests /\ SlotOf[q] \in Slots
    BY LineTyped DEF RecordEntry
  <1>2. res[w].team \in Owners /\ c \in Cells
    BY <1>1, AnsweredOwner DEF RecordEntry, Counted, Cells
  <1>3. usage[c] \in Total
    BY <1>2 DEF Counted, CollectorTypeOK
  <1>4. usage[c].added \in [Requests -> Nat]
    BY <1>3 DEF Total
  <1>5. \A d \in Cells : usage[d].added[q] = 0
    BY <1>1 DEF Counted, AddsRecorded
  <1>6. usage' = [usage EXCEPT ![c] = [usage[c] EXCEPT
                    !.added = [usage[c].added EXCEPT ![q] = usage[c].added[q] + 1]]]
    BY DEF RecordEntry
  <1>7. usage[c].added[q] + 1 = 1
    <2>1. usage[c].added[q] = 0
      BY <1>2, <1>5
    <2> QED
      BY <2>1
  <1>8. \A d \in Cells : usage'[d].added =
          IF d = c THEN [usage[c].added EXCEPT ![q] = 1] ELSE usage[d].added
    <2> PICK g : g = [usage[c].added EXCEPT ![q] = usage[c].added[q] + 1]
      OBVIOUS
    <2>1. g = [usage[c].added EXCEPT ![q] = 1]
      BY <1>7
    <2>2. usage' = [usage EXCEPT ![c] = [usage[c] EXCEPT !.added = g]]
      BY <1>6
    <2>3. [usage[c] EXCEPT !.added = g].added = g
      BY <1>3 DEF Total
    <2>4. \A d \in Cells : usage'[d] = IF d = c THEN [usage[c] EXCEPT !.added = g] ELSE usage[d]
      BY <1>2, <2>2 DEF Counted, CollectorTypeOK
    <2> QED
      BY <2>1, <2>3, <2>4
  <1>9. AddsTo(w, q, c)
    BY <1>1, <1>2, <1>4, <1>5, <1>8, Zenon DEF AddsTo
  <1> QED
    BY <1>1, <1>2, <1>9

LEMMA RecordEntryCharges ==
  ASSUME Counted, NEW w \in Callers, RecordEntry(w)
  PROVE  Ledger!Next \/ UNCHANGED charges
  <1>1. CASE LineAt(w).req \in processed
    BY <1>1 DEF RecordEntry, charges
  <1>2. CASE LineAt(w).req \notin processed
    <2>1. PICK q \in Requests, c \in Cells : AddsTo(w, q, c)
      BY <1>2, AddedOnce
    <2>2. charges' = [charges EXCEPT ![c] = [charges[c] EXCEPT ![q] = 1]]
      BY <2>1 DEF charges, AddsTo
    <2>3. Ledger!Uncharged(q)
      BY <2>1 DEF Ledger!Uncharged, Cells, AddsTo
    <2> PICK o \in Owners : o = res[w].team /\ c = <<o, SlotOf[q]>>
      BY <2>1 DEF AddsTo
    <2>4. Ledger!Charge(q, o)
      BY <2>2, <2>3 DEF Ledger!Charge, charges, Cells
    <2> QED
      BY <2>4 DEF Ledger!Next, Ledger!Charge
  <1> QED
    BY <1>1, <1>2

(* Every other step leaves the charges alone; WritePoint finds none in the *)
(* rows it stores.                                                         *)
LEMMA OtherCharges ==
  ASSUME SeparateModels, Counted, [Next]_vars, \A w \in Callers : ~ RecordEntry(w)
  PROVE  UNCHANGED charges
  <1>1. CASE UNCHANGED usage
    BY <1>1 DEF charges
  <1>2. ASSUME NEW pmv \in Points, WritePoint(pmv)
        PROVE  UNCHANGED charges
    <2> PICK c : c = <<run.lookup[pmv[1]], <<pmv[2], run.now>>>>
      OBVIOUS
    <2>1. usage' = [usage EXCEPT ![c] = [added |-> NoAdds, base |-> pmv[3]]]
      BY <1>2 DEF WritePoint
    <2>2. ASSUME c \in Cells
          PROVE  usage[c].added = NoAdds
      <3>1. \A q \in Requests : usage[c].added[q] = 0
        <4>1. c[2][1] \in MantleModels
          BY DEF Points
        <4> QED
          BY <2>2, <4>1 DEF Counted, AddsRecorded, SeparateModels
      <3>2. usage[c].added \in [Requests -> Nat]
        BY <2>2 DEF Counted, CollectorTypeOK, Total
      <3> QED
        BY <3>1, <3>2 DEF NoAdds
    <2>3. \A d \in Cells : usage'[d].added = usage[d].added
      BY <2>1, <2>2 DEF Counted, CollectorTypeOK
    <2> QED
      BY <2>3 DEF charges
  <1>3. UNCHANGED usage \/ \E pmv \in Points : WritePoint(pmv)
    <2>1. CASE MappingChange
      BY <2>1 DEF MappingChange, collectorVars
    <2>2. ASSUME NEW w \in Callers, CollectorStep(w) \/ CrashCollector(w)
          PROVE  UNCHANGED usage
      BY <2>2 DEF CollectorStep, CrashCollector, Deliver, SkipLine, BeginEntry, Resolve,
                  RejectEntry, FinishEvent, collectorVars
    <2>3. CASE MantleStep
      BY <2>3 DEF MantleStep, StartRun, TargetDays, PullDay, FinishRun, CrashRun
    <2>4. CASE MantleWorld
      BY <2>4 DEF MantleWorld, Emit, MapProject, NextDay
    <2>5. CASE UNCHANGED vars
      BY <2>5 DEF vars, collectorVars
    <2> QED
      BY <2>1, <2>2, <2>3, <2>4, <2>5 DEF Next
  <1> QED
    BY <1>1, <1>2, <1>3

(* The Usage_Collector implements UsageLedger: at-least-once delivery,     *)
(* concurrent duplicates, crashes and changing role mappings never charge  *)
(* an invocation twice, to two teams, or back out of a total.              *)
THEOREM ChargesOnce == ASSUME SeparateModels PROVE Spec => ChargedOnce
  <1>1. Init => Ledger!Init
    BY DEF Init, Ledger!Init, Cells, NoAdds
  <1>2. Counted /\ [Next]_vars => [Ledger!Next]_charges
    BY RecordEntryCharges, OtherCharges
  <1>3. UNCHANGED charges <=> UNCHANGED [c \in Cells |-> usage[c].added]
    BY DEF charges
  <1> QED
    BY <1>1, <1>2, <1>3, CountedAlways, PTL DEF Spec, ChargedOnce, Ledger!Spec, charges

-----------------------------------------------------------------------------
(* What an invocation has passed is counted.                               *)

Charged(q) == \E c \in Cells : usage[c].added[q] > 0

Passed(i) ==
  i.pc # "idle" =>
    /\ i.at \in Nat \ {0}
    /\ \A k \in DOMAIN LinesOf[i.event] :
         k < i.at /\ LinesOf[i.event][k].kind = "entry"
           => LinesOf[i.event][k].req \in processed

(* A deduplication record stands for a charge, and an invocation leaves an *)
(* entry behind only with its deduplication record.                        *)
NothingPassed ==
  /\ \A q \in processed : Charged(q)
  /\ \A w \in Callers : Passed(inv[w])

LEMMA InitPassed == Init => NothingPassed
  BY DEF Init, NothingPassed, Passed, InvIdle

LEMMA ChargedStays ==
  ASSUME SeparateModels, Counted, [Next]_vars, NEW q \in Requests, Charged(q)
  PROVE  Charged(q)'
  <1>1. CASE UNCHANGED charges
    <2>1. \A c \in Cells : usage'[c].added = usage[c].added
      BY <1>1 DEF charges
    <2> QED
      BY <2>1 DEF Charged
  <1>2. ASSUME NEW w \in Callers, RecordEntry(w), LineAt(w).req \notin processed
        PROVE  Charged(q)'
    <2>1. PICK o \in Requests, c \in Cells : AddsTo(w, o, c)
      BY <1>2, AddedOnce
    <2>2. PICK d \in Cells : usage[d].added[q] > 0
      BY DEF Charged
    <2>3. q # o
      BY <2>1, <2>2 DEF AddsTo
    <2>4. usage'[d].added[q] = usage[d].added[q]
      <3>1. CASE d = c
        <4>1. usage'[d].added = [usage[c].added EXCEPT ![o] = 1]
          BY <2>1, <3>1, Zenon DEF AddsTo
        <4>2. usage[c].added \in [Requests -> Nat]
          BY <2>1, Zenon DEF AddsTo
        <4> QED
          BY <2>3, <3>1, <4>1, <4>2
      <3>2. CASE d # c
        BY <2>1, <3>2, Zenon DEF AddsTo
      <3> QED
        BY <3>1, <3>2
    <2> QED
      BY <2>2, <2>4 DEF Charged
  <1>3. ASSUME NEW w \in Callers, RecordEntry(w), LineAt(w).req \in processed
        PROVE  UNCHANGED charges
    BY <1>3 DEF RecordEntry, charges
  <1> QED
    BY <1>1, <1>2, <1>3, OtherCharges

(* A deduplication record comes with its charge, in one transaction.       *)
LEMMA ProcessedStep ==
  ASSUME Counted, [Next]_vars
  PROVE  /\ processed \subseteq processed'
         /\ \A q \in processed' \ processed : Charged(q)'
  <1>1. CASE UNCHANGED processed
    BY <1>1
  <1>2. ASSUME NEW w \in Callers, RecordEntry(w), ~ UNCHANGED processed
        PROVE  /\ processed \subseteq processed'
               /\ \A q \in processed' \ processed : Charged(q)'
    <2>1. LineAt(w).req \notin processed /\ processed' = processed \cup {LineAt(w).req}
      BY <1>2 DEF RecordEntry
    <2>2. PICK q \in Requests, c \in Cells : AddsTo(w, q, c)
      BY <1>2, <2>1, AddedOnce
    <2>3. usage'[c].added[q] = 1 /\ q = LineAt(w).req
      BY <2>2 DEF AddsTo
    <2>4. Charged(q)'
      BY <2>3 DEF Charged
    <2> QED
      BY <2>1, <2>3, <2>4
  <1>3. UNCHANGED processed \/ \E w \in Callers : RecordEntry(w)
    <2>1. CASE MappingChange \/ UNCHANGED vars
      BY <2>1 DEF MappingChange, collectorVars, vars
    <2>2. ASSUME NEW w \in Callers, CollectorStep(w) \/ CrashCollector(w)
          PROVE  UNCHANGED processed \/ RecordEntry(w)
      BY <2>2 DEF CollectorStep, CrashCollector, Deliver, SkipLine, BeginEntry, Resolve,
                  RejectEntry, FinishEvent, collectorVars
    <2>3. CASE MantleStep
      BY <2>3 DEF MantleStep, StartRun, TargetDays, PullDay, WritePoint, FinishRun, CrashRun,
                  mantleUnchanged
    <2>4. CASE MantleWorld
      BY <2>4 DEF MantleWorld, Emit, MapProject, NextDay, mantleUnchanged
    <2> QED
      BY <2>1, <2>2, <2>3, <2>4 DEF Next
  <1> QED
    BY <1>1, <1>2, <1>3

(* An invocation goes on to the next line of its object.                   *)
LEMMA NextLinePassed ==
  ASSUME Counted, NEW w \in Callers, inv[w].pc # "idle", Passed(inv[w]), AtLine(w),
         processed \subseteq processed', NextLine(w),
         LineAt(w).kind = "entry" => LineAt(w).req \in processed'
  PROVE  Passed(inv[w])'
  <1>1. inv[w] \in Invocation /\ inv[w].event \in Events
    BY DEF Counted, CollectorTypeOK, CallsOfLines
  <1>2. PICK e, at : e = inv[w].event /\ at = inv[w].at /\ at \in Nat \ {0}
    BY DEF Passed
  <1>3. inv'[w].event = e /\ inv'[w].at = at + 1
    <2> PICK i : i = [inv[w] EXCEPT !.pc = "line", !.at = inv[w].at + 1]
      OBVIOUS
    <2>1. inv'[w] = i
      BY DEF NextLine, Counted, CollectorTypeOK
    <2>2. i.event = e /\ i.at = at + 1
      BY <1>1, <1>2 DEF Invocation
    <2> QED
      BY <2>1, <2>2
  <1>4. DOMAIN LinesOf[e] \subseteq Nat
    <2>1. LinesOf[e] \in Seq(Line)
      BY <1>1, <1>2
    <2> QED
      BY <2>1
  <1>5. ASSUME NEW k \in DOMAIN LinesOf[e], k < at + 1, LinesOf[e][k].kind = "entry"
        PROVE  LinesOf[e][k].req \in processed'
    <2>1. CASE k = at
      BY <1>2, <1>5, <2>1 DEF LineAt
    <2>2. CASE k # at
      <3>1. k < at
        BY <1>2, <1>4, <1>5, <2>2
      <3> QED
        BY <1>2, <1>5, <3>1 DEF Passed
    <2> QED
      BY <2>1, <2>2
  <1>6. at + 1 \in Nat \ {0}
    BY <1>2
  <1> QED
    BY <1>3, <1>5, <1>6 DEF Passed

LEMMA InvocationPassed ==
  ASSUME Counted, NothingPassed, [Next]_vars, NEW w \in Callers
  PROVE  Passed(inv[w])'
  <1>1. processed \subseteq processed' /\ Passed(inv[w])
    BY ProcessedStep DEF NothingPassed
  <1>2. CASE UNCHANGED inv[w]
    <2> PICK i : i = inv[w] /\ i = inv'[w]
      BY <1>2
    <2> QED
      BY <1>1 DEF Passed
  <1>3. ASSUME NEW e \in Events, Deliver(w, e) PROVE Passed(inv[w])'
    <2>1. inv'[w] = [pc |-> "line", event |-> e, at |-> 1]
      BY <1>3 DEF Deliver, Counted, CollectorTypeOK
    <2>2. inv'[w].at = 1 /\ inv'[w].event = e
      BY <2>1
    <2>3. DOMAIN LinesOf[e] = 1 .. Len(LinesOf[e]) /\ Len(LinesOf[e]) \in Nat
      <3>1. LinesOf[e] \in Seq(Line)
        OBVIOUS
      <3> QED
        BY <3>1
    <2>4. \A k \in DOMAIN LinesOf[e] : ~ (k < 1)
      BY <2>3
    <2> QED
      BY <2>2, <2>4 DEF Passed
  <1>4. CASE SkipLine(w)
    BY <1>1, <1>4, NextLinePassed DEF SkipLine
  <1>5. CASE RecordEntry(w)
    <2>1. inv[w].pc # "idle" /\ AtLine(w) /\ NextLine(w) /\ LineAt(w).req \in processed'
      BY <1>5 DEF RecordEntry, AtLine
    <2> QED
      BY <1>1, <2>1, NextLinePassed
  <1>6. CASE BeginEntry(w)
    <2> PICK i : i = [inv[w] EXCEPT !.pc = "resolve"]
      OBVIOUS
    <2>1. inv[w].pc # "idle" /\ inv'[w] = i
      BY <1>6 DEF BeginEntry, Counted, CollectorTypeOK
    <2>2. i.event = inv[w].event /\ i.at = inv[w].at
      BY DEF Counted, CollectorTypeOK, Invocation
    <2> QED
      BY <1>1, <2>1, <2>2 DEF Passed
  <1>7. CASE RejectEntry(w) \/ FinishEvent(w) \/ CrashCollector(w)
    <2>1. inv'[w].pc = "idle"
      BY <1>7 DEF RejectEntry, FinishEvent, CrashCollector, InvIdle, Counted, CollectorTypeOK
    <2> QED
      BY <2>1 DEF Passed
  <1>8. ASSUME NEW v \in Callers, v # w, CollectorStep(v) \/ CrashCollector(v)
        PROVE  UNCHANGED inv[w]
    BY <1>8 DEF CollectorStep, CrashCollector, Deliver, SkipLine, BeginEntry, Resolve,
                RejectEntry, RecordEntry, FinishEvent, NextLine, collectorVars,
                Counted, CollectorTypeOK
  <1>9. CASE Resolve(w) \/ MappingChange \/ MantleStep \/ MantleWorld \/ UNCHANGED vars
    <2>1. UNCHANGED inv
      BY <1>9 DEF Resolve, MappingChange, MantleStep, StartRun, TargetDays, PullDay,
                  WritePoint, FinishRun, CrashRun, MantleWorld, Emit, MapProject, NextDay,
                  mantleUnchanged, collectorVars, vars
    <2> QED
      BY <1>2, <2>1
  <1> QED
    BY <1>2, <1>3, <1>4, <1>5, <1>6, <1>7, <1>8, <1>9 DEF Next, CollectorStep

LEMMA NextPassed ==
  ASSUME SeparateModels, Counted, NothingPassed, [Next]_vars
  PROVE  NothingPassed'
  <1>1. \A w \in Callers : Passed(inv[w])'
    BY InvocationPassed
  <1>2. ASSUME NEW q \in processed' PROVE Charged(q)'
    <2>1. CASE q \in processed
      <3>1. q \in Requests /\ Charged(q)
        BY <2>1 DEF NothingPassed, Counted, CollectorTypeOK
      <3> QED
        BY <3>1, ChargedStays
    <2>2. CASE q \notin processed
      BY <1>2, <2>2, ProcessedStep
    <2> QED
      BY <2>1, <2>2
  <1> QED
    BY <1>1, <1>2 DEF NothingPassed

(* An invocation at the end of its object has all of it counted.           *)
LEMMA FinishedCounted ==
  ASSUME Counted, NothingPassed, NEW w \in Callers, FinishEvent(w)
  PROVE  AllCounted(inv[w].event)
  <1>1. PICK e, at : /\ e = inv[w].event /\ at = inv[w].at /\ e \in Events
                     /\ at \in Nat \ {0} /\ at \notin DOMAIN LinesOf[e]
    BY DEF FinishEvent, AtLine, Counted, CallsOfLines, NothingPassed, Passed
  <1>2. LinesOf[e] \in Seq(Line)
    BY <1>1
  <1>3. \A k \in DOMAIN LinesOf[e] : k < at
    BY <1>1, <1>2
  <1>4. \A k \in DOMAIN LinesOf[e] :
          LinesOf[e][k].kind = "entry" => LinesOf[e][k].req \in processed
    BY <1>1, <1>3 DEF FinishEvent, NothingPassed, Passed
  <1> QED
    BY <1>1, <1>4 DEF NothingPassed, Charged, AllCounted

(* No step takes a delivery back from an event but the start of an         *)
(* invocation, or the return of one that has passed every line: lines      *)
(* nobody can parse, duplicates working on the same object, retagged roles *)
(* and crashes make no entry of an acknowledged object go uncounted        *)
(* (usageCollectorEntry.ts, processInvocationLogEntry).                    *)
THEOREM AcknowledgedIsCounted == ASSUME SeparateModels PROVE Spec => NeverGivenUp
  <1> DEFINE Given == \A e \in Events : owed'[e] < owed[e] =>
               \/ AllCounted(e)
               \/ \E w \in Callers : inv[w].pc = "idle" /\ inv'[w].event = e
  <1>1. Counted /\ NothingPassed /\ [Next]_vars => [Given]_vars
    <2> SUFFICES ASSUME Counted, NothingPassed, Next, NEW e \in Events, owed'[e] < owed[e]
                 PROVE  \/ AllCounted(e)
                        \/ \E w \in Callers : inv[w].pc = "idle" /\ inv'[w].event = e
      BY Zenon
    <2>1. ~ (owed[e] < owed[e])
      BY DEF Counted, CollectorTypeOK
    <2>2. ~ UNCHANGED owed
      BY <2>1
    <2>3. PICK w \in Callers : (\E d \in Events : Deliver(w, d)) \/ FinishEvent(w)
      BY <2>2 DEF Next, MappingChange, CollectorStep, CrashCollector, SkipLine, BeginEntry,
                  Resolve, RejectEntry, RecordEntry, MantleStep, StartRun, TargetDays,
                  PullDay, WritePoint, FinishRun, CrashRun, MantleWorld, Emit, MapProject,
                  NextDay, mantleUnchanged, collectorVars
    <2>4. ASSUME NEW d \in Events, Deliver(w, d)
          PROVE  inv[w].pc = "idle" /\ inv'[w].event = e
      <3>1. d = e
        BY <2>1, <2>4 DEF Deliver, Counted, CollectorTypeOK
      <3> QED
        BY <2>4, <3>1 DEF Deliver, Counted, CollectorTypeOK
    <2>5. CASE FinishEvent(w)
      <3>1. inv[w].event = e
        BY <2>1, <2>5 DEF FinishEvent, Counted, CollectorTypeOK
      <3> QED
        BY <2>5, <3>1, FinishedCounted
    <2> QED
      BY <2>3, <2>4, <2>5
  <1>2. Spec => []NothingPassed
    BY InitPassed, NextPassed, CountedAlways, PTL DEF Spec
  <1> HIDE DEF Given
  <1>3. Spec => [][Given]_vars
    BY <1>1, <1>2, CountedAlways, PTL DEF Spec
  <1> QED
    BY <1>3 DEF Given, NeverGivenUp

-----------------------------------------------------------------------------
(* The totals of finished days.                                            *)

(* Nothing was emitted for d since a run that will have covered it read    *)
(* the clock.                                                              *)
Frozen(d) == d < day - 1 \/ (d = day - 1 /\ covered # "no")

(* A run looks projects up in mappings that were once in force, and holds  *)
(* points only while it writes them.                                       *)
RunFollowsMappings ==
  /\ \A p \in Projects : <<p, projectOf[p]>> \in assigned
  /\ run.pc # "idle" => \A p \in Projects : <<p, run.lookup[p]>> \in assigned
  /\ run.pc # "write" => run.points = {}
  /\ run.pc = "write" => run.now \in Days
  /\ covered = "running" => run.pc \in {"pull", "write"}

(* A point to be written is at most the metric, and the metric itself for  *)
(* a frozen day.                                                           *)
PointsRead ==
  \A pmv \in run.points :
    /\ pmv[3] <= metric[<<pmv[1], pmv[2], run.now>>]
    /\ Frozen(run.now) => pmv[3] = metric[<<pmv[1], pmv[2], run.now>>]

Base(t, m, d) == usage[<<t, <<m, d>>>>].base

(* A stored total never overtakes the metric; the run that is to cover     *)
(* yesterday has stored the metric, will, or is still to read it.          *)
Follows(base, sum, p, m, d) ==
  /\ base <= sum
  /\ Finished(d) => base = sum
  /\ covered = "running" /\ d = day - 1 /\ d \notin run.days
       => base = sum \/ (run.now = d /\ <<p, m, sum>> \in run.points)

RowsFollow ==
  \A p \in Projects, t \in Teams, m \in MantleModels, d \in Days :
    Sole(p, t) => Follows(Base(t, m, d), metric[<<p, m, d>>], p, m, d)

Settling == RunFollowsMappings /\ PointsRead /\ RowsFollow

LEMMA MantleCell ==
  ASSUME NEW t \in Teams, NEW m \in MantleModels, NEW d \in Days
  PROVE  <<t, <<m, d>>>> \in Cells
  BY DEF Cells, Slots, Owners

LEMMA InitSettling == Init => Settling
  <1> SUFFICES ASSUME Init PROVE Settling
    OBVIOUS
  <1>1. projectOf \in [Projects -> Teams \cup {None}]
    BY DEF Init
  <1>2. RunFollowsMappings /\ PointsRead
    BY <1>1 DEF Init, RunIdle, RunFollowsMappings, PointsRead
  <1>3. ASSUME NEW t \in Teams, NEW m \in MantleModels, NEW d \in Days
        PROVE  Base(t, m, d) = 0
    BY MantleCell DEF Init, Base
  <1>4. RowsFollow
    BY <1>3 DEF Init, RowsFollow, Follows
  <1> QED
    BY <1>2, <1>4 DEF Settling

(* Steps that touch neither the metrics, the run, the mappings nor the     *)
(* stored totals.                                                          *)
LEMMA StillSettling ==
  ASSUME Settling, UNCHANGED mantleVars,
         \A c \in Cells : usage'[c].base = usage[c].base
  PROVE  Settling'
  <1>1. RunFollowsMappings' /\ PointsRead'
    BY DEF Settling, mantleVars, RunFollowsMappings, PointsRead, Frozen
  <1>2. \A t \in Teams, m \in MantleModels, d \in Days : Base(t, m, d)' = Base(t, m, d)
    BY MantleCell DEF Base
  <1>3. RowsFollow'
    BY <1>2 DEF Settling, mantleVars, RowsFollow, Follows, Sole, Finished
  <1> QED
    BY <1>1, <1>3 DEF Settling

(* A step that leaves rows and metrics alone keeps RowsFollow if it keeps  *)
(* what Follows says of any two numbers.                                   *)
LEMMA FollowsStep ==
  ASSUME RowsFollow, UNCHANGED metric,
         \A p \in Projects, t \in Teams : Sole(p, t)' => Sole(p, t),
         \A t \in Teams, m \in MantleModels, d \in Days : Base(t, m, d)' = Base(t, m, d),
         ASSUME NEW base, NEW sum, NEW p \in Projects, NEW m \in MantleModels, NEW d \in Days,
                Follows(base, sum, p, m, d)
         PROVE  Follows(base, sum, p, m, d)'
  PROVE  RowsFollow'
  <1> SUFFICES ASSUME NEW p \in Projects, NEW t \in Teams, NEW m \in MantleModels,
                      NEW d \in Days, Sole(p, t)'
               PROVE  Follows(Base(t, m, d), metric[<<p, m, d>>], p, m, d)'
    BY DEF RowsFollow
  <1> PICK base, sum : base = Base(t, m, d) /\ sum = metric[<<p, m, d>>]
    OBVIOUS
  <1>1. Follows(base, sum, p, m, d)
    BY DEF RowsFollow
  <1>2. Follows(base, sum, p, m, d)'
    BY <1>1
  <1> QED
    BY <1>2 DEF Follows

LEMMA EmitSettling ==
  ASSUME Counted, Settling, NEW p \in Projects, NEW m \in MantleModels, NEW d \in Days,
         Emit(p, m, d)
  PROVE  Settling'
  <1> DEFINE Keys == Projects \X MantleModels \X Days
  <1>1. metric \in [Keys -> 0 .. MaxMetric] /\ day \in Days /\ run.points \subseteq Points
    BY DEF Counted, MantleTypeOK, Run
  <1>2. /\ \A k \in Keys : metric[k] \in Int /\ metric'[k] \in Int /\ metric[k] <= metric'[k]
        /\ \A k \in Keys : k # <<p, m, d>> => metric'[k] = metric[k]
    <2> PICK key : key = <<p, m, d>>
      OBVIOUS
    <2>1. key \in Keys /\ metric' = [metric EXCEPT ![key] = metric[key] + 1]
      BY DEF Emit
    <2>2. metric[key] \in Int /\ metric'[key] = metric[key] + 1
      BY <1>1, <2>1
    <2>3. \A k \in Keys : k # key => metric'[k] = metric[k]
      BY <1>1, <2>1
    <2>4. \A k \in Keys : metric[k] \in Int
      BY <1>1
    <2>5. ASSUME NEW k \in Keys
          PROVE  metric'[k] \in Int /\ metric[k] <= metric'[k]
      <3>1. CASE k = key
        BY <3>1, <2>2
      <3>2. CASE k # key
        BY <3>2, <2>3, <2>4
      <3> QED
        BY <3>1, <3>2
    <2> QED
      BY <2>3, <2>4, <2>5
  <1>3. ~ Frozen(d)' /\ ~ Finished(d)' /\ (covered' = "running" => d # day' - 1)
    BY <1>1 DEF Emit, Frozen, Finished, Days
  <1>4. /\ \A e \in Days : Frozen(e)' => Frozen(e)
        /\ \A e \in Days : Finished(e)' => Finished(e)
        /\ covered' = "running" => covered = "running"
        /\ UNCHANGED <<usage, run, projectOf, assigned, day>>
    BY DEF Emit, Frozen, Finished
  <1>5. RunFollowsMappings'
    BY <1>4 DEF Settling, RunFollowsMappings
  <1>6. PointsRead'
    <2> SUFFICES ASSUME NEW pmv \in run.points
                 PROVE  /\ pmv[3] <= metric'[<<pmv[1], pmv[2], run.now>>]
                        /\ Frozen(run.now)' => pmv[3] = metric'[<<pmv[1], pmv[2], run.now>>]
      BY <1>4 DEF PointsRead
    <2> PICK k : k = <<pmv[1], pmv[2], run.now>>
      OBVIOUS
    <2>1. k \in Keys /\ run.now \in Days /\ pmv[3] \in Int
      BY <1>1 DEF Settling, RunFollowsMappings, Points
    <2>2. pmv[3] <= metric[k] /\ (Frozen(run.now) => pmv[3] = metric[k])
      BY DEF Settling, PointsRead
    <2>3. Frozen(run.now)' => run.now # d
      BY <1>3, <1>4
    <2> QED
      BY <1>2, <1>4, <2>1, <2>2, <2>3
  <1>7. RowsFollow'
    <2> SUFFICES ASSUME NEW q \in Projects, NEW t \in Teams, NEW n \in MantleModels,
                        NEW e \in Days, Sole(q, t)'
                 PROVE  Follows(Base(t, n, e), metric[<<q, n, e>>], q, n, e)'
      BY DEF RowsFollow
    <2> PICK base, sum, next : /\ base = Base(t, n, e) /\ sum = metric[<<q, n, e>>]
                               /\ next = metric'[<<q, n, e>>]
      OBVIOUS
    <2>1. Base(t, n, e)' = base
      BY <1>4 DEF Base
    <2>2. Follows(base, sum, q, n, e)
      BY <1>4 DEF Settling, RowsFollow, Sole
    <2>3. base \in Int
      BY MantleCell DEF Base, Counted, CollectorTypeOK, Total
    <2>4. sum \in Int /\ next \in Int /\ sum <= next /\ (e # d => next = sum)
      BY <1>2
    <2>5. Follows(base, next, q, n, e)'
      <3> HIDE DEF Base, Sole, Finished, Frozen
      <3>1. CASE e = d
        BY <3>1, <1>3, <2>2, <2>3, <2>4 DEF Follows
      <3>2. CASE e # d
        BY <3>2, <1>4, <2>2, <2>4 DEF Follows
      <3> QED
        BY <3>1, <3>2
    <2> QED
      BY <2>1, <2>5 DEF Follows
  <1> QED
    BY <1>5, <1>6, <1>7 DEF Settling

LEMMA MapProjectSettling ==
  ASSUME Counted, Settling, NEW p \in Projects, NEW t \in Teams, MapProject(p, t)
  PROVE  Settling'
  <1>1. assigned \subseteq assigned' /\ <<p, t>> \in assigned'
        /\ UNCHANGED <<usage, day, metric, run, covered>>
    BY DEF MapProject
  <1>2. \A q \in Projects : projectOf'[q] = IF q = p THEN t ELSE projectOf[q]
    BY DEF MapProject, Counted, MantleTypeOK
  <1>3. RunFollowsMappings'
    BY <1>1, <1>2 DEF Settling, RunFollowsMappings
  <1>4. PointsRead'
    BY <1>1 DEF Settling, PointsRead, Frozen
  <1>5. \A q \in Projects, u \in Teams : Sole(q, u)' => Sole(q, u)
    BY <1>1 DEF Sole
  <1>6. RowsFollow'
    <2>1. ASSUME NEW base, NEW sum, NEW q, NEW m, NEW d, Follows(base, sum, q, m, d)
          PROVE  Follows(base, sum, q, m, d)'
      BY <1>1, <2>1 DEF Follows, Finished
    <2>2. \A u \in Teams, m \in MantleModels, d \in Days : Base(u, m, d)' = Base(u, m, d)
      BY <1>1 DEF Base
    <2> QED
      BY <1>1, <1>5, <2>1, <2>2, FollowsStep DEF Settling
  <1> QED
    BY <1>3, <1>4, <1>6 DEF Settling

LEMMA NextDaySettling ==
  ASSUME Counted, Settling, NextDay
  PROVE  Settling'
  <1>1. /\ covered = "yes" /\ covered' = "no" /\ day' = day + 1 /\ day \in Int
        /\ UNCHANGED <<usage, metric, run, projectOf, assigned>>
    BY DEF NextDay, Counted, MantleTypeOK, Days
  <1>2. /\ \A d \in Days : Frozen(d)' => Frozen(d)
        /\ \A d \in Days : Finished(d)' => Finished(d)
    BY <1>1 DEF Frozen, Finished, Days
  <1>3. RunFollowsMappings'
    BY <1>1 DEF Settling, RunFollowsMappings
  <1>4. PointsRead'
    <2>1. run.points # {} => run.now \in Days
      BY DEF Settling, RunFollowsMappings
    <2> QED
      BY <1>1, <1>2, <2>1 DEF Settling, PointsRead
  <1>5. RowsFollow'
    <2>1. ASSUME NEW base, NEW sum, NEW q, NEW m, NEW d \in Days, Follows(base, sum, q, m, d)
          PROVE  Follows(base, sum, q, m, d)'
      BY <1>1, <1>2, <2>1 DEF Follows
    <2>2. \A u \in Teams, m \in MantleModels, d \in Days : Base(u, m, d)' = Base(u, m, d)
      BY <1>1 DEF Base
    <2>3. \A q \in Projects, u \in Teams : Sole(q, u)' => Sole(q, u)
      BY <1>1 DEF Sole
    <2> QED
      BY <1>1, <2>1, <2>2, <2>3, FollowsStep DEF Settling
  <1> QED
    BY <1>3, <1>4, <1>5 DEF Settling

LEMMA StartRunSettling ==
  ASSUME Counted, Settling, StartRun
  PROVE  Settling'
  <1>1. /\ run' = [RunIdle EXCEPT !.pc = "target", !.lookup = projectOf]
        /\ run.pc = "idle" /\ UNCHANGED <<usage, metric, projectOf, assigned, day, covered>>
    BY DEF StartRun
  <1>2. /\ run'.pc = "target" /\ run'.lookup = projectOf /\ run'.points = {}
        /\ covered # "running"
    BY <1>1 DEF RunIdle, Settling, RunFollowsMappings
  <1>3. RunFollowsMappings' /\ PointsRead'
    BY <1>1, <1>2 DEF Settling, RunFollowsMappings, PointsRead
  <1>4. ASSUME NEW base, NEW sum, NEW p, NEW m, NEW d, Follows(base, sum, p, m, d)
        PROVE  Follows(base, sum, p, m, d)'
    BY <1>1, <1>2, <1>4 DEF Follows, Finished
  <1>5. RowsFollow'
    BY <1>1, <1>4, FollowsStep DEF Settling, Sole, Base
  <1> QED
    BY <1>3, <1>5 DEF Settling

LEMMA TargetDaysSettling ==
  ASSUME Counted, Settling, TargetDays
  PROVE  Settling'
  <1>1. /\ run.pc = "target" /\ run'.pc = "pull" /\ run'.days = {day - 1, day} \cap Days
        /\ run'.lookup = run.lookup /\ run'.points = run.points
        /\ UNCHANGED <<usage, metric, projectOf, assigned, day>>
    BY DEF TargetDays, Counted, MantleTypeOK, Run
  <1>2. /\ run.points = {} /\ covered # "running"
        /\ covered' = IF covered = "yes" THEN "yes" ELSE "running"
    BY <1>1 DEF TargetDays, Cover, Settling, RunFollowsMappings
  <1>3. RunFollowsMappings' /\ PointsRead'
    BY <1>1, <1>2 DEF Settling, RunFollowsMappings, PointsRead
  <1>4. ASSUME NEW base, NEW sum, NEW p, NEW m, NEW d \in Days, Follows(base, sum, p, m, d)
        PROVE  Follows(base, sum, p, m, d)'
    BY <1>1, <1>2, <1>4 DEF Follows, Finished
  <1>5. RowsFollow'
    BY <1>1, <1>4, FollowsStep DEF Settling, Sole, Base
  <1> QED
    BY <1>3, <1>5 DEF Settling

LEMMA PullDaySettling ==
  ASSUME Counted, Settling, NEW d \in Days, PullDay(d)
  PROVE  Settling'
  <1> DEFINE found == {pmv \in Points : /\ run.lookup[pmv[1]] # None
                                        /\ metric[<<pmv[1], pmv[2], d>>] = pmv[3]}
  <1>1. /\ run.pc = "pull" /\ run'.pc \in {"pull", "write"} /\ run'.lookup = run.lookup
        /\ run'.days = run.days \ {d} /\ run'.now = d /\ run'.points = found
        /\ (found # {} <=> run'.pc = "write")
        /\ UNCHANGED <<usage, metric, projectOf, assigned, day, covered>>
    BY DEF PullDay, Counted, MantleTypeOK, Run
  <1>2. run.points = {} /\ \A p \in Projects : <<p, run.lookup[p]>> \in assigned
    BY <1>1 DEF Settling, RunFollowsMappings
  <1>3. RunFollowsMappings'
    BY <1>1, <1>2 DEF Settling, RunFollowsMappings
  <1>4. PointsRead'
    <2> SUFFICES ASSUME NEW pmv \in found
                 PROVE  /\ pmv[3] <= metric[<<pmv[1], pmv[2], d>>]
                        /\ pmv[3] = metric[<<pmv[1], pmv[2], d>>]
      BY <1>1 DEF PointsRead
    <2>1. pmv[3] \in Int
      BY DEF Points
    <2> QED
      BY <2>1
  <1>5. RowsFollow'
    <2> SUFFICES ASSUME NEW p \in Projects, NEW t \in Teams, NEW m \in MantleModels,
                        NEW e \in Days, Sole(p, t)'
                 PROVE  Follows(Base(t, m, e), metric[<<p, m, e>>], p, m, e)'
      BY DEF RowsFollow
    <2> PICK base, sum : base = Base(t, m, e) /\ sum = metric[<<p, m, e>>]
      OBVIOUS
    <2>1. Sole(p, t) /\ Follows(base, sum, p, m, e)
      BY <1>1 DEF Settling, RowsFollow, Sole
    <2>2. base \in Nat /\ sum \in 0 .. MaxMetric
      BY MantleCell DEF Base, Counted, CollectorTypeOK, MantleTypeOK, Total
    <2>3. CASE e = d
      <3>1. run.lookup[p] = t /\ t # None
        BY <1>2, <2>1, RoleMappingAssumption DEF Sole, Owners
      <3>2. CASE sum = 0
        <4>1. base = sum
          BY <2>1, <2>2, <3>2 DEF Follows
        <4> QED
          BY <1>1, <2>1, <4>1 DEF Follows, Finished, Base
      <3>3. CASE sum # 0
        <4>1. <<p, m, sum>> \in found
          <5> PICK pt : pt = <<p, m, sum>>
            OBVIOUS
          <5>1. pt[1] = p /\ pt[2] = m /\ pt[3] = sum
            OBVIOUS
          <5>2. pt \in Points
            <6>1. sum \in 1 .. MaxMetric
              BY <2>2, <3>3
            <6> QED
              BY <6>1 DEF Points
          <5>3. run.lookup[pt[1]] # None
            BY <3>1, <5>1
          <5>4. metric[<<pt[1], pt[2], d>>] = pt[3]
            BY <2>3, <5>1
          <5> QED
            BY <5>2, <5>3, <5>4
        <4>2. Follows(base, sum, p, m, e)'
          BY <1>1, <2>1, <2>3, <4>1 DEF Follows, Finished
        <4> QED
          BY <1>1, <4>2 DEF Follows, Base
      <3> QED
        BY <3>2, <3>3
    <2>4. CASE e # d
      <3>1. Follows(base, sum, p, m, e)'
        BY <1>1, <1>2, <2>1, <2>4 DEF Follows, Finished
      <3> QED
        BY <1>1, <3>1 DEF Follows, Base
    <2> QED
      BY <2>3, <2>4
  <1> QED
    BY <1>3, <1>4, <1>5 DEF Settling

LEMMA EndRunSettling ==
  ASSUME Counted, Settling, FinishRun \/ CrashRun
  PROVE  Settling'
  <1>1. /\ run' = RunIdle /\ UNCHANGED <<usage, metric, projectOf, assigned, day>>
        /\ covered' # "running" /\ (covered = "yes" => covered' = "yes")
        /\ covered' = "yes" /\ covered # "yes" => run.pc = "pull" /\ run.days = {} /\ covered = "running"
    BY DEF FinishRun, CrashRun, Counted, MantleTypeOK
  <1>2. RunFollowsMappings' /\ PointsRead'
    BY <1>1 DEF RunIdle, Settling, RunFollowsMappings, PointsRead
  <1>3. ASSUME NEW base, NEW sum, NEW p, NEW m, NEW d \in Days, Follows(base, sum, p, m, d)
        PROVE  Follows(base, sum, p, m, d)'
    <2>1. covered' = "yes" /\ covered # "yes" /\ d = day - 1 => base = sum
      BY <1>1, <1>3 DEF Follows, Settling, RunFollowsMappings
    <2> QED
      BY <1>1, <1>3, <2>1 DEF Follows, Finished
  <1>4. RowsFollow'
    BY <1>1, <1>3, FollowsStep DEF Settling, Sole, Base
  <1> QED
    BY <1>2, <1>4 DEF Settling

(* A point is written into the row of its project's team: no other project *)
(* writes into a row whose team has one project.                           *)
LEMMA WritePointSettling ==
  ASSUME Counted, Settling, NEW pmv \in Points, WritePoint(pmv)
  PROVE  Settling'
  <1> DEFINE written_row == <<run.lookup[pmv[1]], <<pmv[2], run.now>>>>
  <1>1. /\ run.pc = "write" /\ pmv \in run.points
        /\ usage' = [usage EXCEPT ![written_row] = [added |-> NoAdds, base |-> pmv[3]]]
        /\ run'.pc = (IF run.points = {pmv} THEN "pull" ELSE "write")
        /\ run'.points = run.points \ {pmv} /\ run'.lookup = run.lookup
        /\ run'.days = run.days /\ run'.now = run.now
        /\ UNCHANGED <<metric, projectOf, assigned, day, covered>>
    BY DEF WritePoint, Counted, MantleTypeOK, Run
  <1>2. /\ pmv[1] \in Projects /\ pmv[2] \in MantleModels /\ pmv[3] \in Int
        /\ run.now \in Days /\ \A p \in Projects : <<p, run.lookup[p]>> \in assigned
    BY <1>1 DEF Points, Settling, RunFollowsMappings
  <1>3. RunFollowsMappings'
    BY <1>1, <1>2 DEF Settling, RunFollowsMappings
  <1>4. PointsRead'
    BY <1>1 DEF Settling, PointsRead, Frozen
  <1>5. RowsFollow'
    <2> SUFFICES ASSUME NEW p \in Projects, NEW t \in Teams, NEW m \in MantleModels,
                        NEW d \in Days, Sole(p, t)'
                 PROVE  Follows(Base(t, m, d), metric[<<p, m, d>>], p, m, d)'
      BY DEF RowsFollow
    <2> PICK base, sum, cell, written : /\ base = Base(t, m, d) /\ sum = metric[<<p, m, d>>]
                                        /\ cell = <<t, <<m, d>>>> /\ written = written_row
      OBVIOUS
    <2>1. Sole(p, t) /\ Follows(base, sum, p, m, d)
      BY <1>1 DEF Settling, RowsFollow, Sole
    <2>2. base \in Nat /\ sum \in 0 .. MaxMetric
      BY MantleCell DEF Base, Counted, CollectorTypeOK, MantleTypeOK, Total
    <2>3. cell \in Cells /\ Base(t, m, d)' = usage'[cell].base /\ base = usage[cell].base
      BY MantleCell DEF Base
    <2>4. CASE cell = written
      <3>1. run.lookup[pmv[1]] = t /\ pmv[2] = m /\ run.now = d
        BY <2>4
      <3>2. pmv[1] = p
        <4> PICK pt : pt = <<pmv[1], run.lookup[pmv[1]]>>
          OBVIOUS
        <4>1. pt \in assigned /\ pt[2] = t /\ pt[1] = pmv[1]
          BY <1>2, <3>1
        <4> QED
          BY <2>1, <4>1 DEF Sole
      <3>3. usage'[cell].base = pmv[3]
        BY <1>1, <2>3, <2>4 DEF Counted, CollectorTypeOK
      <3>4. pmv[3] <= sum /\ (Frozen(d) => pmv[3] = sum)
        BY <1>1, <3>1, <3>2 DEF Settling, PointsRead
      <3>5. Finished(d) \/ (covered = "running" /\ d = day - 1) => Frozen(d)
        BY DEF Finished, Frozen
      <3>6. Follows(pmv[3], sum, p, m, d)'
        BY <1>1, <3>4, <3>5 DEF Follows, Finished
      <3> QED
        BY <1>1, <2>3, <3>3, <3>6 DEF Follows
    <2>5. CASE cell # written
      <3>1. usage'[cell].base = base
        BY <1>1, <2>3, <2>5 DEF Counted, CollectorTypeOK
      <3>2. <<p, m, sum>> \in run.points /\ run.now = d => <<p, m, sum>> \in run'.points
        <4> SUFFICES ASSUME pmv = <<p, m, sum>>, run.now = d
                     PROVE  FALSE
          BY <1>1
        <4>1. run.lookup[p] = t
          <5> PICK pt : pt = <<p, run.lookup[p]>>
            OBVIOUS
          <5>1. pt \in assigned /\ pt[1] = p /\ pt[2] = run.lookup[p]
            BY <1>2
          <5> QED
            BY <2>1, <5>1 DEF Sole
        <4> QED
          BY <2>5, <4>1
      <3>3. Follows(base, sum, p, m, d)'
        BY <1>1, <2>1, <3>2 DEF Follows, Finished
      <3> QED
        BY <1>1, <2>3, <3>1, <3>3 DEF Follows
    <2> QED
      BY <2>4, <2>5
  <1> QED
    BY <1>3, <1>4, <1>5 DEF Settling

(* The Usage_Collector adds to a row and leaves its stored total alone.    *)
LEMMA RecordEntryBase ==
  ASSUME Counted, NEW w \in Callers, RecordEntry(w)
  PROVE  \A c \in Cells : usage'[c].base = usage[c].base
  <1> PICK q, d : q = LineAt(w).req /\ d = <<res[w].team, SlotOf[q]>>
    OBVIOUS
  <1>1. CASE q \in processed
    BY <1>1 DEF RecordEntry
  <1>2. CASE q \notin processed
    <2> PICK bag : bag = [usage[d].added EXCEPT ![q] = usage[d].added[q] + 1]
      OBVIOUS
    <2>1. usage' = [usage EXCEPT ![d] = [usage[d] EXCEPT !.added = bag]]
      BY <1>2 DEF RecordEntry
    <2> SUFFICES ASSUME NEW c \in Cells
                 PROVE  usage'[c].base = usage[c].base
      OBVIOUS
    <2>2. usage[c] \in Total
      BY DEF Counted, CollectorTypeOK
    <2>3. usage'[c] = IF c = d THEN [usage[d] EXCEPT !.added = bag] ELSE usage[c]
      BY <2>1 DEF Counted, CollectorTypeOK
    <2>4. CASE c = d
      <3>1. usage[d] = [added |-> usage[d].added, base |-> usage[d].base]
        BY <2>2, <2>4 DEF Total
      <3>2. usage'[c].base = [usage[d] EXCEPT !.added = bag].base
        BY <2>3, <2>4
      <3> QED
        BY <3>1, <3>2, <2>4
    <2> QED
      BY <2>3, <2>4
  <1> QED
    BY <1>1, <1>2

LEMMA NextSettling ==
  ASSUME Counted, Settling, [Next]_vars
  PROVE  Settling'
  <1>1. CASE MappingChange \/ UNCHANGED vars
    <2>1. UNCHANGED <<usage, mantleVars>>
      BY <1>1 DEF MappingChange, collectorVars, vars
    <2> QED
      BY <2>1, StillSettling
  <1>2. ASSUME NEW w \in Callers, CollectorStep(w) \/ CrashCollector(w)
        PROVE  Settling'
    <2>1. UNCHANGED mantleVars
      BY <1>2 DEF CollectorStep, CrashCollector, Deliver, SkipLine, BeginEntry, Resolve,
                  RejectEntry, RecordEntry, FinishEvent, mantleVars
    <2>2. UNCHANGED usage \/ RecordEntry(w)
      BY <1>2 DEF CollectorStep, CrashCollector, Deliver, SkipLine, BeginEntry, Resolve,
                  RejectEntry, FinishEvent, collectorVars
    <2> QED
      BY <2>1, <2>2, RecordEntryBase, StillSettling
  <1>3. CASE MantleStep
    BY <1>3, StartRunSettling, TargetDaysSettling, PullDaySettling, WritePointSettling,
       EndRunSettling DEF MantleStep
  <1>4. CASE MantleWorld
    BY <1>4, EmitSettling, MapProjectSettling, NextDaySettling DEF MantleWorld
  <1> QED
    BY <1>1, <1>2, <1>3, <1>4 DEF Next

(* Whatever crashes, late datapoints and remappings of other projects, the *)
(* total of a finished day is CloudWatch's for a project that has its team *)
(* to itself (mantleUsageCollectorEntry.ts).                               *)
THEOREM TotalsSettle == Spec => []MantleSettled
  <1>1. Settling => MantleSettled
    <2> SUFFICES ASSUME Settling, NEW p \in Projects, NEW t \in Teams, NEW m \in MantleModels,
                        NEW d \in Days, Sole(p, t), Finished(d)
                 PROVE  usage[<<t, <<m, d>>>>].base = metric[<<p, m, d>>]
      BY DEF MantleSettled
    <2>1. Follows(Base(t, m, d), metric[<<p, m, d>>], p, m, d)
      BY DEF Settling, RowsFollow
    <2> QED
      BY <2>1 DEF Follows, Base
  <1>2. Settling /\ Counted /\ [Next]_vars => Settling'
    BY NextSettling
  <1>3. Spec => []Settling
    BY InitSettling, <1>2, CountedAlways, PTL DEF Spec
  <1> QED
    BY <1>1, <1>3, PTL
=============================================================================
