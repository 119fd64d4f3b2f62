------------------------- MODULE MCUsageCollection -------------------------
(* Instances of UsageCollection for TLC.                                   *)
EXTENDS UsageCollection, TLC

CONSTANTS teamA, teamB, modelX, modelY, r1, q1, q2, q3, obj1, obj2, p1, p2

Slot(m) == [q \in Requests |-> <<m, 1>>]
SlotX == Slot(modelX)
OneRole == [q \in Requests |-> r1]

Entry(q)   == [kind |-> "entry", req |-> q]
Undated(q) == [kind |-> "undated", req |-> q]
Junk       == [kind |-> "malformed", req |-> q1]

(* Each object has its request; a line without a date is the last of its   *)
(* object.                                                                 *)
Logs(e) == IF e = obj1 THEN <<Junk, Entry(q1)>> ELSE <<Entry(q2), Undated(q3)>>
LinesEndingUndated == [e \in Events |-> Logs(e)]
NoLines            == [e \in Events |-> <<>>]

NoProjects   == {[p \in Projects |-> None]}
OneEach      == {[p \in Projects |-> IF p = p1 THEN teamA ELSE teamB]}
OneMapped    == {[p \in Projects |-> IF p = p1 THEN teamA ELSE None]}
SoleTeams    == OneMapped \cup OneEach

Limits(tagging, mapping, project, fault) ==
  [k \in Kinds |-> CASE k = "tag" -> tagging [] k = "map" -> mapping
                     [] k = "project" -> project [] k = "fault" -> fault]
LCollect == Limits(1, 0, 0, 1)
LMantle  == Limits(0, 1, 1, 1)
=============================================================================
