---------------------------- MODULE MCCurTeamCost ----------------------------
(* CurTeamCost over two months: two lines of one team that are added up,   *)
(* one on Mantle without a team, and one the parser does not know.         *)
EXTENDS CurTeamCost

CONSTANTS teamA, modelX

Line(t, api, token, suffix) ==
  [team |-> t,
   type |-> [model |-> modelX, api |-> api, token |-> token, suffix |-> suffix]]

MCLines == {Line(teamA, "bedrock-runtime", "input", ""),
            Line(teamA, "bedrock-runtime", "cache-read", ""),
            Line(NoTeam, "bedrock-mantle", "output", "standard"),
            Line(teamA, "bedrock-runtime", "other", "")}

(* The lines without a team come late.                                     *)
MCBill == {[p \in Periods |-> [l \in MCLines |-> IF p = 1 /\ l.team = teamA THEN 1 ELSE 0]]}

MCPeriod == [d \in Days |-> IF d < MaxDay THEN 1 ELSE 2]
=============================================================================
