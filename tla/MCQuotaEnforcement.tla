------------------------- MODULE MCQuotaEnforcement -------------------------
(* Instances of QuotaEnforcement for TLC.                                  *)
EXTENDS QuotaEnforcement, TLC

CONSTANTS teamA, teamB, modelX, modelY, r1, r2, shard1, shard2

(* One shard for every pair.                                               *)
OneShard == [p \in Pairs |-> shard1]

(* Team A starts with the quota q for every model, team B without one.     *)
QuotaOfA(q) == {[p \in Pairs |-> IF p[1] = teamA THEN q ELSE 0]}
QuotaA2 == QuotaOfA(2)
Quota1  == {[p \in Pairs |-> 1]}

AllOfA == {[r \in Roles |-> teamA]}
OnlyR1 == {[r \in Roles |-> IF r = r1 THEN teamA ELSE NoTeam]}
InOrOut == {[r \in Roles |-> t] : t \in {teamA, NoTeam}}

Limits(use, edit, tagging, remap, manual, fault) ==
  [b \in Budgets |-> CASE b = "use" -> use [] b = "edit" -> edit
                       [] b = "tag" -> tagging [] b = "remap" -> remap
                       [] b = "manual" -> manual [] b = "fault" -> fault]
LMidnight == Limits(2, 1, 0, 1, 0, 1)
LTagging  == Limits(2, 0, 2, 0, 1, 1)
LSerial   == Limits(2, 1, 2, 0, 1, 0)
LLive     == Limits(2, 0, 1, 1, 0, 1)
LPending  == Limits(1, 0, 0, 0, 0, 1)
=============================================================================
