--------------------------- MODULE MCBudgetConsole ---------------------------
(* BudgetConsole with one region: m1 can be invoked by its id on the       *)
(* Mantle endpoint only, where it is allowed already, m2 on the other.     *)
EXTENDS BudgetConsole, TLC

CONSTANTS t1, t2, m1, m2

MCBudgeted     == {<<t1, m1>>, <<t2, m1>>}
MCLegacy       == {<<m1, "bedrock-mantle">>}
MCFoundation   == [r \in Regions |-> {m1}]
MCProfileOnly  == [r \in Regions |-> {m1}]
MCProfiles     == [r \in Regions |-> {m2}]
MCMantleModels == [r \in Regions |-> {m1}]
MCSymmetry     == Permutations({t1, t2})
=============================================================================
