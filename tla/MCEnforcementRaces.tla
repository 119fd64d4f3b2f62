-------------------------- MODULE MCEnforcementRaces --------------------------
(* Instances of EnforcementRaces for TLC.                                  *)
EXTENDS EnforcementRaces, MCQuotaEnforcement
=============================================================================
