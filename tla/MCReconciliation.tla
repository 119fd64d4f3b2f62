-------------------------- MODULE MCReconciliation --------------------------
(* Instances of Reconciliation for TLC.                                    *)
EXTENDS Reconciliation, TLC

CONSTANTS r1, r2, r3

(* Two roles on one page, the third on the next.                           *)
TwoPages == [r \in Roles |-> IF r = r3 THEN 2 ELSE 1]
=============================================================================
