-------------------------- MODULE MCAnalyticsExport --------------------------
(* AnalyticsExport with empty tables but for one block.                    *)
EXTENDS AnalyticsExport

MCTable  == {[f \in Daily \X Days |-> [k \in Keys |-> 0]]}
MCStatus == {[k \in Keys |-> IF k = 1 THEN BLOCKED ELSE NONE]}
=============================================================================
