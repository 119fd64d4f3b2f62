----------------------------- MODULE UsageLedger -----------------------------
(***************************************************************************)
(* What the metering of per-request usage promises: every invocation is    *)
(* charged at most once, to one team, and a charge is never taken back.    *)
(*                                                                         *)
(* A running total is the bag of the invocations it sums.                  *)
(***************************************************************************)
EXTENDS Naturals

CONSTANTS
  Requests,   \* invocations
  Owners,     \* teams, UNMAPPED among them
  Slots,      \* <<model, Usage_Day>>
  SlotOf      \* [Requests -> Slots]

VARIABLE
  charged     \* [Owners \X Slots -> [Requests -> Nat]]

Uncharged(q) == \A c \in Owners \X Slots : charged[c][q] = 0

Init == charged = [c \in Owners \X Slots |-> [q \in Requests |-> 0]]

Charge(q, o) ==
  /\ Uncharged(q)
  /\ charged' = [charged EXCEPT ![<<o, SlotOf[q]>>] =
                   [charged[<<o, SlotOf[q]>>] EXCEPT ![q] = 1]]

Next == \E q \in Requests, o \in Owners : Charge(q, o)

Spec == Init /\ [][Next]_charged
=============================================================================
