------------------------------- MODULE MCKmt -------------------------------
(* Model checking of Kmt. *)
EXTENDS Kmt, TLC

Counts == [s \in Sems |-> 0]

=============================================================================
