------------------------------- MODULE MCKvdb -------------------------------
(* Model checking of Kvdb. *)
EXTENDS Kvdb, TLC

CONSTANTS t1, t2, p1, p2

OneProcess == [t \in Threads |-> p1]
Symmetry == Permutations(Threads) \cup Permutations(Keys) \cup Permutations(Values)
TwoProcesses == t1 :> p1 @@ t2 :> p2

=============================================================================
