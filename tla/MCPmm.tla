------------------------------- MODULE MCPmm -------------------------------
(* Model checking of Pmm. *)
EXTENDS Pmm, TLC

Symmetry == Permutations(Threads)

=============================================================================
