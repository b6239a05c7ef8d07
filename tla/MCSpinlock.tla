----------------------------- MODULE MCSpinlock -----------------------------
(* Model checking of Spinlock: two processors, two threads besides their trap
   handlers, two nested locks. *)
EXTENDS Spinlock

=============================================================================
