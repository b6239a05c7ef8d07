------------------------------ MODULE LockAbs ------------------------------
(***************************************************************************)
(* What a spinlock promises: a lock has at most one owner, which takes it  *)
(* when nobody has it and gives it back itself.                            *)
(***************************************************************************)
CONSTANTS
  Contexts,  \* whoever may hold a lock
  Locks,
  NoOwner

VARIABLE owner

Init == owner = [l \in Locks |-> NoOwner]

Acquire(x, l) ==
  /\ owner[l] = NoOwner
  /\ owner' = [owner EXCEPT ![l] = x]

GiveBack(x, l) ==
  /\ owner[l] = x
  /\ owner' = [owner EXCEPT ![l] = NoOwner]

Next == \E x \in Contexts, l \in Locks : Acquire(x, l) \/ GiveBack(x, l)

Spec == Init /\ [][Next]_owner

=============================================================================
