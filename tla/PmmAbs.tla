------------------------------- MODULE PmmAbs -------------------------------
(***************************************************************************)
(* What the allocator promises its callers: each call takes effect at one  *)
(* instant; alloc hands out the lowest room that overlaps nothing handed   *)
(* out before, and refuses only when there is no room of the size at all.  *)
(***************************************************************************)
EXTENDS Integers

CONSTANTS Threads, PMEnd, BIAS, Sizes, NULL

VARIABLES
  blocks,  \* what is handed out, headers included: from the first address to the last but one
  call     \* what each thread has asked for, or been answered

Idle == [op |-> "none", arg |-> NULL]

Overlap(a, b, c, d) == a < d /\ c < b

(* Is [a, b) free?  The sentinels at both ends of the heap are not. *)
Room(a, b) ==
  /\ BIAS <= a /\ b <= PMEnd - BIAS
  /\ \A x \in blocks : ~Overlap(a, b, x.start, x.end)

Init ==
  /\ blocks = {}
  /\ call = [t \in Threads |-> Idle]

Ask(t, n) ==
  /\ call[t] = Idle
  /\ call' = [call EXCEPT ![t] = [op |-> "alloc", arg |-> n]]
  /\ UNCHANGED blocks

Give(t, a) ==
  /\ call[t].op = "alloc"
  /\ Room(a, a + call[t].arg + BIAS)
  /\ \A b \in 0 .. PMEnd : Room(b, b + call[t].arg + BIAS) => a <= b
  /\ blocks' = blocks \cup {[start |-> a, end |-> a + call[t].arg + BIAS]}
  /\ call' = [call EXCEPT ![t] = [op |-> "return", arg |-> a + BIAS]]

Refuse(t) ==
  /\ call[t].op = "alloc"
  /\ \A b \in 0 .. PMEnd : ~Room(b, b + call[t].arg + BIAS)
  /\ call' = [call EXCEPT ![t] = [op |-> "return", arg |-> NULL]]
  /\ UNCHANGED blocks

Drop(t, x) ==
  /\ call[t] = Idle
  /\ x \in blocks
  /\ call' = [call EXCEPT ![t] = [op |-> "free", arg |-> x.start + BIAS]]
  /\ UNCHANGED blocks

Discard(t) ==
  /\ call[t].op = "free"
  /\ blocks' = {x \in blocks : x.start + BIAS # call[t].arg}
  /\ call' = [call EXCEPT ![t] = [op |-> "return", arg |-> NULL]]

Return(t) ==
  /\ call[t].op = "return"
  /\ call' = [call EXCEPT ![t] = Idle]
  /\ UNCHANGED blocks

Next ==
  \E t \in Threads :
    \/ \E n \in Sizes : Ask(t, n)
    \/ \E a \in 0 .. PMEnd : Give(t, a)
    \/ Refuse(t)
    \/ \E x \in blocks : Drop(t, x)
    \/ Discard(t)
    \/ Return(t)

Spec == Init /\ [][Next]_<<blocks, call>>

=============================================================================
