------------------------------- MODULE KvAbs -------------------------------
(***************************************************************************)
(* A key-value store that is consistent after a crash: what is left of it  *)
(* is what some of the puts had made of it, in the order they were made,   *)
(* up to a last one.                                                       *)
(***************************************************************************)
EXTENDS Integers, Sequences

CONSTANTS Threads, Keys, Values, NULL

VARIABLES
  log,    \* the puts in effect, in order
  answer  \* what each thread's get returned

Lookup(k) ==
  LET Found == {i \in DOMAIN log : log[i].key = k}
  IN IF Found = {} THEN NULL
     ELSE log[CHOOSE i \in Found : \A j \in Found : j <= i].value

Init ==
  /\ log = <<>>
  /\ answer = [t \in Threads |-> NULL]

Put(k, v) ==
  /\ log' = Append(log, [key |-> k, value |-> v])
  /\ UNCHANGED answer

Get(t, k) ==
  /\ answer' = [answer EXCEPT ![t] = Lookup(k)]
  /\ UNCHANGED log

(* The thread goes on to another call. *)
Forget(t) ==
  /\ answer' = [answer EXCEPT ![t] = NULL]
  /\ UNCHANGED log

Crash ==
  /\ \E n \in 0 .. Len(log) : log' = SubSeq(log, 1, n)
  /\ answer' = [t \in Threads |-> NULL]

Next ==
  \/ \E k \in Keys, v \in Values : Put(k, v)
  \/ \E t \in Threads : Forget(t) \/ \E k \in Keys : Get(t, k)
  \/ Crash

Spec == Init /\ [][Next]_<<log, answer>>

=============================================================================
