---------------------------- MODULE SemaphoreAbs ----------------------------
(***************************************************************************)
(* What the kernel promises its tasks: each is a process of its own, which *)
(* interrupts, switches and processors do not show, and a semaphore is a   *)
(* number of units with a queue of tasks that wait for one.                *)
(***************************************************************************)
EXTENDS Integers, Sequences

CONSTANTS Tasks, Sems, KbdSem, InitCount

VARIABLES
  pc,     \* is the task in code of its own, or in a sem_wait that found no unit?
  units,  \* units a semaphore has to give
  queue   \* tasks waiting for a unit, in the order they came

Queued(t) == \E s \in Sems : \E i \in DOMAIN queue[s] : queue[s][i] = t

Init ==
  /\ pc = [t \in Tasks |-> "user"]
  /\ units = InitCount
  /\ queue = [s \in Sems |-> <<>>]

Take(t, s) ==
  /\ pc[t] = "user"
  /\ units[s] > 0
  /\ units' = [units EXCEPT ![s] = @ - 1]
  /\ UNCHANGED <<pc, queue>>

Block(t, s) ==
  /\ pc[t] = "user"
  /\ units[s] = 0
  /\ pc' = [pc EXCEPT ![t] = "blocked"]
  /\ queue' = [queue EXCEPT ![s] = Append(@, t)]
  /\ UNCHANGED units

(* A unit goes to the task that has waited longest, or is kept. *)
Give(s) ==
  /\ IF queue[s] # <<>>
     THEN /\ queue' = [queue EXCEPT ![s] = Tail(@)]
          /\ UNCHANGED units
     ELSE /\ units' = [units EXCEPT ![s] = @ + 1]
          /\ UNCHANGED queue
  /\ UNCHANGED pc

Signal(t, s) == pc[t] = "user" /\ Give(s)

(* The keyboard interrupts no task in particular. *)
Interrupt == Give(KbdSem)

Return(t) ==
  /\ pc[t] = "blocked"
  /\ ~Queued(t)
  /\ pc' = [pc EXCEPT ![t] = "user"]
  /\ UNCHANGED <<units, queue>>

Next ==
  \/ \E t \in Tasks : Return(t) \/ \E s \in Sems : Take(t, s) \/ Block(t, s) \/ Signal(t, s)
  \/ Interrupt

Spec == Init /\ [][Next]_<<pc, units, queue>>

=============================================================================
