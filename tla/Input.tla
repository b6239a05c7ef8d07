------------------------------- MODULE Input -------------------------------
(***************************************************************************)
(* The keyboard's way into the kernel: kernel/src/devices/input/input.c.   *)
(*                                                                         *)
(* The interrupt handler signals sem_kbdirq; input_task reads codes until  *)
(* there is none left and waits for the next signal; what they type goes   *)
(* through a ring of NEVENTS slots to the task that reads the device.      *)
(* A semaphore is a number of units: Kmt is where they are made.  A        *)
(* critical section of in->lock is a single step.                          *)
(*                                                                         *)
(* The keyboard controller raises its interrupt line when it has a byte to *)
(* read, again after each read that leaves one; an interrupt that is still *)
(* pending when the line is raised again is one interrupt.                 *)
(*                                                                         *)
(* panic() halts the machine.  A definition whose name begins with Faulty  *)
(* is a variant of the one that follows it with a slip in it, which no     *)
(* action uses.                                                            *)
(***************************************************************************)
EXTENDS Keyboard

CONSTANTS
  NEVENTS,    \* slots of the ring
  Used,       \* the codes the keyboard sends
  MaxPresses, \* bound: codes sent
  MaxKbd,     \* bound: codes in the keyboard
  NULL

ASSUME InputAssumption == NEVENTS \in Nat \ {0} /\ Used \subseteq Codes /\ MaxPresses \in Nat /\ MaxKbd \in Nat

VARIABLES
  kbd,         \* codes in the keyboard controller
  irq,         \* is an interrupt of the keyboard pending?
  presses,     \* codes sent
  sem_kbdirq,
  in_pc,       \* input_task: reading codes, in push_event, in sem_wait
  pushed,      \* the event it is pushing
  mods,        \* the flags of input_t
  events, front, rear,  \* the ring
  event_sem,
  popping,     \* is a reader in pop_event past its sem_wait?
  input_halted

keyboardVars == <<kbd, irq, presses>>
taskVars == <<in_pc, pushed, mods>>
ringVars == <<events, front, rear>>
inputVars == <<keyboardVars, sem_kbdirq, taskVars, ringVars, event_sem, popping, input_halted>>

InputTypeOK ==
  /\ kbd \in Seq(Used) /\ irq \in BOOLEAN /\ presses \in 0 .. MaxPresses
  /\ sem_kbdirq \in Nat
  /\ in_pc \in {"read", "push", "signal", "wait"}
  /\ pushed \in Events \cup {NULL} /\ mods \in Modifiers
  /\ events \in [0 .. NEVENTS - 1 -> Events \cup {NULL}]
  /\ front \in 0 .. NEVENTS - 1 /\ rear \in 0 .. NEVENTS - 1
  /\ event_sem \in Nat
  /\ popping \in BOOLEAN
  /\ input_halted \in BOOLEAN

InputInit ==
  /\ kbd = <<>> /\ irq = FALSE /\ presses = 0
  /\ sem_kbdirq = 0
  /\ in_pc = "read" /\ pushed = NULL /\ mods = Released
  /\ events = [i \in 0 .. NEVENTS - 1 |-> NULL] /\ front = 0 /\ rear = 0
  /\ event_sem = 0
  /\ popping = FALSE
  /\ input_halted = FALSE

-----------------------------------------------------------------------------
(* The keyboard and its interrupt *)

Press(code) ==
  /\ presses < MaxPresses /\ Len(kbd) < MaxKbd
  /\ presses' = presses + 1
  /\ kbd' = Append(kbd, code)
  /\ irq' = (irq \/ kbd = <<>>)
  /\ UNCHANGED <<sem_kbdirq, taskVars, ringVars, event_sem, popping, input_halted>>

(* It wakes a task that is asleep and is lost on one that is about to sleep. *)
FaultyNotify ==
  /\ irq
  /\ irq' = FALSE
  /\ sem_kbdirq' \in IF in_pc = "wait" THEN {sem_kbdirq, sem_kbdirq + 1} ELSE {sem_kbdirq}
  /\ UNCHANGED <<kbd, presses, taskVars, ringVars, event_sem, popping, input_halted>>

input_notify ==
  /\ irq
  /\ irq' = FALSE
  /\ sem_kbdirq' = sem_kbdirq + 1
  /\ UNCHANGED <<kbd, presses, taskVars, ringVars, event_sem, popping, input_halted>>

-----------------------------------------------------------------------------
(* input_task *)

NoKey ==
  /\ in_pc = "read"
  /\ kbd = <<>>
  /\ in_pc' = "wait"
  /\ UNCHANGED <<keyboardVars, sem_kbdirq, pushed, mods, ringVars, event_sem, popping, input_halted>>

ReadKey ==
  LET code == Head(kbd)
  IN /\ in_pc = "read"
     /\ kbd # <<>>
     /\ kbd' = Tail(kbd)
     /\ irq' = (irq \/ Tail(kbd) # <<>>)
     /\ mods' = After(mods, code)
     /\ pushed' = IF Types(code) THEN EventOf(mods, code.key) ELSE NULL
     /\ in_pc' = IF Types(code) THEN "push" ELSE IF code.key = "OTHER" THEN "wait" ELSE "read"
     /\ UNCHANGED <<presses, sem_kbdirq, ringVars, event_sem, popping, input_halted>>

WaitIrq ==
  /\ in_pc = "wait"
  /\ sem_kbdirq > 0
  /\ sem_kbdirq' = sem_kbdirq - 1
  /\ in_pc' = "read"
  /\ UNCHANGED <<keyboardVars, pushed, mods, ringVars, event_sem, popping, input_halted>>

Following(i) == (i + 1) % NEVENTS

PushEvent ==
  /\ in_pc = "push"
  /\ IF Following(rear) = front
     THEN /\ input_halted' = TRUE
          /\ UNCHANGED <<ringVars, taskVars>>
     ELSE /\ events' = [events EXCEPT ![rear] = pushed]
          /\ rear' = Following(rear)
          /\ in_pc' = "signal"
          /\ pushed' = NULL
          /\ UNCHANGED <<front, mods, input_halted>>
  /\ UNCHANGED <<keyboardVars, sem_kbdirq, event_sem, popping>>

SignalEvent ==
  /\ in_pc = "signal"
  /\ event_sem' = event_sem + 1
  /\ in_pc' = "read"
  /\ UNCHANGED <<keyboardVars, sem_kbdirq, pushed, mods, ringVars, popping, input_halted>>

-----------------------------------------------------------------------------
(* pop_event, for the one task that reads the device *)

WaitEvent ==
  /\ ~popping
  /\ event_sem > 0
  /\ event_sem' = event_sem - 1
  /\ popping' = TRUE
  /\ UNCHANGED <<keyboardVars, sem_kbdirq, taskVars, ringVars, input_halted>>

FaultyPopEvent ==
  /\ popping
  /\ popping' = FALSE
  /\ UNCHANGED <<keyboardVars, sem_kbdirq, taskVars, ringVars, event_sem, input_halted>>

PopEvent ==
  /\ popping
  /\ IF rear = front
     THEN input_halted' = TRUE /\ UNCHANGED <<front, popping>>
     ELSE front' = Following(front) /\ popping' = FALSE /\ UNCHANGED input_halted
  /\ UNCHANGED <<keyboardVars, sem_kbdirq, taskVars, events, rear, event_sem>>

-----------------------------------------------------------------------------

(* The events in the ring, first to last. *)
Ring == [i \in 1 .. (rear - front + NEVENTS) % NEVENTS |-> events[(front + i - 1) % NEVENTS]]

(* Every event in the ring has its unit of event_sem, or is about to get it, or
   the reader that is to take it has had it: nothing is left behind, and
   pop_event never finds the ring empty. *)
EventsCounted ==
  ~input_halted =>
    Len(Ring) = event_sem + (IF in_pc = "signal" THEN 1 ELSE 0) + (IF popping THEN 1 ELSE 0)

(* input_task does not sleep on a code: when it waits and the keyboard has one,
   a signal or the interrupt that sends one is on its way. *)
NoKeyForgotten == in_pc = "wait" /\ kbd # <<>> => sem_kbdirq > 0 \/ irq

=============================================================================
