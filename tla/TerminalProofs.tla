--------------------------- MODULE TerminalProofs ---------------------------
(***************************************************************************)
(* Proofs about keyboard, input device and terminals together.  First the  *)
(* keyboard's way into the kernel, for a ring of any size, any set of      *)
(* codes and any number of them: no event and no code is left behind,      *)
(* whatever interrupts and tasks do.  Then the terminals, for queues of    *)
(* any size and any number of them: every variable keeps its type, which   *)
(* needs tty_read to find the end of a line in its queue, and tty_task to  *)
(* be handed events, never a slot of the ring nobody filled.               *)
(***************************************************************************)
EXTENDS Terminal, FiniteSetTheorems, TLAPS

-----------------------------------------------------------------------------
(* The ring *)

(* A remainder, for what is less than twice the divisor. *)
LEMMA Remainder ==
  ASSUME NEW n \in Nat \ {0}, NEW a \in 0 .. 2 * n - 1
  PROVE  a % n = IF a < n THEN a ELSE a - n
<1>1. CASE a < n
  BY <1>1
<1>2. CASE a >= n
  <2>1. a = 1 * n + (a - n) /\ a - n \in 0 .. n - 1
    BY <1>2
  <2>2. QED
    BY <1>2, <2>1
<1>3. QED
  BY <1>1, <1>2

(* How many events the ring holds. *)
Occupied(f, r) == IF r >= f THEN r - f ELSE r - f + NEVENTS

LEMMA RingLength ==
  ASSUME NEW f \in 0 .. NEVENTS - 1, NEW r \in 0 .. NEVENTS - 1
  PROVE  (r - f + NEVENTS) % NEVENTS = Occupied(f, r)
<1> DEFINE a == r - f + NEVENTS
<1>1. a \in 0 .. 2 * NEVENTS - 1 /\ (a < NEVENTS <=> r < f) /\ a - NEVENTS = r - f
  BY InputAssumption
<1> HIDE DEF a
<1>2. a % NEVENTS = IF a < NEVENTS THEN a ELSE a - NEVENTS
  BY <1>1, Remainder, InputAssumption
<1>3. QED
  BY <1>1, <1>2 DEF Occupied, a

LEMMA NextSlot ==
  ASSUME NEW i \in 0 .. NEVENTS - 1
  PROVE  Following(i) = IF i = NEVENTS - 1 THEN 0 ELSE i + 1
<1> DEFINE a == i + 1
<1>1. a \in 0 .. 2 * NEVENTS - 1 /\ (a < NEVENTS <=> i # NEVENTS - 1) /\ a <= NEVENTS
  BY InputAssumption
<1> HIDE DEF a
<1>2. a % NEVENTS = IF a < NEVENTS THEN a ELSE a - NEVENTS
  BY <1>1, Remainder, InputAssumption
<1>3. QED
  BY <1>1, <1>2, InputAssumption DEF Following, a

LEMMA RingLen ==
  ASSUME InputTypeOK
  PROVE  Len(Ring) = Occupied(front, rear)
<1>1. (rear - front + NEVENTS) % NEVENTS = Occupied(front, rear)
  BY RingLength DEF InputTypeOK
<1>2. Occupied(front, rear) \in Nat
  BY InputAssumption DEF InputTypeOK, Occupied
<1>3. QED
  BY <1>1, <1>2 DEF Ring

(* One more at the end, unless that makes a full ring look empty; one less in front. *)
LEMMA OneMore ==
  ASSUME NEW f \in 0 .. NEVENTS - 1, NEW r \in 0 .. NEVENTS - 1, Following(r) # f
  PROVE  Following(r) \in 0 .. NEVENTS - 1 /\ Occupied(f, Following(r)) = Occupied(f, r) + 1
  BY NextSlot, InputAssumption DEF Occupied

LEMMA OneLess ==
  ASSUME NEW f \in 0 .. NEVENTS - 1, NEW r \in 0 .. NEVENTS - 1, r # f
  PROVE  Following(f) \in 0 .. NEVENTS - 1 /\ Occupied(Following(f), r) = Occupied(f, r) - 1
  BY NextSlot, InputAssumption DEF Occupied

(* EventsCounted, in numbers. *)
Counted ==
  ~input_halted =>
    Occupied(front, rear) = event_sem + (IF in_pc = "signal" THEN 1 ELSE 0)
                                      + (IF popping THEN 1 ELSE 0)

LEMMA CountedMeans == InputTypeOK => (EventsCounted <=> Counted)
  BY RingLen DEF EventsCounted, Counted

InputInv == InputTypeOK /\ Counted /\ NoKeyForgotten

-----------------------------------------------------------------------------
(* What the keys mean *)

LEMMA AfterType ==
  ASSUME NEW m \in Modifiers, NEW code \in Codes
  PROVE  After(m, code) \in Modifiers
  BY DEF After, Modifiers, Codes

LEMMA EventType ==
  ASSUME NEW m \in Modifiers, NEW key \in Typed
  PROVE  EventOf(m, key) \in Events
<1>1. DOMAIN keymap = {"A", "KEY1", "KEY2", "RETURN", "BACKSPACE"}
  BY DEF keymap
<1>2. keymap[key] \in Chars /\ keymap_shift[key] \in Chars
  BY DEF Chars, Typed
<1>3. QED
  BY <1>2 DEF EventOf, Events, Held

-----------------------------------------------------------------------------
(* The steps *)

LEMMA InitInput == InputInit => InputInv
<1> SUFFICES ASSUME InputInit PROVE InputInv
  OBVIOUS
<1>1. InputTypeOK
  BY InputAssumption DEF InputInit, InputTypeOK, Released, Modifiers
<1>2. Counted /\ NoKeyForgotten
  BY InputAssumption DEF InputInit, Counted, NoKeyForgotten, Occupied
<1>3. QED
  BY <1>1, <1>2 DEF InputInv

LEMMA PressInv ==
  ASSUME InputInv, NEW code \in Used, Press(code)
  PROVE  InputInv'
<1> USE DEF InputInv, Press, taskVars, ringVars
<1>1. InputTypeOK'
  BY InputAssumption DEF InputTypeOK
<1>2. Counted'
  BY DEF Counted, Occupied
<1>3. NoKeyForgotten'
  BY DEF NoKeyForgotten, InputTypeOK
<1>4. QED
  BY <1>1, <1>2, <1>3

LEMMA NotifyInv ==
  ASSUME InputInv, input_notify
  PROVE  InputInv'
<1> USE DEF InputInv, input_notify, taskVars, ringVars
<1>1. InputTypeOK'
  <2>1. irq' = FALSE /\ sem_kbdirq' = sem_kbdirq + 1 /\ sem_kbdirq \in Nat
    BY DEF InputTypeOK
  <2>2. UNCHANGED <<kbd, presses, in_pc, pushed, mods, events, front, rear, event_sem, popping, input_halted>>
    OBVIOUS
  <2> HIDE DEF input_notify
  <2>3. irq' \in BOOLEAN
    BY <2>1, Zenon
  <2>4. sem_kbdirq' \in Nat
    BY <2>1
  <2>5. QED
    BY <2>2, <2>3, <2>4 DEF InputTypeOK
<1>2. Counted'
  BY DEF Counted, Occupied
<1>3. NoKeyForgotten'
  BY DEF NoKeyForgotten, InputTypeOK
<1>4. QED
  BY <1>1, <1>2, <1>3

LEMMA NoKeyInv ==
  ASSUME InputInv, NoKey
  PROVE  InputInv'
<1> USE DEF InputInv, NoKey, keyboardVars, ringVars
<1>1. InputTypeOK'
  BY DEF InputTypeOK
<1>2. Counted'
  BY DEF Counted, Occupied
<1>3. NoKeyForgotten'
  BY DEF NoKeyForgotten
<1>4. QED
  BY <1>1, <1>2, <1>3

LEMMA ReadKeyInv ==
  ASSUME InputInv, ReadKey
  PROVE  InputInv'
<1> DEFINE code == Head(kbd)
<1>1. /\ in_pc = "read" /\ kbd # <<>>
      /\ kbd' = Tail(kbd)
      /\ irq' = (irq \/ Tail(kbd) # <<>>)
      /\ mods' = After(mods, code)
      /\ pushed' = IF Types(code) THEN EventOf(mods, code.key) ELSE NULL
      /\ in_pc' = IF Types(code) THEN "push" ELSE IF code.key = "OTHER" THEN "wait" ELSE "read"
      /\ UNCHANGED <<presses, sem_kbdirq, events, front, rear, event_sem, popping, input_halted>>
  BY DEF ReadKey, ringVars
<1>2. code \in Codes /\ kbd' \in Seq(Used)
  BY <1>1, InputAssumption DEF InputInv, InputTypeOK
<1> HIDE DEF code
<1>3. mods' \in Modifiers /\ pushed' \in Events \cup {NULL}
  BY <1>1, <1>2, AfterType, EventType DEF InputInv, InputTypeOK, Types
<1>4. InputTypeOK'
  BY <1>1, <1>2, <1>3 DEF InputInv, InputTypeOK
<1>5. Counted'
  BY <1>1 DEF InputInv, Counted, Occupied
<1>6. NoKeyForgotten'
  BY <1>1 DEF InputInv, NoKeyForgotten
<1>7. QED
  BY <1>4, <1>5, <1>6 DEF InputInv

LEMMA WaitIrqInv ==
  ASSUME InputInv, WaitIrq
  PROVE  InputInv'
<1> USE DEF InputInv, WaitIrq, keyboardVars, ringVars
<1>1. InputTypeOK'
  BY DEF InputTypeOK
<1>2. Counted'
  BY DEF Counted, Occupied
<1>3. NoKeyForgotten'
  BY DEF NoKeyForgotten
<1>4. QED
  BY <1>1, <1>2, <1>3

LEMMA PushEventInv ==
  ASSUME InputInv, PushEvent
  PROVE  InputInv'
<1> USE DEF InputInv, keyboardVars, ringVars, taskVars
<1>1. CASE Following(rear) = front
  <2>1. /\ input_halted' = TRUE
        /\ UNCHANGED <<kbd, irq, presses, sem_kbdirq, in_pc, pushed, mods, events, front, rear,
                       event_sem, popping>>
    BY <1>1 DEF PushEvent
  <2>2. QED
    BY <2>1 DEF InputTypeOK, Counted, NoKeyForgotten
<1>2. CASE Following(rear) # front
  <2>1. /\ in_pc = "push" /\ in_pc' = "signal"
        /\ events' = [events EXCEPT ![rear] = pushed]
        /\ rear' = Following(rear)
        /\ pushed' = NULL
        /\ UNCHANGED <<kbd, irq, presses, sem_kbdirq, mods, front, event_sem, popping, input_halted>>
    BY <1>2 DEF PushEvent
  <2>2. rear' \in 0 .. NEVENTS - 1 /\ Occupied(front, rear') = Occupied(front, rear) + 1
    BY <1>2, <2>1, OneMore DEF InputTypeOK
  <2>3. InputTypeOK'
    BY <2>1, <2>2 DEF InputTypeOK
  <2>4. Counted'
    <3> SUFFICES ASSUME ~input_halted'
                 PROVE  Occupied(front, rear') = event_sem + 1 + (IF popping THEN 1 ELSE 0)
      BY <2>1 DEF Counted, Occupied
    <3>1. QED
      BY <2>1, <2>2 DEF Counted, InputTypeOK
  <2>5. NoKeyForgotten'
    BY <2>1 DEF NoKeyForgotten
  <2>6. QED
    BY <2>3, <2>4, <2>5
<1>3. QED
  BY <1>1, <1>2

LEMMA SignalEventInv ==
  ASSUME InputInv, SignalEvent
  PROVE  InputInv'
<1> USE DEF InputInv, SignalEvent, keyboardVars, ringVars
<1>1. InputTypeOK'
  BY DEF InputTypeOK
<1>2. Counted'
  BY DEF Counted, Occupied, InputTypeOK
<1>3. NoKeyForgotten'
  BY DEF NoKeyForgotten
<1>4. QED
  BY <1>1, <1>2, <1>3

LEMMA WaitEventInv ==
  ASSUME InputInv, WaitEvent
  PROVE  InputInv'
<1> USE DEF InputInv, WaitEvent, keyboardVars, ringVars, taskVars
<1>1. InputTypeOK'
  BY DEF InputTypeOK
<1>2. Counted'
  BY DEF Counted, Occupied, InputTypeOK
<1>3. NoKeyForgotten'
  BY DEF NoKeyForgotten
<1>4. QED
  BY <1>1, <1>2, <1>3

(* The ring is not empty: the reader's unit of event_sem stands for an event. *)
LEMMA PopEventFinds ==
  ASSUME InputInv, ~input_halted, popping
  PROVE  rear # front
<1>1. Occupied(front, rear) > 0
  BY DEF InputInv, Counted, InputTypeOK
<1>2. QED
  BY <1>1 DEF InputInv, InputTypeOK, Occupied

LEMMA PopEventInv ==
  ASSUME InputInv, ~input_halted, PopEvent
  PROVE  InputInv' /\ ~input_halted'
<1> USE DEF InputInv, keyboardVars, ringVars, taskVars
<1>1. rear # front /\ popping
  BY PopEventFinds DEF PopEvent
<1>2. /\ front' = Following(front) /\ popping' = FALSE
      /\ UNCHANGED <<kbd, irq, presses, sem_kbdirq, in_pc, pushed, mods, events, rear, event_sem,
                     input_halted>>
  BY <1>1 DEF PopEvent
<1>3. front' \in 0 .. NEVENTS - 1 /\ Occupied(front', rear) = Occupied(front, rear) - 1
  BY <1>1, <1>2, OneLess DEF InputTypeOK
<1>4. InputTypeOK'
  BY <1>2, <1>3 DEF InputTypeOK
<1>5. Counted'
  <2> SUFFICES Occupied(front', rear) = event_sem + (IF in_pc = "signal" THEN 1 ELSE 0)
    BY <1>2 DEF Counted, Occupied, InputTypeOK
  <2>1. QED
    BY <1>1, <1>3 DEF Counted, InputTypeOK
<1>6. NoKeyForgotten'
  BY <1>2 DEF NoKeyForgotten
<1>7. QED
  BY <1>2, <1>4, <1>5, <1>6

LEMMA StillInv ==
  ASSUME InputInv, UNCHANGED inputVars
  PROVE  InputInv'
  BY DEF InputInv, inputVars, keyboardVars, ringVars, taskVars, InputTypeOK, Counted, Occupied,
     NoKeyForgotten

LEMMA NextInput ==
  ASSUME InputInv, [Next]_vars
  PROVE  InputInv'
<1>1. CASE ~Halted /\ Device
  BY <1>1, PressInv, NotifyInv, NoKeyInv, ReadKeyInv, WaitIrqInv, PushEventInv, SignalEventInv
     DEF Device
<1>2. CASE ~Halted /\ GetEvent
  BY <1>2, WaitEventInv, PopEventInv DEF GetEvent, Halted
<1>3. CASE UNCHANGED inputVars
  BY <1>3, StillInv
<1>4. QED
  BY <1>1, <1>2, <1>3 DEF Next, vars

-----------------------------------------------------------------------------
(* Theorems *)

(* The inductive invariant of the keyboard's interrupt, input_task and the ring. *)
THEOREM InputInvariant == Spec => []InputInv
<1>1. Init => InputInv
  BY InitInput DEF Init
<1>2. InputInv /\ [Next]_vars => InputInv'
  BY NextInput
<1>3. QED
  BY <1>1, <1>2, PTL DEF Spec

(* The types of input.c's variables; the ring's indexes stay inside it. *)
THEOREM InputTypes == Spec => []InputTypeOK
  BY InputInvariant, PTL DEF InputInv

(* Every event of the ring has its unit of event_sem or a task that accounts for it. *)
THEOREM Counts == Spec => []EventsCounted
<1>1. InputInv => EventsCounted
  BY CountedMeans DEF InputInv
<1>2. QED
  BY <1>1, InputInvariant, PTL

(* input_task does not sleep on a code without a signal or an interrupt to come. *)
THEOREM Remembered == Spec => []NoKeyForgotten
  BY InputInvariant, PTL DEF InputInv

(* pop_event's panic on an empty ring cannot happen: the one reader of the
   device finds what sem_wait promised. *)
THEOREM PopFinds == Spec => [](~input_halted /\ popping => rear # front)
<1>1. InputInv => (~input_halted /\ popping => rear # front)
  BY PopEventFinds
<1>2. QED
  BY <1>1, InputInvariant, PTL

-----------------------------------------------------------------------------
(* The queue of a terminal *)

(* What is at rear is '\0', so that a search for the end of a line ends. *)
Ended(q) == q.buf[q.rear] = "nul"

LEMMA SlotInRange ==
  ASSUME NEW i \in Int
  PROVE  i % SZ \in 0 .. SZ - 1
  BY TtyAssumption

(* Every slot is so many slots after front. *)
LEMMA SlotReached ==
  ASSUME NEW f \in 0 .. SZ - 1, NEW r \in 0 .. SZ - 1
  PROVE  \E i \in 0 .. SZ - 1 : (f + i) % SZ = r
<1>1. CASE f <= r
  <2>1. r - f \in 0 .. SZ - 1 /\ f + (r - f) = r
    BY <1>1, TtyAssumption
  <2>2. r % SZ = r
    BY Remainder, TtyAssumption
  <2>3. QED
    BY <2>1, <2>2
<1>2. CASE r < f
  <2> DEFINE i == r - f + SZ
  <2>1. i \in 0 .. SZ - 1 /\ f + i = r + SZ
    BY <1>2, TtyAssumption
  <2>2. (r + SZ) % SZ = r
    <3> DEFINE a == r + SZ
    <3>1. a \in 0 .. 2 * SZ - 1 /\ ~(a < SZ) /\ a - SZ = r
      BY TtyAssumption
    <3> HIDE DEF a
    <3>2. a % SZ = r
      BY <3>1, Remainder, TtyAssumption
    <3>3. QED
      BY <3>2 DEF a
  <2>3. QED
    BY <2>1, <2>2
<1>3. QED
  BY <1>1, <1>2

(* The order of the natural numbers is well founded. *)
LEMMA OrderOfNat == \E R : IsWellFoundedOn(R, Nat) /\ \A x, y \in Nat : <<x, y>> \in R <=> x < y
<1>1. \A x, y \in Nat : <<x, y>> \in OpToRel(<, Nat) <=> x < y
  BY DEF OpToRel
<1>2. QED
  BY <1>1, NatLessThanWellFounded, Zenon

(* A set of natural numbers has a least one. *)
LEMMA LeastNumber ==
  ASSUME NEW S, S \subseteq Nat, S # {}
  PROVE  \E n \in S : \A m \in S : n <= m
<1>1. PICK R : IsWellFoundedOn(R, Nat) /\ \A x, y \in Nat : <<x, y>> \in R <=> x < y
  BY OrderOfNat
<1>2. IsWellFoundedOn(R, Nat)
  BY <1>1
<1>3. \A T, U, Q : IsWellFoundedOn(Q, U) /\ T \subseteq U /\ T # {} =>
        \E x \in T : \A y \in T : ~(<<y, x>> \in Q)
  BY WFMin, Zenon
<1>4. \E x \in S : \A y \in S : ~(<<y, x>> \in R)
  BY <1>2, <1>3, Zenon
<1>5. PICK x \in S : \A y \in S : ~(<<y, x>> \in R)
  BY <1>4
<1>6. \A y \in S : ~(y < x)
  BY <1>1, <1>5
<1>7. QED
  BY <1>6

LEMMA FirstLenFound ==
  ASSUME NEW q \in Queues, Ended(q)
  PROVE  /\ FirstLen(q) \in 0 .. SZ - 1
         /\ At(q, FirstLen(q)) = "nul"
         /\ \A i \in 0 .. FirstLen(q) - 1 : At(q, i) # "nul"
<1> DEFINE S == {n \in 0 .. SZ - 1 : At(q, n) = "nul"}
<1>1. S \subseteq Nat
  BY TtyAssumption
<1>2. S # {}
  <2>1. PICK i \in 0 .. SZ - 1 : (q.front + i) % SZ = q.rear
    BY SlotReached DEF Queues
  <2>2. QED
    BY <2>1 DEF Ended, At
<1>3. PICK n \in S : \A m \in S : n <= m
  BY <1>1, <1>2, LeastNumber
<1>4. n \in 0 .. SZ - 1 /\ At(q, n) = "nul" /\ \A i \in 0 .. n - 1 : At(q, i) # "nul"
  BY <1>3, TtyAssumption
<1> HIDE DEF S
<1>5. QED
  BY <1>4 DEF FirstLen

LEMMA CharsKnown == {"nul", "newline", "backspace"} \subseteq Chars
<1>1. /\ "A" \in Typed /\ "RETURN" \in Typed /\ "BACKSPACE" \in Typed
      /\ keymap["RETURN"] = "newline" /\ keymap["BACKSPACE"] = "backspace"
      /\ keymap_shift["RETURN"] = "nul"
  BY DEF Typed, keymap, keymap_shift
<1>2. QED
  BY <1>1 DEF Chars

LEMMA EnqueueType ==
  ASSUME NEW q \in Queues, NEW c \in Chars
  PROVE  tty_enqueue(q, c) \in Queues /\ Ended(tty_enqueue(q, c))
<1>1. (q.rear + 1) % SZ \in 0 .. SZ - 1
  BY SlotInRange DEF Queues
<1>2. QED
  BY <1>1, CharsKnown DEF tty_enqueue, Queues, Ended

LEMMA PopBackType ==
  ASSUME NEW q \in Queues, Ended(q)
  PROVE  tty_pop_back(q) \in Queues /\ Ended(tty_pop_back(q))
<1>1. Back(q) \in 0 .. SZ - 1
  BY TtyAssumption DEF Back, Queues
<1>2. QED
  BY <1>1, CharsKnown DEF tty_pop_back, Queues, Ended

LEMMA CookedType ==
  ASSUME NEW q \in Queues, Ended(q), NEW c \in Chars
  PROVE  Cooked(q, c) \in Queues /\ Ended(Cooked(q, c))
<1>1. tty_enqueue(q, c) \in Queues
  BY EnqueueType
<1>2. tty_enqueue(tty_enqueue(q, c), "nul") \in Queues /\ Ended(tty_enqueue(tty_enqueue(q, c), "nul"))
  BY <1>1, EnqueueType, CharsKnown
<1>3. CASE c = "newline"
  BY <1>2, <1>3 DEF Cooked
<1>4. CASE c = "backspace"
  BY <1>4, PopBackType DEF Cooked
<1>5. CASE c \notin {"newline", "backspace"}
  BY <1>5, EnqueueType DEF Cooked
<1>6. QED
  BY <1>3, <1>4, <1>5

LEMMA FirstType ==
  ASSUME NEW q \in Queues, Ended(q)
  PROVE  First(q) \in Seq(Chars)
<1>1. FirstLen(q) \in Nat
  BY FirstLenFound, TtyAssumption
<1>2. \A i \in 1 .. FirstLen(q) : At(q, i - 1) \in Chars
  <2> SUFFICES ASSUME NEW i \in 1 .. FirstLen(q) PROVE At(q, i - 1) \in Chars
    OBVIOUS
  <2>1. q.front + (i - 1) \in Int
    BY <1>1, TtyAssumption DEF Queues
  <2>2. (q.front + (i - 1)) % SZ \in 0 .. SZ - 1
    BY <2>1, SlotInRange
  <2>3. QED
    BY <2>2 DEF At, Queues
<1>3. QED
  BY <1>1, <1>2 DEF First

-----------------------------------------------------------------------------
(* The ring: between front and rear there are events. *)

Within(i) == IF front <= rear THEN front <= i /\ i < rear ELSE front <= i \/ i < rear

Filled ==
  /\ \A i \in 0 .. NEVENTS - 1 : Within(i) => events[i] \in Events
  /\ in_pc = "push" => pushed \in Events

TtyInv == TtyTypeOK /\ \A d \in Ttys : Ended(queue[d])

TerminalInv == InputInv /\ Filled /\ TtyInv

LEMMA EventChar == \A ev \in Events : ev.data \in Chars
  BY DEF Events

LEMMA InitTerminal == Init => TerminalInv
<1> SUFFICES ASSUME Init PROVE TerminalInv
  OBVIOUS
<1>1. InputInv
  BY InitInput DEF Init
<1>2. Filled
  BY InputAssumption DEF Init, InputInit, Filled, Within
<1>3. TtyInv
  <2> DEFINE empty == [buf |-> [i \in 0 .. SZ - 1 |-> "nul"], front |-> 0, rear |-> 0]
  <2>1. 0 \in 0 .. SZ - 1 /\ 1 \in Ttys
    BY TtyAssumption
  <2>2. empty \in Queues /\ Ended(empty)
    BY <2>1, CharsKnown DEF Queues, Ended
  <2>3. queue = [d \in Ttys |-> empty]
    BY DEF Init, TtyInit
  <2> HIDE DEF empty
  <2>4. queue \in [Ttys -> Queues] /\ \A d \in Ttys : Ended(queue[d])
    BY <2>2, <2>3
  <2>5. line \in [Ttys -> Seq(Chars)]
    BY DEF Init, TtyInit
  <2>6. /\ ttydev \in Ttys /\ ch \in Chars \cup {NONE} /\ tty_halted \in BOOLEAN
        /\ cooked \in [Ttys -> Nat] /\ reading \in [Ttys -> BOOLEAN]
    BY <2>1 DEF Init, TtyInit
  <2>7. QED
    BY <2>4, <2>5, <2>6 DEF TtyInv, TtyTypeOK
<1>4. QED
  BY <1>1, <1>2, <1>3 DEF TerminalInv

(* A step that leaves the ring and input_task's event alone. *)
LEMMA FilledStays ==
  ASSUME Filled, UNCHANGED <<events, front, rear, pushed>>, in_pc' = "push" => in_pc = "push"
  PROVE  Filled'
  BY DEF Filled, Within

LEMMA DeviceFilled ==
  ASSUME TerminalInv, Device
  PROVE  Filled'
<1> USE DEF TerminalInv, ringVars, taskVars
<1>1. ASSUME NEW code \in Used, Press(code) PROVE Filled'
  BY <1>1, FilledStays DEF Press
<1>2. CASE input_notify
  BY <1>2, FilledStays DEF input_notify
<1>3. CASE NoKey
  BY <1>3, FilledStays DEF NoKey
<1>4. CASE WaitIrq
  BY <1>4, FilledStays DEF WaitIrq
<1>5. CASE SignalEvent
  BY <1>5, FilledStays DEF SignalEvent
<1>6. CASE ReadKey
  <2>1. /\ UNCHANGED <<events, front, rear>>
        /\ kbd # <<>>
        /\ in_pc' = "push" => Types(Head(kbd)) /\ pushed' = EventOf(mods, Head(kbd).key)
    BY <1>6 DEF ReadKey
  <2>2. mods \in Modifiers /\ Head(kbd) \in Codes
    BY <2>1, InputAssumption DEF InputInv, InputTypeOK
  <2>3. in_pc' = "push" => pushed' \in Events
    BY <2>1, <2>2, EventType DEF Types
  <2>4. QED
    BY <2>1, <2>3 DEF Filled, Within
<1>7. CASE PushEvent
  <2>1. CASE Following(rear) = front
    BY <1>7, <2>1, FilledStays DEF PushEvent
  <2>2. CASE Following(rear) # front
    <3>1. /\ in_pc = "push" /\ in_pc' = "signal"
          /\ events' = [events EXCEPT ![rear] = pushed]
          /\ rear' = Following(rear) /\ front' = front
      BY <1>7, <2>2 DEF PushEvent
    <3>2. rear' = IF rear = NEVENTS - 1 THEN 0 ELSE rear + 1
      BY <3>1, NextSlot DEF InputInv, InputTypeOK
    <3>3. \A i \in 0 .. NEVENTS - 1 : Within(i)' => i = rear \/ Within(i)
      BY <2>2, <3>1, <3>2, InputAssumption DEF Within, InputInv, InputTypeOK
    <3>4. pushed \in Events
      BY <3>1 DEF Filled
    <3>5. QED
      BY <3>1, <3>3, <3>4 DEF Filled, InputInv, InputTypeOK
  <2>3. QED
    BY <2>1, <2>2
<1>8. QED
  BY <1>1, <1>2, <1>3, <1>4, <1>5, <1>6, <1>7 DEF Device

LEMMA GetEventKeeps ==
  ASSUME TerminalInv, ~Halted, GetEvent
  PROVE  Filled' /\ TtyInv'
<1> USE DEF TerminalInv
<1>1. CASE WaitEvent /\ UNCHANGED ttyVars
  <2>1. Filled'
    BY <1>1, FilledStays DEF WaitEvent, ringVars, taskVars
  <2>2. TtyInv'
    BY <1>1 DEF TtyInv, TtyTypeOK, ttyVars
  <2>3. QED
    BY <2>1, <2>2
<1>2. CASE PopEvent /\ IF input_halted' THEN UNCHANGED ttyVars ELSE Dispatch(events[front])
  <2>1. ~input_halted /\ popping
    BY <1>2 DEF Halted, PopEvent
  <2>2. rear # front /\ ~input_halted'
    BY <1>2, <2>1, PopEventFinds, PopEventInv
  <2>3. /\ front' = Following(front)
        /\ UNCHANGED <<events, rear, pushed, in_pc>>
        /\ Dispatch(events[front])
    BY <1>2, <2>2 DEF PopEvent, taskVars
  <2>4. front' = IF front = NEVENTS - 1 THEN 0 ELSE front + 1
    BY <2>3, NextSlot DEF InputInv, InputTypeOK
  <2>5. \A i \in 0 .. NEVENTS - 1 : Within(i)' => Within(i)
    BY <2>2, <2>3, <2>4, InputAssumption DEF Within, InputInv, InputTypeOK
  <2>6. Filled'
    BY <2>3, <2>5 DEF Filled
  <2>7. events[front] \in Events
    BY <2>2 DEF Filled, Within, InputInv, InputTypeOK
  <2>8. ch' \in Chars \cup {NONE}
    BY <2>3, <2>7, EventChar DEF Dispatch
  <2>9. ttydev' \in Ttys
    BY <2>3 DEF Dispatch, Switched, TtyInv, TtyTypeOK
  <2>10. TtyInv'
    BY <2>3, <2>8, <2>9 DEF Dispatch, TtyInv, TtyTypeOK
  <2>11. QED
    BY <2>6, <2>10
<1>3. QED
  BY <1>1, <1>2 DEF GetEvent

LEMMA CookKeeps ==
  ASSUME TtyInv, tty_cook
  PROVE  TtyInv'
<1> USE DEF TtyInv, TtyTypeOK
<1>1. CASE Overflows(queue[ttydev], ch)
  BY <1>1 DEF tty_cook
<1>2. CASE ~Overflows(queue[ttydev], ch)
  <2>1. /\ ch \in Chars
        /\ queue' = [queue EXCEPT ![ttydev] = Cooked(queue[ttydev], ch)]
        /\ cooked' = IF ch = "newline" THEN [cooked EXCEPT ![ttydev] = cooked[ttydev] + 1] ELSE cooked
        /\ ch' = NONE
        /\ UNCHANGED <<ttydev, reading, line, tty_halted>>
    BY <1>2 DEF tty_cook
  <2>2. Cooked(queue[ttydev], ch) \in Queues /\ Ended(Cooked(queue[ttydev], ch))
    BY <2>1, CookedType
  <2>3. queue' \in [Ttys -> Queues] /\ \A d \in Ttys : Ended(queue'[d])
    BY <2>1, <2>2
  <2>4. cooked' \in [Ttys -> Nat]
    BY <2>1
  <2>5. QED
    BY <2>1, <2>3, <2>4
<1>3. QED
  BY <1>1, <1>2

LEMMA WaitCookedKeeps ==
  ASSUME TtyInv, NEW d \in Ttys, WaitCooked(d)
  PROVE  TtyInv'
  BY DEF TtyInv, TtyTypeOK, WaitCooked

LEMMA ReadLineKeeps ==
  ASSUME TtyInv, NEW d \in Ttys, ReadLine(d)
  PROVE  TtyInv'
<1> DEFINE q == queue[d]
<1> USE DEF TtyInv, TtyTypeOK
<1>1. q \in Queues /\ Ended(q)
  OBVIOUS
<1>2. First(q) \in Seq(Chars) /\ FirstLen(q) \in Int
  BY <1>1, FirstType, FirstLenFound
<1>3. (q.front + FirstLen(q) + 1) % SZ \in 0 .. SZ - 1
  <2>1. q.front \in 0 .. SZ - 1
    BY <1>1 DEF Queues
  <2> DEFINE k == q.front + FirstLen(q) + 1
  <2>2. k \in Int
    BY <1>2, <2>1
  <2> HIDE DEF k, q
  <2>3. k % SZ \in 0 .. SZ - 1
    BY <2>2, SlotInRange
  <2>4. QED
    BY <2>3 DEF k
<1> DEFINE r == [q EXCEPT !.front = (q.front + FirstLen(q) + 1) % SZ]
<1>4. r \in Queues /\ Ended(r)
  BY <1>1, <1>3 DEF Queues, Ended
<1>5. /\ line' = [line EXCEPT ![d] = First(q)]
      /\ queue' = [queue EXCEPT ![d] = r]
      /\ reading' = [reading EXCEPT ![d] = FALSE]
      /\ UNCHANGED <<ttydev, ch, cooked, tty_halted>>
  BY DEF ReadLine
<1> HIDE DEF q, r
<1>6. QED
  BY <1>2, <1>4, <1>5

LEMMA NextTerminal ==
  ASSUME TerminalInv, [Next]_vars
  PROVE  TerminalInv'
<1> USE DEF TerminalInv
<1>1. InputInv'
  BY NextInput
<1>2. CASE ~Halted /\ Device /\ UNCHANGED ttyVars
  BY <1>1, <1>2, DeviceFilled DEF TtyInv, TtyTypeOK, ttyVars
<1>3. CASE ~Halted /\ GetEvent
  BY <1>1, <1>3, GetEventKeeps
<1>4. CASE ~Halted /\ TtyNext /\ UNCHANGED inputVars
  <2>1. Filled'
    BY <1>4, FilledStays DEF inputVars, ringVars, taskVars
  <2>2. TtyInv'
    BY <1>4, CookKeeps, WaitCookedKeeps, ReadLineKeeps DEF TtyNext
  <2>3. QED
    BY <1>1, <2>1, <2>2
<1>5. CASE UNCHANGED vars
  <2>1. Filled'
    BY <1>5, FilledStays DEF vars, inputVars, ringVars, taskVars
  <2>2. TtyInv'
    BY <1>5 DEF TtyInv, TtyTypeOK, vars, ttyVars
  <2>3. QED
    BY <1>1, <2>1, <2>2
<1>6. QED
  BY <1>2, <1>3, <1>4, <1>5 DEF Next

-----------------------------------------------------------------------------
(* Theorems *)

(* The inductive invariant of keyboard, input device and terminals. *)
THEOREM TerminalInvariant == Spec => []TerminalInv
  BY InitTerminal, NextTerminal, PTL DEF Spec

(* Every variable of input.c and tty.c keeps its type: the indexes of ring and queues
   stay inside them, tty_task gets events alone, tty_read lines of characters. *)
THEOREM TypesKept == Spec => []TypeOK
<1>1. TerminalInv => TypeOK
  BY DEF TerminalInv, InputInv, TtyInv, TypeOK
<1>2. QED
  BY <1>1, TerminalInvariant, PTL

(* The search for the end of the first line stops inside the queue, at a '\0'. *)
THEOREM LineFound ==
  Spec => [](\A d \in Ttys : FirstLen(queue[d]) \in 0 .. SZ - 1
                              /\ At(queue[d], FirstLen(queue[d])) = "nul")
<1>1. TerminalInv => \A d \in Ttys : FirstLen(queue[d]) \in 0 .. SZ - 1
                                      /\ At(queue[d], FirstLen(queue[d])) = "nul"
  BY FirstLenFound DEF TerminalInv, TtyInv, TtyTypeOK
<1>2. QED
  BY <1>1, TerminalInvariant, PTL

-----------------------------------------------------------------------------
(* The lines of a queue: slots instead of places in its content *)

(* How far slot s is behind slot f, around the end of the buffer. *)
Behind(f, s) == IF f <= s THEN s - f ELSE s - f + SZ

(* The slots of the queue in which a line ends. *)
EndSlots(q) ==
  {s \in 0 .. SZ - 1 : Behind(q.front, s) < Behind(q.front, q.rear) /\ q.buf[s] = "nul"}

(* The slot before the first one.  tty_pop_back looks there when the queue is empty,
   and finds the end of the line that was read last. *)
Before(q) == (IF q.front = 0 THEN SZ ELSE q.front) - 1

Closed(q) == q.buf[Before(q)] = "nul"

LEMMA QueueFields ==
  ASSUME NEW q \in Queues
  PROVE  /\ q.front \in 0 .. SZ - 1 /\ q.rear \in 0 .. SZ - 1
         /\ q.buf \in [0 .. SZ - 1 -> Chars]
         /\ Before(q) \in 0 .. SZ - 1
  BY TtyAssumption DEF Queues, Before

LEMMA NextSlotOf ==
  ASSUME NEW s \in 0 .. SZ - 1
  PROVE  (s + 1) % SZ = IF s = SZ - 1 THEN 0 ELSE s + 1
<1> DEFINE a == s + 1
<1>1. a \in 0 .. 2 * SZ - 1 /\ SZ \in Nat \ {0} /\ (a < SZ <=> s # SZ - 1) /\ (a >= SZ => a = SZ)
  BY TtyAssumption
<1> HIDE DEF a
<1>2. a % SZ = IF a < SZ THEN a ELSE a - SZ
  BY <1>1, Remainder
<1> QED
  BY <1>1, <1>2 DEF a

(* Slots and distances from front are the same thing. *)
LEMMA SlotBehind ==
  ASSUME NEW f \in 0 .. SZ - 1, NEW n \in 0 .. SZ - 1
  PROVE  /\ (f + n) % SZ \in 0 .. SZ - 1
         /\ Behind(f, (f + n) % SZ) = n
<1> DEFINE a == f + n
<1>1. a \in 0 .. 2 * SZ - 1 /\ SZ \in Nat \ {0}
  BY TtyAssumption
<1>2. a % SZ = IF a < SZ THEN a ELSE a - SZ
  <2> HIDE DEF a
  <2> QED
    BY <1>1, Remainder
<1> QED
  BY <1>1, <1>2 DEF Behind

LEMMA BehindSlot ==
  ASSUME NEW f \in 0 .. SZ - 1, NEW s \in 0 .. SZ - 1
  PROVE  Behind(f, s) \in 0 .. SZ - 1 /\ (f + Behind(f, s)) % SZ = s
<1> DEFINE n == Behind(f, s)
           a == f + n
<1>1. n \in 0 .. SZ - 1 /\ a \in 0 .. 2 * SZ - 1 /\ SZ \in Nat \ {0}
  BY TtyAssumption DEF Behind
<1>2. a % SZ = IF a < SZ THEN a ELSE a - SZ
  <2> HIDE DEF a
  <2> QED
    BY <1>1, Remainder
<1> QED
  BY <1>1, <1>2 DEF Behind

LEMMA SameSlot ==
  ASSUME NEW f \in 0 .. SZ - 1, NEW s \in 0 .. SZ - 1, NEW t \in 0 .. SZ - 1
  PROVE  Behind(f, s) = Behind(f, t) <=> s = t
<1>1. (f + Behind(f, s)) % SZ = s
  BY BehindSlot
<1>2. (f + Behind(f, t)) % SZ = t
  BY BehindSlot
<1> QED
  BY <1>1, <1>2

(* Each end in the content is one slot with an end. *)
LEMMA EndsAreSlots ==
  ASSUME NEW q \in Queues
  PROVE  /\ IsFiniteSet(EndSlots(q)) /\ Cardinality(EndSlots(q)) \in Nat
         /\ Cardinality(Ends(q)) = Cardinality(EndSlots(q))
<1> DEFINE size == Behind(q.front, q.rear)
           g == [s \in EndSlots(q) |-> Behind(q.front, s) + 1]
<1>1. q.front \in 0 .. SZ - 1 /\ q.rear \in 0 .. SZ - 1
  BY QueueFields
<1>2. size \in 0 .. SZ - 1 /\ SZ \in Nat \ {0}
  BY <1>1, BehindSlot, TtyAssumption
<1>3. (q.rear - q.front + SZ) % SZ = size
  <2> DEFINE a == q.rear - q.front + SZ
  <2>1. a \in 0 .. 2 * SZ - 1
    BY <1>1, <1>2
  <2>2. a % SZ = IF a < SZ THEN a ELSE a - SZ
    <3> HIDE DEF a
    <3> QED
      BY <1>2, <2>1, Remainder
  <2> QED
    BY <1>1, <1>2, <2>2 DEF Behind
<1>4. Ends(q) = {i \in 1 .. size : At(q, i - 1) = "nul"}
  BY <1>3 DEF Ends, Content
<1>5. \A s \in 0 .. SZ - 1 : Behind(q.front, s) \in 0 .. SZ - 1 /\ At(q, Behind(q.front, s)) = q.buf[s]
  BY <1>1, BehindSlot DEF At
<1>6. IsFiniteSet(EndSlots(q)) /\ Cardinality(EndSlots(q)) \in Nat
  <2>1. IsFiniteSet(0 .. SZ - 1)
    BY <1>2, FS_Interval
  <2>2. EndSlots(q) \in SUBSET (0 .. SZ - 1)
    BY DEF EndSlots
  <2> QED
    BY <2>1, <2>2, FS_Subset, FS_CardinalityType
<1>7. g \in Bijection(EndSlots(q), Ends(q))
  <2>1. \A s \in EndSlots(q) : g[s] \in Ends(q)
    BY <1>2, <1>4, <1>5 DEF EndSlots
  <2>2. \A s, r \in EndSlots(q) : g[s] = g[r] => s = r
    <3> SUFFICES ASSUME NEW s \in EndSlots(q), NEW r \in EndSlots(q), g[s] = g[r] PROVE s = r
      OBVIOUS
    <3>1. s \in 0 .. SZ - 1 /\ r \in 0 .. SZ - 1 /\ Behind(q.front, s) = Behind(q.front, r)
      BY <1>5 DEF EndSlots
    <3> QED
      BY <1>1, <3>1, SameSlot
  <2>3. \A i \in Ends(q) : \E s \in EndSlots(q) : g[s] = i
    <3> SUFFICES ASSUME NEW i \in Ends(q) PROVE \E s \in EndSlots(q) : g[s] = i
      OBVIOUS
    <3> DEFINE n == i - 1
               s == (q.front + n) % SZ
    <3>1. i \in 1 .. size /\ n \in 0 .. SZ - 1 /\ n < size /\ i = n + 1
      BY <1>2, <1>4
    <3>2. s \in 0 .. SZ - 1 /\ Behind(q.front, s) = n
      BY <1>1, <3>1, SlotBehind
    <3>3. q.buf[s] = "nul"
      BY <1>4 DEF At
    <3> QED
      BY <3>1, <3>2, <3>3 DEF EndSlots
  <2>4. g \in [EndSlots(q) -> Ends(q)]
    BY <2>1
  <2> QED
    BY <2>2, <2>3, <2>4 DEF Bijection, Injection, Surjection, IsInjective
<1>8. ExistsBijection(EndSlots(q), Ends(q))
  BY <1>7 DEF ExistsBijection
<1> QED
  BY <1>6, <1>8, FS_Bijection

LEMMA EnqueueEnds ==
  ASSUME NEW q \in Queues, NEW c \in Chars, Closed(q), ~Full(q)
  PROVE  /\ Closed(tty_enqueue(q, c))
         /\ q.rear \notin EndSlots(q)
         /\ EndSlots(tty_enqueue(q, c)) = EndSlots(q) \cup (IF c = "nul" THEN {q.rear} ELSE {})
<1> DEFINE next == (q.rear + 1) % SZ
           e == tty_enqueue(q, c)
<1>1. /\ q.front \in 0 .. SZ - 1 /\ q.rear \in 0 .. SZ - 1 /\ Before(q) \in 0 .. SZ - 1
      /\ q.buf \in [0 .. SZ - 1 -> Chars] /\ SZ \in Nat \ {0}
  BY QueueFields, TtyAssumption
<1>2. next = (IF q.rear = SZ - 1 THEN 0 ELSE q.rear + 1) /\ next # q.front
  BY <1>1, NextSlotOf DEF Full
<1>3. /\ e.front = q.front /\ e.rear = next /\ next \in 0 .. SZ - 1
      /\ e.buf = [q.buf EXCEPT ![q.rear] = c, ![next] = "nul"]
  BY <1>1, <1>2 DEF tty_enqueue, Queues
<1> HIDE DEF next, e
<1>4. next # q.rear /\ Before(q) # q.rear /\ Before(e) = Before(q)
  BY <1>1, <1>2, <1>3 DEF Before
<1>5. /\ e.buf[next] = "nul" /\ e.buf[q.rear] = c
      /\ \A s \in 0 .. SZ - 1 : s # next /\ s # q.rear => e.buf[s] = q.buf[s]
  BY <1>1, <1>3, <1>4
<1>6. Closed(e)
  BY <1>1, <1>4, <1>5 DEF Closed
<1>7. \A s \in 0 .. SZ - 1 :
        Behind(q.front, s) < Behind(q.front, next) <=> s = q.rear \/ Behind(q.front, s) < Behind(q.front, q.rear)
  <2> SUFFICES ASSUME NEW s \in 0 .. SZ - 1
               PROVE  Behind(q.front, s) < Behind(q.front, next)
                        <=> s = q.rear \/ Behind(q.front, s) < Behind(q.front, q.rear)
    OBVIOUS
  <2>1. Behind(q.front, next) = Behind(q.front, q.rear) + 1
    <3>1. CASE q.rear = SZ - 1
      BY <1>1, <1>2, <3>1 DEF Behind
    <3>2. CASE q.rear # SZ - 1
      BY <1>1, <1>2, <3>2 DEF Behind
    <3> QED
      BY <3>1, <3>2
  <2>2. Behind(q.front, s) = Behind(q.front, q.rear) <=> s = q.rear
    BY <1>1, SameSlot
  <2>3. Behind(q.front, s) \in 0 .. SZ - 1 /\ Behind(q.front, q.rear) \in 0 .. SZ - 1
    BY <1>1, BehindSlot
  <2> QED
    BY <1>1, <2>1, <2>2, <2>3
<1>8. \A s \in 0 .. SZ - 1 : Behind(q.front, s) < Behind(q.front, q.rear) => s # next /\ s # q.rear
  BY <1>1, <1>2, <1>3 DEF Behind
<1>9. q.rear \notin EndSlots(q)
  BY <1>1, <1>8 DEF EndSlots
<1>10. ASSUME NEW s \in 0 .. SZ - 1
       PROVE  s \in EndSlots(e) <=> s \in EndSlots(q) \/ (s = q.rear /\ c = "nul")
  BY <1>1, <1>3, <1>5, <1>7, <1>8 DEF EndSlots
<1>11. EndSlots(e) \subseteq 0 .. SZ - 1 /\ EndSlots(q) \subseteq 0 .. SZ - 1
  BY DEF EndSlots
<1>12. EndSlots(e) = EndSlots(q) \cup (IF c = "nul" THEN {q.rear} ELSE {})
  BY <1>1, <1>10, <1>11
<1> QED
  BY <1>6, <1>9, <1>12 DEF e

(* What is erased ends no line, and an empty queue has nothing to erase. *)
LEMMA PopBackEnds ==
  ASSUME NEW q \in Queues, Closed(q)
  PROVE  Closed(tty_pop_back(q)) /\ EndSlots(tty_pop_back(q)) = EndSlots(q)
<1> DEFINE back == Back(q)
           p == tty_pop_back(q)
<1>1. /\ q.front \in 0 .. SZ - 1 /\ q.rear \in 0 .. SZ - 1 /\ Before(q) \in 0 .. SZ - 1
      /\ q.buf \in [0 .. SZ - 1 -> Chars] /\ SZ \in Nat \ {0}
  BY QueueFields, TtyAssumption
<1>2. CASE ~Erases(q)
  BY <1>2 DEF tty_pop_back
<1>3. CASE Erases(q)
  <2>1. /\ p.front = q.front /\ p.rear = back /\ p.buf = [q.buf EXCEPT ![back] = "nul"]
        /\ q.buf[back] # "nul"
    BY <1>3 DEF tty_pop_back, Erases, Queues
  <2>2. back = (IF q.rear = 0 THEN SZ ELSE q.rear) - 1 /\ back \in 0 .. SZ - 1
    BY <1>1 DEF Back
  <2> HIDE DEF back, p
  <2>3. back # Before(q) /\ q.front # q.rear
    BY <1>1, <2>1, <2>2 DEF Closed, Before
  <2>4. Closed(p)
    BY <1>1, <2>1, <2>2, <2>3 DEF Closed, Before
  <2>5. \A s \in 0 .. SZ - 1 :
          Behind(q.front, s) < Behind(q.front, q.rear) <=> s = back \/ Behind(q.front, s) < Behind(q.front, back)
    <3> SUFFICES ASSUME NEW s \in 0 .. SZ - 1
                 PROVE  Behind(q.front, s) < Behind(q.front, q.rear)
                          <=> s = back \/ Behind(q.front, s) < Behind(q.front, back)
      OBVIOUS
    <3>1. Behind(q.front, q.rear) = Behind(q.front, back) + 1
      BY <1>1, <2>2, <2>3 DEF Behind
    <3>2. Behind(q.front, s) = Behind(q.front, back) <=> s = back
      BY <1>1, <2>2, SameSlot
    <3>3. Behind(q.front, s) \in 0 .. SZ - 1 /\ Behind(q.front, back) \in 0 .. SZ - 1
      BY <1>1, <2>2, BehindSlot
    <3> QED
      BY <1>1, <3>1, <3>2, <3>3
  <2>6. ~(Behind(q.front, back) < Behind(q.front, back))
    BY <1>1, <2>2 DEF Behind
  <2>7. ASSUME NEW s \in 0 .. SZ - 1 PROVE s \in EndSlots(p) <=> s \in EndSlots(q)
    BY <1>1, <2>1, <2>2, <2>5, <2>6 DEF EndSlots
  <2>8. EndSlots(p) = EndSlots(q)
    BY <2>7 DEF EndSlots
  <2> QED
    BY <2>4, <2>8 DEF p
<1> QED
  BY <1>2, <1>3

(* A line more when a newline is cooked, and never one less. *)
LEMMA CookedEnds ==
  ASSUME NEW q \in Queues, NEW c \in Chars, Closed(q), ~Overflows(q, c), c # "nul"
  PROVE  /\ Closed(Cooked(q, c))
         /\ Cardinality(EndSlots(Cooked(q, c)))
              = Cardinality(EndSlots(q)) + (IF c = "newline" THEN 1 ELSE 0)
<1>1. Cardinality(EndSlots(q)) \in Nat /\ IsFiniteSet(EndSlots(q))
  BY EndsAreSlots
<1>2. CASE c = "backspace"
  BY <1>1, <1>2, PopBackEnds DEF Cooked
<1>3. CASE c = "newline"
  <2> DEFINE e == tty_enqueue(q, c)
             f == tty_enqueue(e, "nul")
  <2>1. ~Full(q) /\ ~Full(e)
    BY <1>3 DEF Overflows
  <2>2. e \in Queues
    BY EnqueueType
  <2>3. Closed(e) /\ EndSlots(e) = EndSlots(q)
    BY <1>3, <2>1, EnqueueEnds
  <2>4. "nul" \in Chars
    BY CharsKnown
  <2> HIDE DEF e
  <2>5. Closed(f) /\ EndSlots(f) = EndSlots(e) \cup {e.rear} /\ e.rear \notin EndSlots(e)
    BY <2>1, <2>2, <2>3, <2>4, EnqueueEnds
  <2> HIDE DEF f
  <2>6. Cardinality(EndSlots(q) \cup {e.rear}) = Cardinality(EndSlots(q)) + 1
    BY <1>1, <2>3, <2>5, FS_AddElement
  <2>7. Cooked(q, c) = f
    BY <1>3 DEF Cooked, e, f
  <2> QED
    BY <1>3, <2>3, <2>5, <2>6, <2>7
<1>4. CASE c \notin {"backspace", "newline"}
  <2>1. ~Full(q) /\ Cooked(q, c) = tty_enqueue(q, c)
    BY <1>4 DEF Overflows, Cooked
  <2>2. Closed(tty_enqueue(q, c)) /\ EndSlots(tty_enqueue(q, c)) = EndSlots(q)
    BY <2>1, EnqueueEnds
  <2> QED
    BY <1>1, <1>4, <2>1, <2>2
<1> QED
  BY <1>2, <1>3, <1>4

(* tty_read takes the first end with its line. *)
LEMMA ReadEnds ==
  ASSUME NEW q \in Queues, Ended(q), EndSlots(q) # {},
         NEW r, r = [q EXCEPT !.front = (q.front + FirstLen(q) + 1) % SZ]
  PROVE  Closed(r) /\ Cardinality(EndSlots(r)) = Cardinality(EndSlots(q)) - 1
<1> DEFINE n == FirstLen(q)
           m == n + 1
           end == (q.front + n) % SZ
           size == Behind(q.front, q.rear)
<1>1. q.front \in 0 .. SZ - 1 /\ q.rear \in 0 .. SZ - 1 /\ SZ \in Nat \ {0}
  BY QueueFields, TtyAssumption
<1>2. n \in 0 .. SZ - 1 /\ At(q, n) = "nul" /\ \A i \in 0 .. n - 1 : At(q, i) # "nul"
  BY FirstLenFound
<1> HIDE DEF n
<1>3. \A s \in 0 .. SZ - 1 : Behind(q.front, s) \in 0 .. SZ - 1 /\ At(q, Behind(q.front, s)) = q.buf[s]
  BY <1>1, BehindSlot DEF At
<1>4. n < size /\ size \in 0 .. SZ - 1
  <2>1. PICK s \in EndSlots(q) : TRUE
    OBVIOUS
  <2>2. s \in 0 .. SZ - 1 /\ Behind(q.front, s) < size /\ q.buf[s] = "nul"
    BY DEF EndSlots
  <2>3. ~(Behind(q.front, s) \in 0 .. n - 1)
    BY <1>2, <1>3, <2>2
  <2>4. size \in 0 .. SZ - 1
    BY <1>1, <1>3
  <2> HIDE DEF size
  <2> QED
    BY <1>2, <1>3, <2>2, <2>3, <2>4
<1>5. m \in 0 .. SZ - 1
  BY <1>1, <1>2, <1>4
<1>6. q.front + n + 1 = q.front + m
  BY <1>1, <1>2
<1>7. end \in 0 .. SZ - 1 /\ Behind(q.front, end) = n /\ q.buf[end] = "nul"
  BY <1>1, <1>2, SlotBehind DEF At
<1>8. /\ r.front = (q.front + m) % SZ /\ r.front \in 0 .. SZ - 1 /\ Behind(q.front, r.front) = m
      /\ r.rear = q.rear /\ r.buf = q.buf
  BY <1>1, <1>5, <1>6, SlotBehind DEF n, Queues
<1> HIDE DEF m, end
<1>9. \A s \in 0 .. SZ - 1 :
        Behind(r.front, s) = IF Behind(q.front, s) < m THEN Behind(q.front, s) - m + SZ ELSE Behind(q.front, s) - m
  BY <1>1, <1>5, <1>8 DEF Behind
<1>10. m = n + 1
  BY DEF m
<1>11. ASSUME NEW s \in 0 .. SZ - 1, Behind(q.front, s) = n
       PROVE  s = end
  BY <1>1, <1>7, <1>11, SameSlot
<1>12. ASSUME NEW s \in 0 .. SZ - 1
       PROVE  s \in EndSlots(r) <=> s \in EndSlots(q) /\ s # end
  <2> DEFINE b == Behind(q.front, s)
  <2>1. b \in 0 .. SZ - 1 /\ Behind(r.front, s) = IF b < m THEN b - m + SZ ELSE b - m
    BY <1>3, <1>9
  <2>2. Behind(r.front, r.rear) = size - m
    <3>1. Behind(r.front, q.rear) = IF size < m THEN size - m + SZ ELSE size - m
      BY <1>1, <1>9
    <3> HIDE DEF size
    <3> QED
      BY <1>1, <1>2, <1>4, <1>8, <1>10, <3>1
  <2>3. q.buf[s] = "nul" => b >= n
    <3>1. b \in 0 .. n - 1 => At(q, b) # "nul"
      BY <1>2
    <3>2. At(q, b) = q.buf[s]
      BY <1>3
    <3> HIDE DEF b
    <3> QED
      BY <1>2, <2>1, <3>1, <3>2
  <2>4. b = n <=> s = end
    BY <1>7, <1>11
  <2>5. s \in EndSlots(q) <=> b < size /\ q.buf[s] = "nul"
    BY DEF EndSlots
  <2>6. s \in EndSlots(r) <=> Behind(r.front, s) < size - m /\ q.buf[s] = "nul"
    BY <1>8, <2>2 DEF EndSlots
  <2> HIDE DEF b, size
  <2> QED
    BY <1>1, <1>2, <1>4, <1>10, <2>1, <2>3, <2>4, <2>5, <2>6
<1>13. EndSlots(r) = EndSlots(q) \ {end} /\ end \in EndSlots(q)
  <2>1. EndSlots(r) \subseteq 0 .. SZ - 1 /\ EndSlots(q) \subseteq 0 .. SZ - 1
    BY DEF EndSlots
  <2>2. end \in EndSlots(q)
    BY <1>4, <1>7 DEF EndSlots
  <2> QED
    BY <1>12, <2>1, <2>2
<1>14. Before(r) = end
  BY <1>1, <1>7, <1>8, <1>10 DEF Before, Behind
<1>15. Closed(r)
  BY <1>7, <1>8, <1>14 DEF Closed
<1>16. IsFiniteSet(EndSlots(q)) /\ Cardinality(EndSlots(q)) \in Nat
  BY EndsAreSlots
<1>17. Cardinality(EndSlots(q) \ {end}) = Cardinality(EndSlots(q)) - 1
  BY <1>13, <1>16, FS_RemoveElement
<1> QED
  BY <1>13, <1>15, <1>17

-----------------------------------------------------------------------------
(* cooked counts the lines *)

(* Nobody holds a shift key while he types RETURN: shift and RETURN have no entry in
   keymap_shift, type '\0', and end a line that cooked does not count. *)
ReturnUnshifted ==
  \/ \A code \in Used : code.key # "RETURN"
  \/ \A code \in Used : code.key \notin {"LSHIFT", "RSHIFT"}

(* So no '\0' is typed, wherever what is typed is on its way to a queue. *)
NoNulTyped ==
  /\ Held(mods, {"LSHIFT", "RSHIFT"}) => \A code \in Used : code.key # "RETURN"
  /\ \A i \in 0 .. NEVENTS - 1 : Within(i) => events[i].data # "nul"
  /\ in_pc = "push" => pushed.data # "nul"
  /\ ch # NONE => ch # "nul"

LineCount ==
  \A d \in Ttys : /\ Closed(queue[d])
                  /\ Cardinality(EndSlots(queue[d])) = cooked[d] + (IF reading[d] THEN 1 ELSE 0)

LEMMA TypedNotNul ==
  ASSUME NEW m \in Modifiers, NEW key \in Typed, Held(m, {"LSHIFT", "RSHIFT"}) => key # "RETURN"
  PROVE  EventOf(m, key).data # "nul"
<1>1. key \in {"A", "KEY1", "KEY2", "RETURN", "BACKSPACE"}
  BY DEF Typed, keymap
<1>2. keymap[key] # "nul"
  BY <1>1 DEF keymap
<1>3. key # "RETURN" => keymap_shift[key] # "nul"
  BY <1>1 DEF keymap_shift
<1>4. EventOf(m, key).data \in {keymap[key], keymap_shift[key]}
  BY DEF EventOf
<1>5. key = "RETURN" => EventOf(m, key).data = keymap[key]
  <2>1. CASE key = "RETURN"
    <3>1. Held(m, {"LSHIFT", "RSHIFT"}) = FALSE
      BY <2>1 DEF Held
    <3>2. ~(Held(m, {"LSHIFT", "RSHIFT"}) # (key = "A" /\ m.capslock))
      BY <2>1, <3>1
    <3> QED
      BY <3>2 DEF EventOf
  <2> QED
    BY <2>1
<1> QED
  BY <1>2, <1>3, <1>4, <1>5

(* A step that leaves the modifiers, the ring and what is in hand alone. *)
LEMMA NoNulStays ==
  ASSUME NoNulTyped, UNCHANGED <<mods, events, front, rear, pushed, ch>>,
         in_pc' = "push" => in_pc = "push"
  PROVE  NoNulTyped'
  BY DEF NoNulTyped, Within

LEMMA DeviceNoNul ==
  ASSUME ReturnUnshifted, TerminalInv, NoNulTyped, Device, UNCHANGED ttyVars
  PROVE  NoNulTyped'
<1> USE DEF TerminalInv, ringVars, taskVars
<1>1. ch' = ch
  BY DEF ttyVars
<1>2. ASSUME NEW code \in Used, Press(code) PROVE NoNulTyped'
  BY <1>1, <1>2, NoNulStays DEF Press
<1>3. CASE input_notify \/ NoKey \/ WaitIrq \/ SignalEvent
  BY <1>1, <1>3, NoNulStays DEF input_notify, NoKey, WaitIrq, SignalEvent
<1>4. CASE ReadKey
  <2> DEFINE code == Head(kbd)
  <2>1. /\ UNCHANGED <<events, front, rear>>
        /\ kbd # <<>>
        /\ mods' = After(mods, code)
        /\ in_pc' = "push" => Types(code) /\ pushed' = EventOf(mods, code.key)
    BY <1>4 DEF ReadKey
  <2>2. mods \in Modifiers /\ code \in Used /\ code \in Codes
    BY <2>1, InputAssumption DEF InputInv, InputTypeOK
  <2>3. in_pc' = "push" => pushed'.data # "nul"
    <3>1. Held(mods, {"LSHIFT", "RSHIFT"}) => code.key # "RETURN"
      BY <2>2 DEF NoNulTyped
    <3> QED
      BY <2>1, <2>2, <3>1, TypedNotNul DEF Types
  <2>4. Held(mods', {"LSHIFT", "RSHIFT"}) =>
          Held(mods, {"LSHIFT", "RSHIFT"}) \/ code.key \in {"LSHIFT", "RSHIFT"}
    BY <2>1 DEF Held, After
  <2>5. Held(mods', {"LSHIFT", "RSHIFT"}) => \A c \in Used : c.key # "RETURN"
    BY <2>2, <2>4 DEF NoNulTyped, ReturnUnshifted
  <2>6. (\A i \in 0 .. NEVENTS - 1 : Within(i) => events[i].data # "nul")'
    BY <2>1 DEF NoNulTyped, Within
  <2> QED
    BY <1>1, <2>3, <2>5, <2>6 DEF NoNulTyped
<1>5. CASE PushEvent
  <2>1. CASE Following(rear) = front
    BY <1>1, <1>5, <2>1, NoNulStays DEF PushEvent
  <2>2. CASE Following(rear) # front
    <3>1. /\ in_pc = "push" /\ in_pc' = "signal" /\ mods' = mods
          /\ events' = [events EXCEPT ![rear] = pushed]
          /\ rear' = Following(rear) /\ front' = front
      BY <1>5, <2>2 DEF PushEvent
    <3>2. rear' = IF rear = NEVENTS - 1 THEN 0 ELSE rear + 1
      BY <3>1, NextSlot DEF InputInv, InputTypeOK
    <3>3. \A i \in 0 .. NEVENTS - 1 : Within(i)' => i = rear \/ Within(i)
      BY <2>2, <3>1, <3>2, InputAssumption DEF Within, InputInv, InputTypeOK
    <3>4. pushed.data # "nul"
      BY <3>1 DEF NoNulTyped
    <3> QED
      BY <1>1, <3>1, <3>3, <3>4 DEF NoNulTyped, InputInv, InputTypeOK
  <2> QED
    BY <2>1, <2>2
<1> QED
  BY <1>2, <1>3, <1>4, <1>5 DEF Device

LEMMA GetEventNoNul ==
  ASSUME TerminalInv, NoNulTyped, ~Halted, GetEvent
  PROVE  NoNulTyped' /\ UNCHANGED <<queue, cooked, reading>>
<1> USE DEF TerminalInv
<1>1. CASE WaitEvent /\ UNCHANGED ttyVars
  BY <1>1, NoNulStays DEF WaitEvent, ringVars, taskVars, ttyVars
<1>2. CASE PopEvent /\ IF input_halted' THEN UNCHANGED ttyVars ELSE Dispatch(events[front])
  <2>1. ~input_halted /\ popping
    BY <1>2 DEF Halted, PopEvent
  <2>2. rear # front /\ ~input_halted'
    BY <1>2, <2>1, PopEventFinds, PopEventInv
  <2>3. /\ front' = Following(front)
        /\ UNCHANGED <<events, rear, pushed, in_pc, mods>>
        /\ Dispatch(events[front])
    BY <1>2, <2>2 DEF PopEvent, taskVars
  <2>4. front' = IF front = NEVENTS - 1 THEN 0 ELSE front + 1
    BY <2>3, NextSlot DEF InputInv, InputTypeOK
  <2>5. \A i \in 0 .. NEVENTS - 1 : Within(i)' => Within(i)
    BY <2>2, <2>3, <2>4, InputAssumption DEF Within, InputInv, InputTypeOK
  <2>6. events[front].data # "nul"
    BY <2>2 DEF NoNulTyped, Within, InputInv, InputTypeOK
  <2>7. ch' # NONE => ch' # "nul"
    BY <2>3, <2>6 DEF Dispatch
  <2>8. NoNulTyped'
    BY <2>3, <2>5, <2>7 DEF NoNulTyped
  <2> QED
    BY <2>3, <2>8 DEF Dispatch
<1> QED
  BY <1>1, <1>2 DEF GetEvent

LEMMA CookCounts ==
  ASSUME TtyInv, NoNulTyped, LineCount, tty_cook
  PROVE  LineCount' /\ (ch' # NONE => ch' # "nul")
<1> USE DEF TtyInv, TtyTypeOK
<1>1. CASE Overflows(queue[ttydev], ch)
  BY <1>1 DEF tty_cook, LineCount, NoNulTyped
<1>2. CASE ~Overflows(queue[ttydev], ch)
  <2> DEFINE q == queue[ttydev]
             r == Cooked(q, ch)
  <2>1. /\ ch \in Chars /\ ch # "nul"
        /\ queue' = [queue EXCEPT ![ttydev] = r]
        /\ cooked' = IF ch = "newline" THEN [cooked EXCEPT ![ttydev] = cooked[ttydev] + 1] ELSE cooked
        /\ ch' = NONE
        /\ reading' = reading
    BY <1>2 DEF tty_cook, NoNulTyped
  <2>2. q \in Queues /\ Closed(q)
    BY DEF LineCount
  <2>3. Closed(r) /\ Cardinality(EndSlots(r)) = Cardinality(EndSlots(q)) + (IF ch = "newline" THEN 1 ELSE 0)
    BY <1>2, <2>1, <2>2, CookedEnds
  <2>4. /\ Cardinality(EndSlots(q)) = cooked[ttydev] + (IF reading[ttydev] THEN 1 ELSE 0)
        /\ cooked[ttydev] \in Nat
        /\ cooked'[ttydev] = cooked[ttydev] + (IF ch = "newline" THEN 1 ELSE 0)
    BY <2>1 DEF LineCount
  <2> HIDE DEF q, r
  <2>5. \A d \in Ttys : d # ttydev => queue'[d] = queue[d] /\ cooked'[d] = cooked[d]
    BY <2>1
  <2>6. queue'[ttydev] = r
    BY <2>1
  <2>7. \A d \in Ttys : d = ttydev =>
          /\ Closed(queue'[d])
          /\ Cardinality(EndSlots(queue'[d])) = cooked'[d] + (IF reading'[d] THEN 1 ELSE 0)
    BY <2>1, <2>3, <2>4, <2>6
  <2> QED
    BY <2>1, <2>5, <2>7 DEF LineCount
<1> QED
  BY <1>1, <1>2

LEMMA ReadCounts ==
  ASSUME TtyInv, LineCount, NEW d \in Ttys, WaitCooked(d) \/ ReadLine(d)
  PROVE  LineCount'
<1> USE DEF TtyInv, TtyTypeOK
<1>1. CASE WaitCooked(d)
  BY <1>1 DEF WaitCooked, LineCount
<1>2. CASE ReadLine(d)
  <2> DEFINE q == queue[d]
             r == [q EXCEPT !.front = (q.front + FirstLen(q) + 1) % SZ]
  <2>1. /\ reading[d]
        /\ queue' = [queue EXCEPT ![d] = r]
        /\ reading' = [reading EXCEPT ![d] = FALSE]
        /\ cooked' = cooked
    BY <1>2 DEF ReadLine
  <2>2. q \in Queues /\ Ended(q) /\ cooked[d] \in Nat /\ Cardinality(EndSlots(q)) = cooked[d] + 1
    BY <2>1 DEF LineCount
  <2>3. EndSlots(q) # {}
    <3> HIDE DEF q
    <3>1. Cardinality(EndSlots(q)) # 0
      BY <2>2
    <3> QED
      BY <3>1, FS_EmptySet
  <2>4. Closed(r) /\ Cardinality(EndSlots(r)) = Cardinality(EndSlots(q)) - 1
    BY <2>2, <2>3, ReadEnds
  <2> HIDE DEF q, r
  <2>5. queue'[d] = r /\ ~reading'[d]
    BY <2>1
  <2>6. \A e \in Ttys : e # d => queue'[e] = queue[e] /\ reading'[e] = reading[e]
    BY <2>1
  <2>7. Closed(queue'[d]) /\ Cardinality(EndSlots(queue'[d])) = cooked'[d] + (IF reading'[d] THEN 1 ELSE 0)
    BY <2>1, <2>2, <2>4, <2>5
  <2> QED
    BY <2>1, <2>6, <2>7 DEF LineCount
<1> QED
  BY <1>1, <1>2

LinesInv == TerminalInv /\ NoNulTyped /\ LineCount

LEMMA InitLines == Init => LinesInv
<1> SUFFICES ASSUME Init PROVE LinesInv
  OBVIOUS
<1>1. TerminalInv
  BY InitTerminal
<1>2. NoNulTyped
  BY InputAssumption DEF Init, InputInit, TtyInit, NoNulTyped, Within, Held, Released
<1>3. LineCount
  <2> SUFFICES ASSUME NEW d \in Ttys
               PROVE  Closed(queue[d]) /\ Cardinality(EndSlots(queue[d])) = cooked[d] + (IF reading[d] THEN 1 ELSE 0)
    BY DEF LineCount
  <2>1. /\ queue[d].front = 0 /\ queue[d].rear = 0 /\ queue[d].buf = [i \in 0 .. SZ - 1 |-> "nul"]
        /\ cooked[d] = 0 /\ reading[d] = FALSE
    BY DEF Init, TtyInit
  <2>2. EndSlots(queue[d]) = {}
    BY <2>1, TtyAssumption DEF EndSlots, Behind
  <2>3. Closed(queue[d])
    BY <2>1, TtyAssumption DEF Closed, Before
  <2> QED
    BY <2>1, <2>2, <2>3, FS_EmptySet
<1> QED
  BY <1>1, <1>2, <1>3 DEF LinesInv

LEMMA NextLines ==
  ASSUME ReturnUnshifted, LinesInv, [Next]_vars
  PROVE  LinesInv'
<1> USE DEF LinesInv
<1>1. TerminalInv'
  BY NextTerminal
<1>2. CASE Device /\ UNCHANGED ttyVars
  <2>1. NoNulTyped'
    BY <1>2, DeviceNoNul
  <2>2. LineCount'
    BY <1>2 DEF LineCount, ttyVars
  <2> QED
    BY <1>1, <2>1, <2>2
<1>3. CASE ~Halted /\ GetEvent
  <2>1. NoNulTyped' /\ UNCHANGED <<queue, cooked, reading>>
    BY <1>3, GetEventNoNul
  <2>2. LineCount'
    BY <2>1 DEF LineCount
  <2> QED
    BY <1>1, <2>1, <2>2
<1>4. CASE TtyNext /\ UNCHANGED inputVars
  <2>1. UNCHANGED <<mods, events, front, rear, pushed, in_pc>>
    BY <1>4 DEF inputVars, taskVars, ringVars
  <2>2. CASE tty_cook
    <3>1. LineCount' /\ (ch' # NONE => ch' # "nul")
      BY <2>2, CookCounts DEF TerminalInv
    <3>2. NoNulTyped'
      BY <2>1, <3>1 DEF NoNulTyped, Within
    <3> QED
      BY <1>1, <3>1, <3>2
  <2>3. ASSUME NEW d \in Ttys, WaitCooked(d) \/ ReadLine(d) PROVE LinesInv'
    <3>1. LineCount'
      BY <2>3, ReadCounts DEF TerminalInv
    <3>2. NoNulTyped'
      BY <2>1, <2>3, NoNulStays DEF WaitCooked, ReadLine
    <3> QED
      BY <1>1, <3>1, <3>2
  <2> QED
    BY <1>4, <2>2, <2>3 DEF TtyNext
<1>5. CASE UNCHANGED vars
  <2>1. UNCHANGED <<mods, events, front, rear, pushed, in_pc, ch, queue, cooked, reading>>
    BY <1>5 DEF vars, inputVars, ttyVars, taskVars, ringVars
  <2> QED
    BY <1>1, <2>1, NoNulStays DEF LineCount
<1> QED
  BY <1>2, <1>3, <1>4, <1>5 DEF Next

(* cooked, with the reader that is past its sem_wait, is the number of lines in the
   queue of every terminal, for queues of any size and any interleaving of
   typing, cooking and reading, as long as nobody types RETURN with a shift key held. *)
THEOREM LinesAreCounted == ASSUME ReturnUnshifted PROVE Spec => []LinesCounted
<1>1. LinesInv => LinesCounted
  <2> SUFFICES ASSUME LinesInv, NEW d \in Ttys
               PROVE  Cardinality(Ends(queue[d])) = cooked[d] + (IF reading[d] THEN 1 ELSE 0)
    BY DEF LinesCounted
  <2>1. queue[d] \in Queues
    BY DEF LinesInv, TerminalInv, TtyInv, TtyTypeOK
  <2>2. Cardinality(Ends(queue[d])) = Cardinality(EndSlots(queue[d]))
    BY <2>1, EndsAreSlots
  <2> QED
    BY <2>2 DEF LinesInv, LineCount
<1>2. LinesInv /\ [Next]_vars => LinesInv'
  BY NextLines
<1> QED
  BY <1>1, <1>2, InitLines, PTL DEF Spec

=============================================================================
