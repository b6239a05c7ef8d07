-------------------------------- MODULE Tty --------------------------------
(***************************************************************************)
(* The terminals: kernel/src/devices/tty/tty.c.  tty_task passes what is   *)
(* typed to the queue of the current terminal, where it becomes lines; a   *)
(* shell or echo task of each terminal reads them.                         *)
(*                                                                         *)
(* Semaphores are numbers of units, as in Input.  What is done with        *)
(* tty->lock held is a single step: nothing waits for anything inside it.  *)
(* A queue fresh from pmm->alloc holds nothing but '\0'.  What is drawn,   *)
(* the echo included, is left out.                                         *)
(*                                                                         *)
(* A definition whose name begins with Faulty is a variant of the one that *)
(* follows it with a slip in it, which no action uses.                     *)
(***************************************************************************)
EXTENDS Keyboard

CONSTANTS
  Ttys,  \* the terminals: their numbers
  SZ,    \* TTY_COOK_BUF_SZ
  NONE   \* no character

ASSUME TtyAssumption == SZ \in Nat \ {0} /\ Ttys \subseteq {1, 2, 3, 4} /\ 1 \in Ttys

VARIABLES
  ttydev,     \* tty_task's current terminal
  ch,         \* the character tty_task is about to cook, if any
  cooked,     \* tty->cooked
  reading,    \* is the reader in tty_read past its sem_wait?
  queue,      \* tty->queue
  line,       \* what the reader read last
  tty_halted

ttyVars == <<ttydev, ch, cooked, reading, queue, line, tty_halted>>

Queues == [buf : [0 .. SZ - 1 -> Chars], front : 0 .. SZ - 1, rear : 0 .. SZ - 1]

TtyTypeOK ==
  /\ ttydev \in Ttys
  /\ ch \in Chars \cup {NONE}
  /\ cooked \in [Ttys -> Nat] /\ reading \in [Ttys -> BOOLEAN]
  /\ queue \in [Ttys -> Queues]
  /\ line \in [Ttys -> Seq(Chars)]
  /\ tty_halted \in BOOLEAN

TtyInit ==
  /\ ttydev = 1
  /\ ch = NONE
  /\ cooked = [d \in Ttys |-> 0] /\ reading = [d \in Ttys |-> FALSE]
  /\ queue = [d \in Ttys |-> [buf |-> [i \in 0 .. SZ - 1 |-> "nul"], front |-> 0, rear |-> 0]]
  /\ line = [d \in Ttys |-> <<>>]
  /\ tty_halted = FALSE

-----------------------------------------------------------------------------
(* The queue of a terminal *)

(* Is there no room in queue q for one more character? *)
Full(q) == (q.rear + 1) % SZ = q.front

tty_enqueue(q, c) ==
  LET rear == (q.rear + 1) % SZ
  IN [q EXCEPT !.buf = [@ EXCEPT ![q.rear] = c, ![rear] = "nul"], !.rear = rear]

(* The place of the last character. *)
Back(q) == (IF q.rear = 0 THEN SZ ELSE q.rear) - 1

FaultyErases(q) == q.front # q.rear

Erases(q) == q.buf[Back(q)] # "nul"

tty_pop_back(q) ==
  IF Erases(q) THEN [q EXCEPT !.rear = Back(q), !.buf = [@ EXCEPT ![Back(q)] = "nul"]] ELSE q

Cooked(q, c) ==
  CASE c = "newline" -> tty_enqueue(tty_enqueue(q, c), "nul")
    [] c = "backspace" -> tty_pop_back(q)
    [] OTHER -> tty_enqueue(q, c)

(* Does tty_cook find the queue full on its way? *)
Overflows(q, c) ==
  \/ c # "backspace" /\ Full(q)
  \/ c = "newline" /\ Full(tty_enqueue(q, c))

(* The first line of the queue: what stands before the first '\0'. *)
At(q, i) == q.buf[(q.front + i) % SZ]
FirstLen(q) == CHOOSE n \in 0 .. SZ - 1 : At(q, n) = "nul" /\ \A i \in 0 .. n - 1 : At(q, i) # "nul"
First(q) == [i \in 1 .. FirstLen(q) |-> At(q, i - 1)]

-----------------------------------------------------------------------------
(* tty_task has an event: it may make another terminal the current one, and it
   cooks what is typed with neither key. *)
Switched(ev) ==
  LET asked == {d \in Ttys : ev.data = <<"1", "2", "3", "4">>[d]}
  IN IF ev.alt /\ asked # {} THEN CHOOSE d \in asked : TRUE ELSE ttydev

Dispatch(ev) ==
  /\ ttydev' = Switched(ev)
  /\ ch' = IF ~ev.ctrl /\ ~ev.alt THEN ev.data ELSE NONE
  /\ UNCHANGED <<cooked, reading, queue, line, tty_halted>>

tty_cook ==
  /\ ch # NONE
  /\ IF Overflows(queue[ttydev], ch)
     THEN /\ tty_halted' = TRUE
          /\ UNCHANGED <<queue, cooked, ch>>
     ELSE /\ queue' = [queue EXCEPT ![ttydev] = Cooked(@, ch)]
          /\ cooked' = IF ch = "newline" THEN [cooked EXCEPT ![ttydev] = @ + 1] ELSE cooked
          /\ ch' = NONE
          /\ UNCHANGED tty_halted
  /\ UNCHANGED <<ttydev, reading, line>>

-----------------------------------------------------------------------------
(* tty_read *)

WaitCooked(d) ==
  /\ ~reading[d]
  /\ cooked[d] > 0
  /\ cooked' = [cooked EXCEPT ![d] = @ - 1]
  /\ reading' = [reading EXCEPT ![d] = TRUE]
  /\ UNCHANGED <<ttydev, ch, queue, line, tty_halted>>

FaultyReadLine(d) ==
  /\ reading[d]
  /\ line' = [line EXCEPT ![d] = First(queue[d])]
  /\ queue' = [queue EXCEPT ![d].front = (@ + FirstLen(queue[d])) % SZ]
  /\ reading' = [reading EXCEPT ![d] = FALSE]
  /\ UNCHANGED <<ttydev, ch, cooked, tty_halted>>

ReadLine(d) ==
  /\ reading[d]
  /\ line' = [line EXCEPT ![d] = First(queue[d])]
  /\ queue' = [queue EXCEPT ![d].front = (@ + FirstLen(queue[d]) + 1) % SZ]
  /\ reading' = [reading EXCEPT ![d] = FALSE]
  /\ UNCHANGED <<ttydev, ch, cooked, tty_halted>>

TtyNext ==
  \/ tty_cook
  \/ \E d \in Ttys : WaitCooked(d) \/ ReadLine(d)

-----------------------------------------------------------------------------

Content(q) == [i \in 1 .. (q.rear - q.front + SZ) % SZ |-> At(q, i - 1)]
Ends(q) == {i \in DOMAIN Content(q) : Content(q)[i] = "nul"}

(* cooked counts the "tty cooked lines", those that end in the queue, down to the
   one whose reader is on its way to it. *)
LinesCounted ==
  ~tty_halted =>
    \A d \in Ttys : Cardinality(Ends(queue[d])) = cooked[d] + (IF reading[d] THEN 1 ELSE 0)

=============================================================================
