------------------------------ MODULE Terminal ------------------------------
(***************************************************************************)
(* The keyboard, the input device and the terminals together: tty_task of  *)
(* kernel/src/devices/tty/tty.c reads the input device's events.           *)
(***************************************************************************)
EXTENDS Input, Tty

vars == <<inputVars, ttyVars>>

(* The types of all variables, and the bounds of the two queues' indexes. *)
TypeOK == InputTypeOK /\ TtyTypeOK

Init == InputInit /\ TtyInit

(* tty_task's in->ops->read *)
GetEvent ==
  \/ /\ ch = NONE
     /\ WaitEvent
     /\ UNCHANGED ttyVars
  \/ /\ PopEvent
     /\ IF input_halted' THEN UNCHANGED ttyVars ELSE Dispatch(events[front])

(* After a panic nothing happens. *)
Halted == input_halted \/ tty_halted

Device ==
  \/ \E code \in Used : Press(code)
  \/ input_notify
  \/ NoKey \/ ReadKey \/ WaitIrq \/ PushEvent \/ SignalEvent

Next ==
  \/ ~Halted /\ Device /\ UNCHANGED ttyVars
  \/ ~Halted /\ GetEvent
  \/ ~Halted /\ TtyNext /\ UNCHANGED inputVars

Spec == Init /\ [][Next]_vars

-----------------------------------------------------------------------------
(* The abstract terminal *)

(* What is typed and not acted upon: with tty_task, in the ring, with input_task,
   and still in the keyboard. *)
InHand == IF ch # NONE THEN <<[ctrl |-> FALSE, alt |-> FALSE, data |-> ch]>> ELSE <<>>
InTask == IF in_pc = "push" THEN <<pushed>> ELSE <<>>
InKeyboard == TypeCodes(mods, kbd)

(* The line of a queue that is not finished, and those that are. *)
LastEnd(q) == Max(Ends(q) \cup {0})
Unfinished(q) == SubSeq(Content(q), LastEnd(q) + 1, Len(Content(q)))
Line(q, n) ==
  LET ends == SetToSortSeq(Ends(q), <)
  IN SubSeq(Content(q), IF n = 1 THEN 1 ELSE ends[n - 1] + 1, ends[n] - 1)
Finished(q) == [n \in 1 .. Cardinality(Ends(q)) |-> Line(q, n)]

Promise == INSTANCE TerminalAbs WITH
  mods <- InKeyboard.mods,
  typed <- InHand \o Ring \o InTask \o InKeyboard.out,
  current <- ttydev,
  edit <- [d \in Ttys |-> Unfinished(queue[d])],
  lines <- [d \in Ttys |-> Finished(queue[d])]

(* What is typed reaches the readers as the abstract terminal says, whatever
   interrupts, tasks and the two queues between them do. *)
ImplementsTerminal == Promise!Spec

=============================================================================
