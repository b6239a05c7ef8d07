---------------------------- MODULE TerminalAbs ----------------------------
(***************************************************************************)
(* What the keyboard and the terminals promise: what is typed reaches the  *)
(* terminal that was current when it was typed, in the order it was typed, *)
(* backspace takes back from the line being typed alone, and each line is  *)
(* read once, in order.                                                    *)
(***************************************************************************)
EXTENDS Keyboard

CONSTANTS Ttys, Used

VARIABLES
  mods,     \* which modifier keys are down
  typed,    \* events typed and not acted upon
  current,  \* the terminal in front
  edit,     \* the line being typed on each terminal
  lines,    \* lines typed and not read
  line      \* the line read last

Init ==
  /\ mods = Released
  /\ typed = <<>>
  /\ current = 1
  /\ edit = [d \in Ttys |-> <<>>]
  /\ lines = [d \in Ttys |-> <<>>]
  /\ line = [d \in Ttys |-> <<>>]

Press(code) ==
  LET r == TypeCode([mods |-> mods, out |-> typed], code)
  IN mods' = r.mods /\ typed' = r.out /\ UNCHANGED <<current, edit, lines, line>>

Digit == <<"1", "2", "3", "4">>

Command ==
  /\ typed # <<>>
  /\ Head(typed).ctrl \/ Head(typed).alt
  /\ typed' = Tail(typed)
  /\ \/ /\ Head(typed).alt
        /\ \E d \in Ttys : Head(typed).data = Digit[d] /\ current' = d
     \/ /\ ~Head(typed).alt \/ \A d \in Ttys : Head(typed).data # Digit[d]
        /\ UNCHANGED current
  /\ UNCHANGED <<mods, edit, lines, line>>

Edit ==
  LET c == Head(typed).data
      d == current
  IN /\ typed # <<>>
     /\ ~Head(typed).ctrl /\ ~Head(typed).alt
     /\ typed' = Tail(typed)
     /\ CASE c = "newline" ->
               /\ lines' = [lines EXCEPT ![d] = Append(@, Append(edit[d], c))]
               /\ edit' = [edit EXCEPT ![d] = <<>>]
          [] c = "backspace" ->
               /\ edit' = [edit EXCEPT ![d] = IF @ = <<>> THEN @ ELSE SubSeq(@, 1, Len(@) - 1)]
               /\ UNCHANGED lines
          [] OTHER ->
               /\ edit' = [edit EXCEPT ![d] = Append(@, c)]
               /\ UNCHANGED lines
     /\ UNCHANGED <<mods, current, line>>

Read(d) ==
  /\ lines[d] # <<>>
  /\ line' = [line EXCEPT ![d] = Head(lines[d])]
  /\ lines' = [lines EXCEPT ![d] = Tail(@)]
  /\ UNCHANGED <<mods, typed, current, edit>>

Next ==
  \/ \E code \in Used : Press(code)
  \/ Command
  \/ Edit
  \/ \E d \in Ttys : Read(d)

Spec == Init /\ [][Next]_<<mods, typed, current, edit, lines, line>>

=============================================================================
