----------------------------- MODULE MCTerminal -----------------------------
(* Model checking of Terminal. *)
EXTENDS Terminal

Down(keys) == [key : keys, down : {TRUE}]
Up(keys) == [key : keys, down : {FALSE}]

Unshifted == Down({"A", "KEY2", "RETURN", "BACKSPACE", "OTHER", "LALT"}) \cup Up({"LALT"})
Shifted == Down({"A", "RETURN", "LSHIFT"}) \cup Up({"LSHIFT"})
=============================================================================
