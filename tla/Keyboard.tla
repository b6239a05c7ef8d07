------------------------------ MODULE Keyboard ------------------------------
(***************************************************************************)
(* What the keys of a keyboard mean: input_keydown of                      *)
(* kernel/src/devices/input/input.c with the tables of keymaps.c, for the  *)
(* keys a letter, two digits, return and backspace stand for.              *)
(*                                                                         *)
(* A code is a key that goes down or up.  The key "OTHER" is any byte the  *)
(* keyboard driver finds no key for, for which read_key returns 0.         *)
(***************************************************************************)
EXTENDS Integers, Sequences, SequencesExt

Switches == {"LCTRL", "RCTRL", "LALT", "RALT", "LSHIFT", "RSHIFT"}

keymap == [A |-> "a", KEY1 |-> "1", KEY2 |-> "2", RETURN |-> "newline", BACKSPACE |-> "backspace"]

(* There is no entry for RETURN. *)
keymap_shift == [A |-> "A", KEY1 |-> "!", KEY2 |-> "@", RETURN |-> "nul", BACKSPACE |-> "backspace"]

Typed == DOMAIN keymap
Keys == Typed \cup Switches \cup {"CAPSLOCK", "OTHER"}
Codes == [key : Keys, down : BOOLEAN]

Chars == {keymap[k] : k \in Typed} \cup {keymap_shift[k] : k \in Typed}
Events == [ctrl : BOOLEAN, alt : BOOLEAN, data : Chars]

(* The flags of input_t: the switches that are down, and capslock. *)
Modifiers == [down : SUBSET Switches, capslock : BOOLEAN]
Released == [down |-> {}, capslock |-> FALSE]

Held(m, keys) == m.down \cap keys # {}

After(m, code) ==
  [down |-> IF code.down THEN m.down \cup ({code.key} \cap Switches) ELSE m.down \ {code.key},
   capslock |-> IF code = [key |-> "CAPSLOCK", down |-> TRUE] THEN ~m.capslock ELSE m.capslock]

(* Does the code type something, and what? *)
Types(code) == code.down /\ code.key \in Typed

EventOf(m, key) ==
  LET ctrl == Held(m, {"LCTRL", "RCTRL"})
      alt == Held(m, {"LALT", "RALT"})
      shift == Held(m, {"LSHIFT", "RSHIFT"}) # (key = "A" /\ m.capslock)
  IN [ctrl |-> ctrl, alt |-> alt,
      data |-> IF shift /\ ~ctrl /\ ~alt THEN keymap_shift[key] ELSE keymap[key]]

(* What a sequence of codes types, and the flags after it. *)
TypeCode(st, code) ==
  [mods |-> After(st.mods, code),
   out |-> IF Types(code) THEN Append(st.out, EventOf(st.mods, code.key)) ELSE st.out]

TypeCodes(m, codes) == FoldLeft(TypeCode, [mods |-> m, out |-> <<>>], codes)

=============================================================================
