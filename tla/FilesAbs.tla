------------------------------ MODULE FilesAbs ------------------------------
(***************************************************************************)
(* What the file system promises: a tree of names over nodes.  A call that *)
(* is given a path acts on the node the path leads to, in the directory    *)
(* the path names.  A node is in use as long as a name leads to it; a file *)
(* has a text of its own that only writes through a descriptor of that     *)
(* file change.                                                            *)
(***************************************************************************)
EXTENDS Integers, Sequences, SequencesExt

CONSTANTS Tasks, Slots, Paths, Nodes, Writes, NULL

VARIABLES
  entries,  \* records [dir, name, node]
  kind,     \* "none", "NF" or "DR", of each node
  text,     \* of each node
  open      \* descriptors of each task: a node and an offset

vars == <<entries, kind, text, open>>

Init ==
  /\ entries = {}
  /\ kind = [i \in Nodes |-> IF i = 0 THEN "DR" ELSE "none"]
  /\ text = [i \in Nodes |-> <<>>]
  /\ open = [t \in Tasks |-> [s \in Slots |-> NULL]]

Name(d, n, i) == [dir |-> d, name |-> n, node |-> i]

(* The path's last name belongs in directory d. *)
Dir(p, d) == IF Len(p) = 1 THEN d = 0 ELSE Name(0, Head(p), d) \in entries

Leads(p, i) == \E d \in Nodes : Dir(p, d) /\ Name(d, Last(p), i) \in entries

(* The path is free in directory d, which is there. *)
Free(p, d) ==
  /\ Dir(p, d)
  /\ kind[d] = "DR"
  /\ \A e \in entries : <<e.dir, e.name>> # <<d, Last(p)>>

(* The path becomes a name of a new, empty node. *)
Make(p, d, i, k) ==
  /\ kind[i] = "none"
  /\ kind' = [kind EXCEPT ![i] = k]
  /\ Free(p, d)
  /\ entries' = entries \cup {Name(d, Last(p), i)}
  /\ UNCHANGED <<text, open>>

(* The node the path leads to has one name less in the path's directory: which one,
   if it has several there, is left open.  The node goes with its last name, a
   directory only if empty. *)
Unname(p, e) ==
  /\ entries' = entries \ {e}
  /\ Dir(p, e.dir)
  /\ Name(e.dir, Last(p), e.node) \in entries
  /\ \A f \in entries : f.dir # e.node
  /\ IF \E f \in entries' : f.node = e.node
     THEN UNCHANGED <<kind, text>>
     ELSE /\ kind' = [kind EXCEPT ![e.node] = "none"]
          /\ text' = [text EXCEPT ![e.node] = <<>>]
  /\ UNCHANGED open

(* A descriptor, at its start, of the node the path leads to. *)
Open(t, s, p, i) ==
  /\ open[t][s] = NULL
  /\ open' = [open EXCEPT ![t][s] = [node |-> i, offset |-> 0]]
  /\ Leads(p, i)
  /\ UNCHANGED <<entries, kind, text>>

(* The path becomes one name more of the file that a descriptor is of. *)
Link(t, s, p, d) ==
  /\ kind[open[t][s].node] = "NF"
  /\ UNCHANGED <<kind, text, open>>
  /\ Free(p, d)
  /\ entries' = entries \cup {Name(d, Last(p), open[t][s].node)}

Close(t, s) ==
  /\ open' = [open EXCEPT ![t][s] = NULL]
  /\ UNCHANGED <<entries, kind, text>>

Overwritten(old, at, w) ==
  SubSeq(old, 1, at) \o w \o SubSeq(old, at + Len(w) + 1, Len(old))

Write(t, s, w) ==
  LET f == open[t][s]
  IN  /\ kind[f.node] = "NF"
      /\ f.offset <= Len(text[f.node])
      /\ text' = [text EXCEPT ![f.node] = Overwritten(@, f.offset, w)]
      /\ UNCHANGED <<entries, kind, open>>

Seek(t, s) ==
  /\ open' = [open EXCEPT ![t][s].offset = open'[t][s].offset]
  /\ UNCHANGED <<entries, kind, text>>

Next ==
  \/ \E t \in Tasks, s \in Slots :
       \/ /\ open[t][s] # NULL
          /\ \/ Close(t, s) \/ Seek(t, s)
             \/ \E w \in Writes : Write(t, s, w)
             \/ \E p \in Paths, d \in Nodes : Link(t, s, p, d)
       \/ \E i \in Nodes, p \in Paths : Open(t, s, p, i)
  \/ \E i \in Nodes, k \in {"NF", "DR"}, p \in Paths, d \in Nodes : Make(p, d, i, k)
  \/ \E e \in entries, p \in Paths : Unname(p, e)

Spec == Init /\ [][Next]_vars

=============================================================================
