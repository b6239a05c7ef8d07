---------------------------- MODULE ScreenProofs ----------------------------
(***************************************************************************)
(* Proofs about the terminals' screen, for any number of terminals and a   *)
(* screen of any size.                                                     *)
(***************************************************************************)
EXTENDS Screen, TLAPS

-----------------------------------------------------------------------------
(* Lines and cells *)

LEMMA Sizes == size \in Nat /\ size >= 2 * Columns /\ Columns \in Nat /\ Columns > 1
<1>1. Columns * (Lines - 2) >= 0
  BY ScreenAssumption
<1>2. Columns * Lines = Columns * 2 + Columns * (Lines - 2)
  BY ScreenAssumption
<1>3. QED
  BY <1>1, <1>2, ScreenAssumption DEF size

(* The column a carriage return goes to is in the line it comes from, and one
   line down is another line or the end of the screen. *)
LEMMA LineStart ==
  ASSUME NEW c \in Cells
  PROVE  /\ c - (c % Columns) \in Cells
         /\ c - (c % Columns) <= c
         /\ (c - (c % Columns)) \div Columns = c \div Columns
         /\ c - (c % Columns) + Columns <= size
<1> DEFINE d == c \div Columns
           m == c % Columns
<1>1. c \in Nat /\ c < Columns * Lines /\ Columns \in Nat /\ Columns > 1 /\ Lines \in Nat
  BY ScreenAssumption, Sizes DEF Cells, size
<1>2. d \in Nat /\ m \in 0 .. Columns - 1 /\ c = Columns * d + m
  BY <1>1
<1>3. (Columns * d) \div Columns = d
  BY <1>1, <1>2
<1> HIDE DEF d, m
<1>4. Columns * d < Columns * Lines
  BY <1>1, <1>2
<1>5. d < Lines
  <2>1. SUFFICES ASSUME d >= Lines PROVE FALSE
    BY <1>1, <1>2
  <2>2. Columns * (d - Lines) >= 0
    BY <1>1, <1>2, <2>1
  <2>3. QED
    BY <1>1, <1>2, <1>4, <2>2
<1>6. Columns * (Lines - d - 1) >= 0
  BY <1>1, <1>2, <1>5
<1>7. Columns * d + Columns <= Columns * Lines
  BY <1>1, <1>2, <1>6
<1>8. c - m = Columns * d /\ Columns * d >= 0
  BY <1>1, <1>2
<1>9. QED
  BY <1>1, <1>2, <1>3, <1>7, <1>8 DEF d, m, Cells, size

-----------------------------------------------------------------------------
(* One character *)

(* A terminal in the middle of tty_putc: the cursor may be behind the screen. *)
Moving == [ch : [Cells -> Chars], dirty : SUBSET Cells, cursor : 0 .. size]

LEMMA Still == \A t \in Term : t \in Moving
<1>1. Cells \subseteq 0 .. size
  BY Sizes DEF Cells
<1>2. QED
  BY <1>1 DEF Term, Moving

LEMMA ScrollUp ==
  ASSUME NEW t \in Moving, t.cursor = size
  PROVE  /\ tty_upd_scrollup(t) \in Term
         /\ tty_upd_scrollup(t).cursor = size - Columns
         /\ \A i \in Cells : tty_upd_scrollup(t).ch[i] = IF i + Columns \in Cells THEN t.ch[i + Columns] ELSE "nul"
<1> DEFINE s == tty_upd_scrollup(t)
<1>1. s.cursor = size - Columns /\ s.cursor \in Cells
  BY Sizes DEF tty_upd_scrollup, Cells
<1>2. s.dirty \in SUBSET Cells
  BY DEF tty_upd_scrollup
<1>3. ASSUME NEW i \in Cells
      PROVE  s.ch[i] = IF i + Columns \in Cells THEN t.ch[i + Columns] ELSE "nul"
  BY Sizes DEF tty_upd_scrollup, Cells
<1>4. s.ch \in [Cells -> Chars]
  BY <1>3 DEF tty_upd_scrollup, Moving, Chars
<1>5. QED
  BY <1>1, <1>2, <1>3, <1>4 DEF tty_upd_scrollup, Term

LEMMA ScrolledKeeps ==
  ASSUME NEW t \in Moving, NEW cells, t.cursor # size => cells \subseteq Cells
  PROVE  /\ Scrolled(t, cells) \in Term
         /\ t.dirty = Cells => Scrolled(t, cells).dirty = Cells
<1>1. CASE t.cursor = size
  <2>1. tty_upd_scrollup(t) \in Term
    BY <1>1, ScrollUp
  <2>2. QED
    BY <1>1, <2>1 DEF Scrolled, Marked, Term
<1>2. CASE t.cursor # size
  BY <1>2, Sizes DEF Scrolled, Marked, Term, Moving, Cells
<1>3. QED
  BY <1>1, <1>2

(* A line down, from the start of the line. *)
LEMMA LineDown ==
  ASSUME NEW t \in Term
  PROVE  /\ tty_upd_cr(t) \in Term
         /\ tty_upd_lf(tty_upd_cr(t)) \in Moving
         /\ tty_upd_cr(t) = [t EXCEPT !.cursor = t.cursor - (t.cursor % Columns)]
         /\ tty_upd_lf(tty_upd_cr(t)) = [t EXCEPT !.cursor = t.cursor - (t.cursor % Columns) + Columns]
<1> DEFINE c == t.cursor - (t.cursor % Columns)
<1>1. c \in Cells /\ c + Columns \in 0 .. size
  <2>1. t.cursor \in Cells
    BY DEF Term
  <2>2. c \in Cells /\ c + Columns <= size
    BY <2>1, LineStart
  <2>3. QED
    BY <2>2, Sizes DEF Cells
<1>2. tty_upd_cr(t) = [t EXCEPT !.cursor = c]
  BY DEF tty_upd_cr
<1> HIDE DEF c
<1>3. tty_upd_lf([t EXCEPT !.cursor = c]) = [t EXCEPT !.cursor = c + Columns]
  BY DEF tty_upd_lf, Term
<1>4. QED
  BY <1>1, <1>2, <1>3 DEF Term, Moving, c

LEMMA NewlineKeeps ==
  ASSUME NEW t \in Term
  PROVE  Newline(t) \in Term /\ (t.dirty = Cells => Newline(t).dirty = Cells)
<1> DEFINE u == tty_upd_lf(tty_upd_cr(t))
<1>1. u \in Moving /\ u.dirty = t.dirty
  BY LineDown DEF Term
<1>2. Line(u.cursor - Columns) \cup Line(u.cursor) \subseteq Cells
  BY DEF Line
<1> HIDE DEF u
<1>3. /\ Scrolled(u, Line(u.cursor - Columns) \cup Line(u.cursor)) \in Term
      /\ u.dirty = Cells => Scrolled(u, Line(u.cursor - Columns) \cup Line(u.cursor)).dirty = Cells
  BY <1>1, <1>2, ScrolledKeeps
<1>4. QED
  BY <1>1, <1>3 DEF Newline, u

LEMMA ReturnKeeps ==
  ASSUME NEW t \in Term
  PROVE  LET u == tty_upd_cr(t)
             v == Marked(u, Line(u.cursor))
         IN v \in Term /\ (t.dirty = Cells => v.dirty = Cells)
<1> DEFINE u == tty_upd_cr(t)
<1>1. u \in Term /\ u.dirty = t.dirty
  BY LineDown DEF Term
<1> HIDE DEF u
<1>2. Marked(u, Line(u.cursor)) \in Term /\ Marked(u, Line(u.cursor)).dirty = u.dirty \cup Line(u.cursor)
  BY <1>1 DEF Marked, Term, Line
<1>3. QED
  BY <1>1, <1>2 DEF u, Line

LEMMA BackspaceTyped ==
  ASSUME NEW t \in Term
  PROVE  LET u == tty_upd_backsp(t)
         IN u \in Term /\ u.dirty = t.dirty /\ u.cursor + 1 \in Cells
<1> DEFINE u == tty_upd_backsp(t)
<1>1. size \in Nat /\ size > 1
  BY Sizes
<1>2. CASE t.cursor > 0
  <2>1. t.cursor - 1 \in Cells /\ "nul" \in Chars
    BY <1>2, <1>1 DEF Term, Cells, Chars
  <2>2. u = [t EXCEPT !.cursor = t.cursor - 1, !.ch = [t.ch EXCEPT ![t.cursor - 1] = "nul"]]
    BY <1>2 DEF tty_upd_backsp, Term
  <2>3. [t.ch EXCEPT ![t.cursor - 1] = "nul"] \in [Cells -> Chars]
    BY <2>1 DEF Term
  <2> HIDE DEF u
  <2>4. u.cursor = t.cursor - 1 /\ u.dirty = t.dirty /\ u \in Term
    BY <2>1, <2>2, <2>3 DEF Term
  <2>5. QED
    BY <2>4, <1>2 DEF Term, Cells, u
<1>3. CASE t.cursor = 0
  BY <1>1, <1>3 DEF tty_upd_backsp, Cells
<1>4. QED
  BY <1>1, <1>2, <1>3 DEF Term, Cells

LEMMA BackspaceKeeps ==
  ASSUME NEW t \in Term
  PROVE  Backspace(t) \in Term /\ (t.dirty = Cells => Backspace(t).dirty = Cells)
<1> DEFINE u == tty_upd_backsp(t)
<1>1. u \in Term /\ u.dirty = t.dirty /\ u.cursor + 1 \in Cells
  BY BackspaceTyped
<1> HIDE DEF u
<1>2. /\ Marked(u, {u.cursor, u.cursor + 1}) \in Term
      /\ Marked(u, {u.cursor, u.cursor + 1}).dirty = u.dirty \cup {u.cursor, u.cursor + 1}
  BY <1>1 DEF Marked, Term
<1>3. QED
  BY <1>1, <1>2 DEF Backspace, Term, u

LEMMA LetterTyped ==
  ASSUME NEW t \in Term, NEW c \in Letters
  PROVE  LET u == tty_upd_putc(t, c)
         IN /\ u \in Moving /\ u.dirty = t.dirty /\ u.cursor = t.cursor + 1
            /\ u.ch = [t.ch EXCEPT ![t.cursor] = c]
<1> DEFINE u == tty_upd_putc(t, c)
<1>1. u = [t EXCEPT !.cursor = t.cursor + 1, !.ch = [t.ch EXCEPT ![t.cursor] = c]]
  BY DEF tty_upd_putc, Term
<1>2. [t.ch EXCEPT ![t.cursor] = c] \in [Cells -> Chars]
  BY DEF Term, Chars
<1>3. t.cursor + 1 \in 0 .. size
  BY Sizes DEF Term, Cells
<1> HIDE DEF u
<1>4. QED
  BY <1>1, <1>2, <1>3 DEF Term, Moving, u

LEMMA LetterKeeps ==
  ASSUME NEW t \in Term, NEW c \in Letters
  PROVE  Letter(t, c) \in Term /\ (t.dirty = Cells => Letter(t, c).dirty = Cells)
<1> DEFINE u == tty_upd_putc(t, c)
<1>1. u \in Moving /\ u.dirty = t.dirty /\ u.cursor = t.cursor + 1
  BY LetterTyped
<1>2. u.cursor # size => {u.cursor - 1, u.cursor} \subseteq Cells
  BY <1>1, Sizes DEF Term, Cells
<1> HIDE DEF u
<1>3. QED
  BY <1>1, <1>2, ScrolledKeeps DEF Letter, u

LEMMA PutcKeeps ==
  ASSUME NEW t \in Term, NEW c \in Letters \cup Controls
  PROVE  tty_putc(t, c) \in Term /\ (t.dirty = Cells => tty_putc(t, c).dirty = Cells)
<1>1. CASE c = "return"
  BY <1>1, ReturnKeeps DEF tty_putc
<1>2. CASE c = "backspace"
  BY <1>2, BackspaceKeeps DEF tty_putc
<1>3. CASE c = "newline"
  BY <1>3, NewlineKeeps DEF tty_putc
<1>4. CASE c \notin Controls
  BY <1>4, LetterKeeps DEF tty_putc, Controls
<1>5. QED
  BY <1>1, <1>2, <1>3, <1>4 DEF Controls

-----------------------------------------------------------------------------
(* What a character changes is marked *)

LEMMA MarkedLooks ==
  ASSUME NEW t, NEW u \in Moving, NEW cells,
         \A i \in Cells : i \notin cells => Look(u, i) = Look(t, i)
  PROVE  \A i \in Cells : i \notin Marked(u, cells).dirty => Look(Marked(u, cells), i) = Look(t, i)
<1>1. /\ Marked(u, cells).ch = u.ch /\ Marked(u, cells).cursor = u.cursor
      /\ Marked(u, cells).dirty = u.dirty \cup cells
  BY DEF Marked, Moving
<1>2. QED
  BY <1>1 DEF Look

LEMMA ScrolledMarks ==
  ASSUME NEW t, NEW u \in Moving, NEW cells,
         \A i \in Cells : i \notin cells => Look(u, i) = Look(t, i)
  PROVE  \A i \in Cells : i \notin Scrolled(u, cells).dirty => Look(Scrolled(u, cells), i) = Look(t, i)
<1>1. CASE u.cursor = size
  <2>1. tty_upd_scrollup(u) \in Term
    BY <1>1, ScrollUp
  <2>2. Cells \subseteq Scrolled(u, cells).dirty
    BY <1>1, <2>1 DEF Scrolled, Marked, Term
  <2>3. QED
    BY <2>2
<1>2. CASE u.cursor # size
  BY <1>2, MarkedLooks DEF Scrolled
<1>3. QED
  BY <1>1, <1>2

LEMMA CharacterMarks ==
  ASSUME NEW t \in Term, NEW c \in Letters \cup Controls
  PROVE  \A i \in Cells : i \notin tty_putc(t, c).dirty => Look(tty_putc(t, c), i) = Look(t, i)
<1> DEFINE start == t.cursor - (t.cursor % Columns)
<1>1. t.cursor \in Cells
  BY DEF Term
<1>2. start \in Cells /\ start \div Columns = t.cursor \div Columns
  BY <1>1, LineStart
<1>3. start \in Line(start) /\ t.cursor \in Line(start)
  BY <1>1, <1>2 DEF Line
<1>4. CASE c = "return"
  <2> DEFINE u == tty_upd_cr(t)
  <2>1. u \in Moving /\ u.cursor = start /\ u.ch = t.ch
    BY <1>1, <1>2, LineDown, Sizes DEF Term, Moving, Cells
  <2> HIDE DEF u, start
  <2>2. \A i \in Cells : i \notin Line(start) => Look(u, i) = Look(t, i)
    BY <2>1, <1>3 DEF Look
  <2>3. tty_putc(t, c) = Marked(u, Line(start))
    BY <1>4, <2>1 DEF tty_putc, u
  <2>4. QED
    BY <2>1, <2>2, <2>3, MarkedLooks
<1>5. CASE c = "backspace"
  <2> DEFINE u == tty_upd_backsp(t)
             cells == {u.cursor, u.cursor + 1}
  <2>1. u \in Moving
    BY BackspaceTyped, Still
  <2>2. \A i \in Cells : i \notin cells => Look(u, i) = Look(t, i)
    <3>1. CASE t.cursor > 0
      <4>1. u = [t EXCEPT !.cursor = t.cursor - 1, !.ch = [t.ch EXCEPT ![t.cursor - 1] = "nul"]]
        BY <3>1 DEF tty_upd_backsp, Term
      <4>2. u.cursor = t.cursor - 1 /\ u.ch = [t.ch EXCEPT ![t.cursor - 1] = "nul"]
        BY <4>1 DEF Term
      <4>3. u.cursor + 1 = t.cursor
        BY <4>2, <1>1 DEF Cells
      <4> HIDE DEF u
      <4>4. QED
        BY <4>2, <4>3 DEF Look, Term
    <3>2. CASE ~(t.cursor > 0)
      BY <3>2 DEF tty_upd_backsp
    <3>3. QED
      BY <3>1, <3>2
  <2>3. tty_putc(t, c) = Marked(u, cells)
    BY <1>5 DEF tty_putc, Backspace
  <2> HIDE DEF u, cells
  <2>4. QED
    BY <2>1, <2>2, <2>3, MarkedLooks
<1>6. CASE c = "newline"
  <2> DEFINE u == tty_upd_lf(tty_upd_cr(t))
             cells == Line(u.cursor - Columns) \cup Line(u.cursor)
  <2>1. u \in Moving /\ u.cursor = start + Columns /\ u.ch = t.ch
    BY LineDown DEF Term
  <2>2. u.cursor - Columns = start
    BY <2>1, <1>2, Sizes DEF Cells
  <2> HIDE DEF u, start
  <2>3. \A i \in Cells : i \notin cells => Look(u, i) = Look(t, i)
    <3>1. t.cursor \in cells
      BY <2>2, <1>3
    <3>2. u.cursor \in Cells => u.cursor \in cells
      BY DEF Line
    <3> HIDE DEF cells
    <3>3. QED
      BY <2>1, <3>1, <3>2 DEF Look
  <2>4. tty_putc(t, c) = Scrolled(u, cells)
    BY <1>6 DEF tty_putc, Newline, u
  <2> HIDE DEF cells
  <2>5. QED
    BY <2>1, <2>3, <2>4, ScrolledMarks
<1>7. CASE c \notin Controls
  <2> DEFINE u == tty_upd_putc(t, c)
             cells == {u.cursor - 1, u.cursor}
  <2>1. u \in Moving /\ u.cursor = t.cursor + 1 /\ u.ch = [t.ch EXCEPT ![t.cursor] = c]
    BY <1>7, LetterTyped
  <2>2. u.cursor - 1 = t.cursor
    BY <2>1, <1>1 DEF Cells
  <2> HIDE DEF u
  <2>3. \A i \in Cells : i \notin cells => Look(u, i) = Look(t, i)
    BY <2>1, <2>2 DEF Look, Term
  <2>4. tty_putc(t, c) = Scrolled(u, cells)
    BY <1>7 DEF tty_putc, Letter, Controls, u
  <2> HIDE DEF cells
  <2>5. QED
    BY <2>1, <2>3, <2>4, ScrolledMarks
<1>8. QED
  BY <1>4, <1>5, <1>6, <1>7 DEF Controls

(* tty_putc marks what it changes, on a screen of any size. *)
LEMMA Marks == TypeOK => MarksSuffice
<1>1. SUFFICES ASSUME TypeOK, NEW d \in Displays, NEW c \in Letters \cup Controls
               PROVE  LET t == [term[d] EXCEPT !.dirty = {}]
                          u == tty_putc(t, c)
                      IN {i \in Cells : Look(u, i) # Look(t, i)} \subseteq u.dirty
  BY DEF MarksSuffice
<1> DEFINE t == [term[d] EXCEPT !.dirty = {}]
<1>2. t \in Term
  BY <1>1 DEF TypeOK, Term
<1> HIDE DEF t
<1>3. \A i \in Cells : i \notin tty_putc(t, c).dirty => Look(tty_putc(t, c), i) = Look(t, i)
  BY <1>2, CharacterMarks
<1>4. QED
  BY <1>3 DEF t

(* A backspace takes the letter before it back. *)
LEMMA Takes == TypeOK => EchoTakenBack
<1>1. SUFFICES ASSUME TypeOK, NEW d \in Displays, NEW c \in Letters, term[d].ch[term[d].cursor] = "nul"
               PROVE  LET t == term[d]
                          typed == tty_putc(t, c)
                          erased == tty_putc(typed, "backspace")
                          up == size - 1 - erased.cursor
                      IN IF t.cursor < size - 1
                         THEN erased.cursor = t.cursor /\ erased.ch = t.ch
                         ELSE /\ up = Columns
                              /\ \A i \in Cells : erased.ch[i] = IF i + up \in Cells THEN t.ch[i + up] ELSE "nul"
  BY DEF EchoTakenBack
<1> DEFINE t == term[d]
           k == t.cursor
           u == tty_upd_putc(t, c)
           typed == tty_putc(t, c)
           back == tty_upd_backsp(typed)
           erased == tty_putc(typed, "backspace")
<1>2. t \in Term /\ k \in Cells /\ t.ch[k] = "nul" /\ c \notin Controls
  BY <1>1, ScreenAssumption DEF TypeOK, Term
<1> HIDE DEF t
<1>3. u \in Moving /\ u.cursor = k + 1 /\ u.ch = [t.ch EXCEPT ![k] = c]
  BY <1>2, LetterTyped
<1>4. typed = Scrolled(u, {u.cursor - 1, u.cursor})
  BY <1>2 DEF tty_putc, Letter, Controls
<1>5. typed \in Term
  BY <1>2, PutcKeeps
<1> HIDE DEF u, typed
<1>6. typed.cursor > 0 => /\ back.cursor = typed.cursor - 1
                         /\ back.ch = [typed.ch EXCEPT ![typed.cursor - 1] = "nul"]
  <2>1. SUFFICES ASSUME typed.cursor > 0 PROVE back.cursor = typed.cursor - 1
                         /\ back.ch = [typed.ch EXCEPT ![typed.cursor - 1] = "nul"]
    OBVIOUS
  <2>2. back = [typed EXCEPT !.cursor = typed.cursor - 1, !.ch = [typed.ch EXCEPT ![typed.cursor - 1] = "nul"]]
    BY <1>5, <2>1 DEF tty_upd_backsp, Term
  <2>3. QED
    BY <1>5, <2>2 DEF Term
<1>7. erased.cursor = back.cursor /\ erased.ch = back.ch
  <2>1. erased = Marked(back, {back.cursor, back.cursor + 1})
    BY DEF tty_putc, Backspace
  <2>2. back \in Term
    BY <1>5, BackspaceTyped
  <2> HIDE DEF back, erased
  <2>3. QED
    BY <2>1, <2>2 DEF Marked, Term
<1> HIDE DEF back, erased
<1>8. CASE k < size - 1
  <2>1. u.cursor # size
    BY <1>2, <1>3, <1>8, Sizes DEF Cells
  <2>2. typed.cursor = k + 1 /\ typed.ch = u.ch
    BY <1>3, <1>4, <2>1 DEF Scrolled, Marked, Moving
  <2>3. erased.cursor = k /\ erased.ch = [u.ch EXCEPT ![k] = "nul"]
    BY <1>2, <1>6, <1>7, <2>2 DEF Cells
  <2>4. t.ch \in [Cells -> Chars]
    BY <1>2 DEF Term
  <2>5. [u.ch EXCEPT ![k] = "nul"] = t.ch
    BY <1>2, <1>3, <2>4
  <2>6. QED
    BY <1>8, <2>3, <2>5 DEF t, typed, erased
<1>9. CASE ~(k < size - 1)
  <2> DEFINE s == tty_upd_scrollup(u)
  <2>1. k = size - 1 /\ u.cursor = size
    BY <1>2, <1>3, <1>9, Sizes DEF Cells
  <2>2. /\ s \in Term /\ s.cursor = size - Columns
        /\ \A i \in Cells : s.ch[i] = IF i + Columns \in Cells THEN u.ch[i + Columns] ELSE "nul"
    BY <1>3, <2>1, ScrollUp
  <2> HIDE DEF s
  <2>3. typed.cursor = size - Columns /\ typed.ch = s.ch
    BY <1>4, <2>1, <2>2 DEF Scrolled, Marked, Term, s
  <2>4. erased.cursor = size - Columns - 1 /\ erased.ch = [s.ch EXCEPT ![size - Columns - 1] = "nul"]
    BY <1>6, <1>7, <2>3, Sizes
  <2>5. size - 1 - erased.cursor = Columns
    BY <2>4, Sizes
  <2>6. ASSUME NEW i \in Cells
        PROVE  erased.ch[i] = IF i + Columns \in Cells THEN t.ch[i + Columns] ELSE "nul"
    <3>1. DOMAIN s.ch = Cells /\ DOMAIN t.ch = Cells
      BY <1>2, <2>2 DEF Term
    <3>2. CASE i = size - Columns - 1
      <4>1. i + Columns = k
        BY <2>1, <3>2, Sizes
      <4>2. QED
        BY <1>2, <2>4, <3>1, <3>2, <4>1
    <3>3. CASE i # size - Columns - 1
      <4>1. i + Columns # k
        BY <2>1, <3>3, Sizes DEF Cells
      <4>2. erased.ch[i] = s.ch[i]
        BY <2>4, <3>1, <3>3
      <4>3. i + Columns \in Cells => u.ch[i + Columns] = t.ch[i + Columns]
        BY <1>3, <3>1, <4>1
      <4>4. QED
        BY <2>2, <4>2, <4>3
    <3>4. QED
      BY <3>2, <3>3
  <2>7. QED
    BY <1>9, <2>5, <2>6 DEF t, typed, erased
<1>10. QED
  BY <1>8, <1>9 DEF t, typed, erased

-----------------------------------------------------------------------------
(* What is on the screen *)

(* Where the tasks can be.  tty_task is at the current terminal except while it
   switches. *)
Places ==
  /\ \A d \in Displays : dev[d] = d /\ pc[d] \in {"idle", "put", "render", "draw"}
  /\ pc[TTYTASK] # "put"
  /\ pc[TTYTASK] # "switch" => dev[TTYTASK] = current

(* Who puts a text or draws holds the terminal's lock. *)
Holds == \A t \in Tasks : pc[t] \in {"put", "draw"} => lock[dev[t]] = t

(* A mark is never taken away. *)
AllMarked == \A d \in Displays : term[d].dirty = Cells

Pending == \E t \in Tasks : dev[t] = current /\ pc[t] \in {"put", "redraw", "render"}

(* A cell of the current terminal is shown as it is, unless a task has put a text
   and not begun to draw, or is drawing and has not come to the cell. *)
Drawn ==
  ~Pending =>
    \A i \in Cells :
      (\A t \in Tasks : dev[t] = current /\ pc[t] = "draw" => i < pos[t])
        => vram[i] = Look(term[current], i)

ScreenInv == TypeOK /\ Places /\ Holds /\ AllMarked /\ Drawn

USE DEF Tasks

LEMMA InitInv == Init => ScreenInv
<1> SUFFICES ASSUME Init PROVE ScreenInv
  OBVIOUS
<1> USE ScreenAssumption
<1>1. size \in Nat /\ size > 1
  BY Sizes
<1>2. TypeOK
  BY <1>1 DEF Init, TypeOK, Term, Cells, Chars
<1>3. Places /\ Holds
  BY DEF Init, Places, Holds
<1>4. AllMarked
  BY DEF Init, AllMarked
<1>5. Pending
  BY DEF Init, Pending
<1>6. QED
  BY <1>2, <1>3, <1>4, <1>5 DEF ScreenInv, Drawn

LEMMA PutcInv ==
  ASSUME ScreenInv, NEW t \in Tasks, NEW c \in Input, NEW last \in BOOLEAN, Putc(t, c, last)
  PROVE  ScreenInv'
<1> USE ScreenAssumption
<1>1. dev[t] \in Displays /\ term[dev[t]] \in Term /\ term[dev[t]].dirty = Cells
  BY DEF ScreenInv, TypeOK, AllMarked
<1>2. tty_putc(term[dev[t]], c) \in Term /\ tty_putc(term[dev[t]], c).dirty = Cells
  BY <1>1, PutcKeeps
<1>3. term' = [term EXCEPT ![dev[t]] = tty_putc(term[dev[t]], c)]
  BY DEF Putc
<1>4. TypeOK' /\ AllMarked'
  BY <1>1, <1>2, <1>3 DEF ScreenInv, TypeOK, AllMarked, Putc, Goto
<1>5. Places'
  BY DEF ScreenInv, TypeOK, Places, Putc, Goto
<1>6. Holds'
  BY <1>1 DEF ScreenInv, TypeOK, Holds, Putc, Goto
<1>7. Drawn'
  <2>1. CASE dev[t] = current
    <3>1. Pending'
      BY <2>1 DEF ScreenInv, TypeOK, Pending, Putc, Goto
    <3>2. QED
      BY <3>1 DEF Drawn
  <2>2. CASE dev[t] # current
    <3>1. Pending' <=> Pending
      BY <2>2 DEF ScreenInv, TypeOK, Pending, Putc, Goto
    <3>2. term'[current'] = term[current] /\ vram' = vram
      BY <2>2, <1>3 DEF ScreenInv, TypeOK, Putc
    <3>3. \A u \in Tasks : dev'[u] = current' /\ pc'[u] = "draw" <=> dev[u] = current /\ pc[u] = "draw"
      BY <2>2 DEF ScreenInv, TypeOK, Putc, Goto
    <3>4. pos' = pos
      BY DEF Putc
    <3>5. QED
      BY <3>1, <3>2, <3>3, <3>4 DEF ScreenInv, Drawn, Look
  <2>3. QED
    BY <2>1, <2>2
<1>8. QED
  BY <1>4, <1>5, <1>6, <1>7 DEF ScreenInv

LEMMA PutNothingInv ==
  ASSUME ScreenInv, NEW t \in Tasks, PutNothing(t)
  PROVE  ScreenInv'
<1> USE ScreenAssumption
<1>1. TypeOK' /\ AllMarked'
  BY DEF ScreenInv, TypeOK, AllMarked, PutNothing, Goto
<1>2. Places' /\ Holds'
  BY DEF ScreenInv, TypeOK, Places, Holds, PutNothing, Goto
<1>3. Drawn'
  <2>1. CASE dev[t] = current
    <3>1. Pending'
      BY <2>1 DEF ScreenInv, TypeOK, Pending, PutNothing, Goto
    <3>2. QED
      BY <3>1 DEF Drawn
  <2>2. CASE dev[t] # current
    <3>1. Pending' <=> Pending
      BY <2>2 DEF ScreenInv, TypeOK, Pending, PutNothing, Goto
    <3>2. \A u \in Tasks : dev'[u] = current' /\ pc'[u] = "draw" <=> dev[u] = current /\ pc[u] = "draw"
      BY <2>2 DEF ScreenInv, TypeOK, PutNothing, Goto
    <3>3. UNCHANGED <<term, vram, current, pos>>
      BY DEF PutNothing
    <3>4. QED
      BY <3>1, <3>2, <3>3 DEF ScreenInv, Drawn, Look
  <2>3. QED
    BY <2>1, <2>2
<1>4. QED
  BY <1>1, <1>2, <1>3 DEF ScreenInv

LEMMA RenderInv ==
  ASSUME ScreenInv, NEW t \in Tasks, Render(t)
  PROVE  ScreenInv'
<1> USE ScreenAssumption
<1>1. 0 \in Cells
  BY Sizes DEF Cells
<1>2. TypeOK' /\ AllMarked'
  BY <1>1 DEF ScreenInv, TypeOK, AllMarked, Render, Goto
<1>3. Places'
  BY DEF ScreenInv, TypeOK, Places, Render, Goto
<1>4. Holds'
  BY DEF ScreenInv, TypeOK, Holds, Render, Goto
<1>5. Drawn'
  <2>1. UNCHANGED <<term, vram, current, dev>> /\ pos' = [pos EXCEPT ![t] = 0]
    BY DEF Render
  <2>2. CASE dev[t] = current
    <3>1. dev'[t] = current' /\ pc'[t] = "draw" /\ pos'[t] = 0
      BY <2>2 DEF ScreenInv, TypeOK, Render, Goto
    <3>2. \A i \in Cells : ~(i < 0)
      BY Sizes DEF Cells
    <3>3. QED
      BY <3>1, <3>2 DEF Drawn
  <2>3. CASE dev[t] # current
    <3>1. Pending' <=> Pending
      BY <2>3 DEF ScreenInv, TypeOK, Pending, Render, Goto
    <3>2. \A u \in Tasks : dev'[u] = current' /\ pc'[u] = "draw" <=> dev[u] = current /\ pc[u] = "draw"
      BY <2>3 DEF ScreenInv, TypeOK, Render, Goto
    <3>3. \A u \in Tasks : dev[u] = current => pos'[u] = pos[u]
      BY <2>1, <2>3 DEF ScreenInv, TypeOK
    <3>4. QED
      BY <2>1, <3>1, <3>2, <3>3 DEF ScreenInv, Drawn, Look
  <2>4. QED
    BY <2>2, <2>3
<1>6. QED
  BY <1>2, <1>3, <1>4, <1>5 DEF ScreenInv

LEMMA DrawInv ==
  ASSUME ScreenInv, NEW t \in Tasks, Draw(t)
  PROVE  ScreenInv'
<1> USE ScreenAssumption
<1>1. /\ 0 \in Cells /\ pos[t] \in Cells /\ dev[t] \in Displays
      /\ term[dev[t]] \in Term /\ pc[t] = "draw" /\ lock[dev[t]] = t
  BY Sizes DEF ScreenInv, TypeOK, Holds, Draw, Cells
<1>2. TypeOK'
  <2>1. Look(term[dev[t]], pos[t]) \in Chars \cup {"cursor"}
    BY <1>1 DEF Look, Term
  <2>2. vram' \in [Cells -> Chars \cup {"cursor"}]
    BY <2>1, <1>1 DEF ScreenInv, TypeOK, Draw
  <2>3. pos' \in [Tasks -> Cells] /\ lock' \in [Displays -> Tasks \cup {NULL}]
    BY <1>1 DEF ScreenInv, TypeOK, Draw
  <2>4. QED
    BY <2>2, <2>3 DEF ScreenInv, TypeOK, Draw, Goto
<1>3. Places' /\ AllMarked'
  BY DEF ScreenInv, TypeOK, Places, AllMarked, Draw, Goto
<1>4. Holds'
  BY <1>1 DEF ScreenInv, TypeOK, Holds, Draw, Goto
<1>5. Drawn'
  <2>1. UNCHANGED <<term, current, dev>>
    BY DEF Draw
  <2>2. Pending' <=> Pending
    BY DEF ScreenInv, TypeOK, Pending, Draw, Goto
  <2>3. CASE dev[t] # current
    <3>1. vram' = vram
      BY <2>3 DEF Draw, Shown
    <3>2. \A u \in Tasks : dev'[u] = current' /\ pc'[u] = "draw" <=> dev[u] = current /\ pc[u] = "draw"
      BY <2>3 DEF ScreenInv, TypeOK, Draw, Goto
    <3>3. \A u \in Tasks : dev[u] = current => pos'[u] = pos[u]
      BY <2>3 DEF ScreenInv, TypeOK, Draw
    <3>4. term'[current'] = term[current]
      BY <2>1
    <3>5. ASSUME ~Pending', NEW i \in Cells,
                 \A u \in Tasks : dev'[u] = current' /\ pc'[u] = "draw" => i < pos'[u]
          PROVE  vram'[i] = Look(term[current], i)
      BY <2>2, <3>1, <3>2, <3>3, <3>5 DEF ScreenInv, Drawn
    <3>6. QED
      BY <3>4, <3>5 DEF Drawn, Look
  <2>4. CASE dev[t] = current
    <3>1. vram' = [vram EXCEPT ![pos[t]] = Look(term[current], pos[t])]
      BY <1>1, <2>4 DEF ScreenInv, AllMarked, Draw, Shown
    <3>2. \A u \in Tasks : dev[u] = current /\ pc[u] = "draw" => u = t
      BY <1>1, <2>4 DEF ScreenInv, Holds
    <3>3. ASSUME ~Pending, NEW i \in Cells,
                 \A u \in Tasks : dev'[u] = current' /\ pc'[u] = "draw" => i < pos'[u]
          PROVE  i <= pos[t]
      <4>1. CASE Done(t)
        BY <4>1, <1>1 DEF Done, Cells
      <4>2. CASE ~Done(t)
        <5>1. pc'[t] = "draw" /\ dev'[t] = current'
          BY <1>1, <2>1, <2>4, <4>2 DEF Draw
        <5>2. pos'[t] = pos[t] + 1
          <6>1. pos[t] + 1 \in Cells
            BY <1>1, <4>2, Sizes DEF Done, Cells
          <6>2. pos' = [pos EXCEPT ![t] = pos[t] + 1]
            BY <4>2, <6>1 DEF Draw
          <6>3. QED
            BY <6>2 DEF ScreenInv, TypeOK
        <5>3. QED
          BY <3>3, <5>1, <5>2, <1>1 DEF Cells
      <4>3. QED
        BY <4>1, <4>2
    <3>4. ASSUME ~Pending, NEW i \in Cells, i <= pos[t]
          PROVE  vram'[i] = Look(term[current], i)
      <4>1. CASE i = pos[t]
        BY <3>1, <4>1, <1>1 DEF ScreenInv, TypeOK
      <4>2. CASE i # pos[t]
        <5>1. i < pos[t]
          BY <3>4, <4>2, <1>1 DEF Cells
        <5>2. vram[i] = Look(term[current], i)
          BY <3>2, <3>4, <5>1 DEF ScreenInv, Drawn
        <5>3. QED
          BY <3>1, <4>2, <5>2, <1>1 DEF ScreenInv, TypeOK
      <4>3. QED
        BY <4>1, <4>2
    <3>5. ASSUME ~Pending', NEW i \in Cells,
                 \A u \in Tasks : dev'[u] = current' /\ pc'[u] = "draw" => i < pos'[u]
          PROVE  vram'[i] = Look(term[current], i)
      BY <2>2, <3>3, <3>4, <3>5
    <3>6. term'[current'] = term[current]
      BY <2>1
    <3>7. QED
      BY <3>5, <3>6 DEF Drawn, Look
  <2>5. QED
    BY <2>3, <2>4
<1>6. QED
  BY <1>2, <1>3, <1>4, <1>5 DEF ScreenInv

LEMMA SwitchInv ==
  ASSUME ScreenInv, NEW d \in Displays, Switch(d)
  PROVE  ScreenInv'
<1> USE ScreenAssumption
<1>1. /\ term[d] \in Term /\ term[d].dirty = Cells
      /\ Marked(term[d], Cells) = term[d]
  <2>1. term[d] \in Term /\ term[d].dirty = Cells
    BY DEF ScreenInv, TypeOK, AllMarked
  <2>2. QED
    BY <2>1 DEF Marked, Term
<1>2. term' = term
  BY <1>1 DEF ScreenInv, TypeOK, Switch
<1>3. TypeOK' /\ AllMarked'
  BY <1>2 DEF ScreenInv, TypeOK, AllMarked, Switch, Goto
<1>4. Places' /\ Holds'
  BY DEF ScreenInv, TypeOK, Places, Holds, Switch, Goto
<1>5. Drawn'
  <2>1. UNCHANGED <<vram, current, pos>>
    BY DEF Switch
  <2>2. Pending' <=> Pending
    BY DEF ScreenInv, TypeOK, Pending, Switch, Goto
  <2>3. \A u \in Tasks : dev'[u] = current' /\ pc'[u] = "draw" <=> dev[u] = current /\ pc[u] = "draw"
    BY DEF ScreenInv, TypeOK, Switch, Goto
  <2>4. QED
    BY <1>2, <2>1, <2>2, <2>3 DEF ScreenInv, Drawn, Look
<1>6. QED
  BY <1>3, <1>4, <1>5 DEF ScreenInv

LEMMA SetCurrentInv ==
  ASSUME ScreenInv, SetCurrent
  PROVE  ScreenInv'
<1> USE ScreenAssumption
<1>1. TypeOK' /\ AllMarked'
  BY DEF ScreenInv, TypeOK, AllMarked, SetCurrent, Goto
<1>2. Places' /\ Holds'
  BY DEF ScreenInv, TypeOK, Places, Holds, SetCurrent, Goto
<1>3. Pending'
  BY DEF ScreenInv, TypeOK, Pending, SetCurrent, Goto
<1>4. QED
  BY <1>1, <1>2, <1>3 DEF ScreenInv, Drawn

(* The screen, the locks and the tasks agree step by step. *)
THEOREM Invariant == Spec => []ScreenInv
<1>1. Init => ScreenInv
  BY InitInv
<1>2. ScreenInv /\ [Next]_vars => ScreenInv'
  <2> SUFFICES ASSUME ScreenInv, [Next]_vars PROVE ScreenInv'
    OBVIOUS
  <2>1. ASSUME NEW t \in Tasks, NEW c \in Input, NEW last \in BOOLEAN, Putc(t, c, last) PROVE ScreenInv'
    BY <2>1, PutcInv
  <2>2. ASSUME NEW t \in Tasks, PutNothing(t) PROVE ScreenInv'
    BY <2>2, PutNothingInv
  <2>3. ASSUME NEW t \in Tasks, Render(t) PROVE ScreenInv'
    BY <2>3, RenderInv
  <2>4. ASSUME NEW t \in Tasks, Draw(t) PROVE ScreenInv'
    BY <2>4, DrawInv
  <2>5. ASSUME NEW d \in Displays, Switch(d) PROVE ScreenInv'
    BY <2>5, SwitchInv
  <2>6. CASE SetCurrent
    BY <2>6, SetCurrentInv
  <2>7. CASE UNCHANGED vars
    BY <2>7 DEF vars, ScreenInv, TypeOK, Places, Holds, AllMarked, Drawn, Pending, Look
  <2>8. QED
    BY <2>1, <2>2, <2>3, <2>4, <2>5, <2>6, <2>7 DEF Next
<1>3. QED
  BY <1>1, <1>2, PTL DEF Spec

(* Terminals hold characters and their cursors are inside the screen, whatever
   is written: scrolling keeps them there. *)
THEOREM TypeCorrect == Spec => []TypeOK
<1>1. ScreenInv => TypeOK
  BY DEF ScreenInv
<1>2. QED
  BY <1>1, Invariant, PTL

(* When nobody is writing to the current terminal, the screen shows it. *)
THEOREM Shows == Spec => []ScreenShowsCurrent
<1>1. ScreenInv => ScreenShowsCurrent
  <2> SUFFICES ASSUME ScreenInv, ~Writing(current), NEW i \in Cells
               PROVE  vram[i] = Look(term[current], i)
    BY DEF ScreenShowsCurrent
  <2>1. \A t \in Tasks : dev[t] = current => pc[t] = "idle"
    BY DEF Writing
  <2>2. QED
    BY <2>1 DEF ScreenInv, Drawn, Pending
<1>2. QED
  BY <1>1, Invariant, PTL

(* tty_putc marks every cell it changes. *)
THEOREM MarksEnough == Spec => []MarksSuffice
<1>1. ScreenInv => MarksSuffice
  BY Marks DEF ScreenInv
<1>2. QED
  BY <1>1, Invariant, PTL

(* The echo of a backspace takes the one before it back. *)
THEOREM EchoErased == Spec => []EchoTakenBack
<1>1. ScreenInv => EchoTakenBack
  BY Takes DEF ScreenInv
<1>2. QED
  BY <1>1, Invariant, PTL

=============================================================================
