------------------------------- MODULE Screen -------------------------------
(***************************************************************************)
(* What is drawn: tty_write, tty_render and the switch between terminals   *)
(* of kernel/src/devices/tty/tty.c, over the frame buffer of               *)
(* kernel/src/devices/video/video.c.                                       *)
(*                                                                         *)
(* All terminals share one screen.  A write changes the terminal's         *)
(* characters under tty->lock, gives the lock up, takes it again and draws *)
(* cell by cell; fb_write drops the cells of a terminal that is not the    *)
(* current one at that moment, and tty_task changes the current one        *)
(* without tty->lock.                                                      *)
(*                                                                         *)
(* A task is named by the display it writes to; there is one for each,     *)
(* a shell or echo task, besides tty_task.  A task that waits for the lock *)
(* to put a text is still idle.  A cell is two sprites drawn in one call   *)
(* of fb_write, whose body fb_sem makes one step.                          *)
(*                                                                         *)
(* A definition whose name begins with Faulty is a variant of the one that *)
(* follows it with a slip in it, which no action uses.                     *)
(***************************************************************************)
EXTENDS Integers

CONSTANTS
  Displays,    \* the terminals, by tty->display
  TTYTASK,     \* the task that echoes and switches
  Columns, Lines,
  Letters,     \* characters that are drawn as themselves
  Input,       \* the characters that are written
  NULL

Chars == Letters \cup {"nul"}
Controls == {"newline", "return", "backspace"}

ASSUME ScreenAssumption ==
  /\ Columns \in Nat /\ Columns > 1 /\ Lines \in Nat /\ Lines > 1
  /\ Letters \cap ({"nul", "cursor"} \cup Controls) = {}
  /\ Input \subseteq Letters \cup Controls
  /\ 0 \in Displays /\ TTYTASK \notin Displays /\ NULL \notin Displays \cup {TTYTASK}

size == Columns * Lines
Cells == 0 .. size - 1
Tasks == Displays \cup {TTYTASK}

VARIABLES
  term,     \* each tty_t: its characters, dirty marks and cursor
  lock,     \* the task that holds tty->lock
  current,  \* fb->info->current
  vram,     \* what the screen shows
  pc,       \* where each task is in tty_write
  dev,      \* the terminal a task writes to; tty_task's ttydev
  pos       \* the next cell a task draws

vars == <<term, lock, current, vram, pc, dev, pos>>

Term == [ch : [Cells -> Chars], dirty : SUBSET Cells, cursor : Cells]

(* Terminals hold characters, and between two calls the cursor is inside. *)
TypeOK ==
  /\ term \in [Displays -> Term]
  /\ lock \in [Displays -> Tasks \cup {NULL}]
  /\ current \in Displays
  /\ vram \in [Cells -> Chars \cup {"cursor"}]
  /\ pc \in [Tasks -> {"idle", "put", "switch", "redraw", "render", "draw"}]
  /\ dev \in [Tasks -> Displays]
  /\ pos \in [Tasks -> Cells]

(* tty_init, fb_init and the start of tty_task, which renders tty1. *)
Init ==
  /\ term = [d \in Displays |->
               [ch |-> [i \in Cells |-> "nul"], dirty |-> Cells, cursor |-> 0]]
  /\ lock = [d \in Displays |-> NULL]
  /\ current = 0
  /\ vram = [i \in Cells |-> "nul"]
  /\ pc = [t \in Tasks |-> IF t = TTYTASK THEN "render" ELSE "idle"]
  /\ dev = [t \in Tasks |-> IF t = TTYTASK THEN 0 ELSE t]
  /\ pos = [t \in Tasks |-> 0]

-----------------------------------------------------------------------------
(* One character on a terminal.  The cursor may be at size, one past the last
   cell, in between. *)

Line(i) == {j \in Cells : j \div Columns = i \div Columns}

Marked(t, cells) == [t EXCEPT !.dirty = @ \cup cells]

tty_upd_scrollup(t) ==
  LET Up(i) == i + Columns
      start == t.cursor - Columns
  IN [ch |-> [i \in Cells |-> IF i \in start .. start + Columns - 1 THEN "nul"
                              ELSE IF Up(i) \in Cells THEN t.ch[Up(i)] ELSE t.ch[i]],
      dirty |-> {i \in Cells : (IF Up(i) \in Cells THEN Up(i) ELSE i) \in t.dirty},
      cursor |-> start]

Scrolled(t, cells) ==
  IF t.cursor = size THEN Marked(tty_upd_scrollup(t), Cells) ELSE Marked(t, cells)

tty_upd_cr(t) == [t EXCEPT !.cursor = @ - (@ % Columns)]

tty_upd_lf(t) == [t EXCEPT !.cursor = @ + Columns]

FaultyBacksp(t) == [t EXCEPT !.cursor = IF @ > 0 THEN @ - 1 ELSE @]

tty_upd_backsp(t) ==
  IF t.cursor > 0 THEN [t EXCEPT !.cursor = @ - 1, !.ch[t.cursor - 1] = "nul"] ELSE t

tty_upd_putc(t, c) == [t EXCEPT !.ch[t.cursor] = c, !.cursor = @ + 1]

FaultyBackspace(t) ==
  LET u == tty_upd_backsp(t) IN Marked(u, {u.cursor})

Backspace(t) ==
  LET u == tty_upd_backsp(t) IN Marked(u, {u.cursor, u.cursor + 1})

Newline(t) ==
  LET u == tty_upd_lf(tty_upd_cr(t))
  IN Scrolled(u, Line(u.cursor - Columns) \cup Line(u.cursor))

Letter(t, c) ==
  LET u == tty_upd_putc(t, c) IN Scrolled(u, {u.cursor - 1, u.cursor})

tty_putc(t, c) ==
  CASE c = "return" -> LET u == tty_upd_cr(t) IN Marked(u, Line(u.cursor))
    [] c = "backspace" -> Backspace(t)
    [] c = "newline" -> Newline(t)
    [] OTHER -> Letter(t, c)

(* What a cell of terminal t is drawn as. *)
Look(t, i) == IF i = t.cursor THEN "cursor" ELSE t.ch[i]

-----------------------------------------------------------------------------
(* tty_write *)

Goto(t, step) == pc' = [pc EXCEPT ![t] = step]

(* A text is put under tty->lock, which its first character takes and its last
   one gives back.  tty_task echoes single characters. *)
Putc(t, c, last) ==
  /\ \/ pc[t] = "put"
     \/ pc[t] = "idle" /\ lock[dev[t]] = NULL
  /\ t = TTYTASK => last
  /\ term' = [term EXCEPT ![dev[t]] = tty_putc(@, c)]
  /\ lock' = [lock EXCEPT ![dev[t]] = IF last THEN NULL ELSE t]
  /\ Goto(t, IF last THEN "render" ELSE "put")
  /\ UNCHANGED <<current, vram, dev, pos>>

(* The empty text: of a task, or of tty_task after a switch. *)
PutNothing(t) ==
  /\ pc[t] = (IF t = TTYTASK THEN "redraw" ELSE "idle")
  /\ lock[dev[t]] = NULL
  /\ Goto(t, "render")
  /\ UNCHANGED <<term, lock, current, vram, dev, pos>>

(* tty_render *)
Render(t) ==
  /\ pc[t] = "render"
  /\ lock[dev[t]] = NULL
  /\ lock' = [lock EXCEPT ![dev[t]] = t]
  /\ pos' = [pos EXCEPT ![t] = 0]
  /\ Goto(t, "draw")
  /\ UNCHANGED <<term, current, vram, dev>>

Shown(t, i) == i \in term[dev[t]].dirty /\ dev[t] = current

FaultyDone(t) == pos[t] = size

Done(t) == pos[t] = size - 1

(* One cell, if it is marked, in one fb_write; the lock after the last one. *)
Draw(t) ==
  /\ pc[t] = "draw"
  /\ vram' = IF Shown(t, pos[t]) THEN [vram EXCEPT ![pos[t]] = Look(term[dev[t]], pos[t])] ELSE vram
  /\ IF Done(t)
     THEN /\ lock' = [lock EXCEPT ![dev[t]] = NULL]
          /\ Goto(t, "idle")
          /\ pos' = [pos EXCEPT ![t] = 0]
     ELSE /\ pos' = [pos EXCEPT ![t] = IF @ + 1 \in Cells THEN @ + 1 ELSE @]
          /\ UNCHANGED <<lock, pc>>
  /\ UNCHANGED <<term, current, dev>>

(* tty_task: alt and a number.  The marks are set without tty->lock. *)
Switch(d) ==
  /\ pc[TTYTASK] = "idle"
  /\ d # dev[TTYTASK]
  /\ dev' = [dev EXCEPT ![TTYTASK] = d]
  /\ term' = [term EXCEPT ![d] = Marked(@, Cells)]
  /\ Goto(TTYTASK, "switch")
  /\ UNCHANGED <<lock, current, vram, pos>>

FaultySetCurrent ==
  /\ pc[TTYTASK] = "switch"
  /\ current' = dev[TTYTASK]
  /\ Goto(TTYTASK, "idle")
  /\ UNCHANGED <<term, lock, vram, dev, pos>>

SetCurrent ==
  /\ pc[TTYTASK] = "switch"
  /\ current' = dev[TTYTASK]
  /\ Goto(TTYTASK, "redraw")
  /\ UNCHANGED <<term, lock, vram, dev, pos>>

Next ==
  \/ \E t \in Tasks :
       \/ \E c \in Input, last \in BOOLEAN : Putc(t, c, last)
       \/ PutNothing(t)
       \/ Render(t)
       \/ Draw(t)
  \/ \E d \in Displays : Switch(d)
  \/ SetCurrent

Spec == Init /\ [][Next]_vars

(* Texts end, tasks keep executing, and the semaphore tty->lock goes to whoever
   waited longest.  Nothing makes a task write. *)
Ends(t) == pc[t] = "put" /\ \E c \in Input : Putc(t, c, TRUE)
Redraw == pc[TTYTASK] = "redraw" /\ PutNothing(TTYTASK)

Fairness ==
  /\ \A t \in Tasks : WF_vars(Ends(t) \/ Draw(t)) /\ SF_vars(Render(t))
  /\ WF_vars(SetCurrent) /\ SF_vars(Redraw)

FairSpec == Spec /\ Fairness

-----------------------------------------------------------------------------
(* Properties *)

Writing(d) == \E t \in Tasks : dev[t] = d /\ pc[t] # "idle"

(* The screen shows the current terminal, with its cursor, whenever nobody is
   writing to it: whatever other terminals were drawn when the current one
   was changed, and whoever was half way through drawing. *)
ScreenShowsCurrent ==
  ~Writing(current) => \A i \in Cells : vram[i] = Look(term[current], i)

(* tty_putc marks every cell that looks different afterwards: the cell the
   cursor leaves, the one it goes to, and all of them when it scrolls.
   (tty_render never takes a mark away, which hides a mark that is missing.) *)
MarksSuffice ==
  \A d \in Displays, c \in Letters \cup Controls :
    LET t == [term[d] EXCEPT !.dirty = {}]
        u == tty_putc(t, c)
    IN {i \in Cells : Look(u, i) # Look(t, i)} \subseteq u.dirty

(* The echo of a backspace takes back the echo of the character before it, at the
   end of a line and after a scroll too: tty_task relies on it when tty_cook
   takes the character out of the queue. *)
EchoTakenBack ==
  \A d \in Displays, c \in Letters :
    LET t == term[d]
        typed == tty_putc(t, c)
        erased == tty_putc(typed, "backspace")
        up == size - 1 - erased.cursor
    IN t.ch[t.cursor] = "nul" =>
         IF t.cursor < size - 1
         THEN erased.cursor = t.cursor /\ erased.ch = t.ch
         ELSE /\ up = Columns
              /\ \A i \in Cells : erased.ch[i] = IF i + up \in Cells THEN t.ch[i + up] ELSE "nul"

(* A write returns: no task keeps tty->lock, and none waits for another one's
   terminal. *)
WritesReturn == \A t \in Tasks : []<>(pc[t] = "idle")

=============================================================================
