----------------------------- MODULE KmtProofs -----------------------------
(***************************************************************************)
(* Proofs about Kmt for every number of processors, tasks, slots and       *)
(* semaphores: types, a stack to each processor, tasks resumed where they  *)
(* were left, the run flags and the semaphores' counters.  Then, that a    *)
(* task sleeps exactly while it is on a semaphore's list, and that Kmt     *)
(* implements SemaphoreAbs: whatever the traps do, the tasks see only      *)
(* semaphores that serve them first come, first served.                    *)
(***************************************************************************)
EXTENDS Kmt, TLAPS

(* Before the scheduler chose, and after it. *)
Before == {"task", "lock", "save", "notify", "seed", "scan"}
Chosen == {"unlock", "iret"}

(* A processor is on the stack of the task chosen for it last, and from the
   choice to iret on that of the one before; at boot on its idle loop's. *)
OnStack ==
  \A c \in CPUs :
    /\ tpc[c] \in Before => onstk[c] = IF cputask[c] = NULL THEN c ELSE cputask[c]
    /\ tpc[c] \in {"notify", "seed", "scan"} => cputask_last[c] = cputask[c]
    /\ tpc[c] \in Chosen =>
         /\ cputask[c] # NULL
         /\ onstk[c] = IF cputask_last[c] = NULL THEN c ELSE cputask_last[c]

(* A processor deals with tasks of tasks[] and its own idle loop. *)
Own(c) == Tasks \cup {c, NULL}

OwnTasks == \A c \in CPUs : cputask[c] \in Own(c) /\ cputask_last[c] \in Own(c)

(* The tasks a processor has marked as running and not yet let go. *)
Marked(c) == {cputask[c], cputask_last[c]} \ {NULL}

MarkedRun == \A c \in CPUs : \A t \in Marked(c) : run[t]

(* No two processors have marked the same task. *)
Apart == \A c, d \in CPUs : c # d => Marked(c) \cap Marked(d) = {}

SchedInv == OnStack /\ OwnTasks /\ MarkedRun /\ Apart

(* After the save and before iret. *)
Trapped == {"notify", "seed", "scan", "unlock", "iret"}

(* A stack and the registers that go with it: on the processor that is on the
   stack, otherwise in the task's context, from kmt_context_save on in both. *)
Coherent ==
  /\ \A c \in CPUs : reg[c] = stk[onstk[c]]
  /\ \A t \in AllTasks : (\A c \in CPUs : onstk[c] # t) => context[t] = stk[t]
  /\ \A c \in CPUs : tpc[c] \in Trapped => context[onstk[c]] = stk[onstk[c]]
  /\ \A c \in CPUs : tpc[c] \in {"task", "lock", "save"} =>
       (notdefault[c] <=> cputask[c] # NULL)
  /\ \A c \in CPUs : tpc[c] \in Trapped => notdefault[c]

IInv == TypeOK /\ SchedInv /\ RunAccounted /\ SemConsistent /\ Coherent

-----------------------------------------------------------------------------
(* Initially *)

LEMMA InitIInv == Init => IInv
<1> SUFFICES ASSUME Init PROVE IInv
  OBVIOUS
<1> USE NamesAssumption, TasksAssumption, SemsAssumption
<1>1. TypeOK
  BY DEF Init, TypeOK, AllTasks, Labels, TrapSteps, Events
<1>2. SchedInv
  BY DEF Init, SchedInv, OnStack, OwnTasks, MarkedRun, Apart, Own, Marked, Before, Chosen
<1>3. RunAccounted
  BY DEF Init, RunAccounted, AllTasks
<1>4. SemConsistent
  BY DEF Init, SemConsistent
<1>5. Coherent
  BY DEF Init, Coherent, Trapped, AllTasks
<1> QED
  BY <1>1, <1>2, <1>3, <1>4, <1>5 DEF IInv

-----------------------------------------------------------------------------
(* Steps: types *)

LEMMA SlotInRange ==
  ASSUME NEW i \in 0 .. MAXTASK - 1
  PROVE  SlotAfter(i) \in 0 .. MAXTASK - 1
  BY TasksAssumption DEF SlotAfter

(* sem_signal finds somebody on the list when its counter says so. *)
LEMMA SignalTypes ==
  ASSUME TypeOK, SemConsistent, NEW s \in Sems, SignalBody(s)
  PROVE  /\ sleep' \in [AllTasks -> BOOLEAN]
         /\ count' \in [Sems -> Int]
         /\ cnt_tasks' \in [Sems -> Int]
         /\ pcb' \in [Sems -> Seq(Tasks)]
<1>1. count' \in [Sems -> Int]
  BY DEF TypeOK, SignalBody
<1>2. CASE Awaited(s)
  <2>1. pcb[s] # <<>> /\ pcb[s] \in Seq(Tasks)
    BY <1>2 DEF TypeOK, SemConsistent, Awaited
  <2>2. Tail(pcb[s]) \in Seq(Tasks)
    BY <2>1
  <2>3. pcb' = [pcb EXCEPT ![s] = Tail(pcb[s])] /\ sleep' = [sleep EXCEPT ![Head(pcb[s])] = FALSE]
    BY <1>2 DEF SignalBody, Wake
  <2>4. pcb' \in [Sems -> Seq(Tasks)]
    BY <2>2, <2>3 DEF TypeOK
  <2>5. sleep' \in [AllTasks -> BOOLEAN]
    BY <2>3 DEF TypeOK
  <2>6. cnt_tasks' \in [Sems -> Int]
    BY <1>2 DEF TypeOK, SignalBody
  <2> QED
    BY <1>1, <2>4, <2>5, <2>6
<1>3. CASE ~Awaited(s)
  BY <1>1, <1>3 DEF TypeOK, SignalBody
<1> QED
  BY <1>2, <1>3

LEMMA TypeStep ==
  ASSUME TypeOK, SchedInv, SemConsistent, [Next]_vars
  PROVE  TypeOK'
<1> USE DEF AllTasks
<1>1. CASE UNCHANGED vars
  BY <1>1 DEF TypeOK, vars, schedVars, trapVars, semVars
<1>2. ASSUME NEW c \in CPUs, Timer(c) PROVE TypeOK'
  BY <1>2 DEF Timer, Enter, TypeOK, schedVars, semVars, TrapSteps, Events
<1>3. ASSUME NEW c \in CPUs, Keyboard(c) PROVE TypeOK'
  BY <1>3 DEF Keyboard, Enter, TypeOK, schedVars, semVars, TrapSteps, Events
<1>4. ASSUME NEW c \in CPUs, Yield(c) PROVE TypeOK'
  BY <1>4 DEF Yield, Enter, TypeOK, schedVars, semVars, TrapSteps, Events, Labels
<1>5. ASSUME NEW c \in CPUs, LockOs(c) PROVE TypeOK'
  BY <1>5 DEF LockOs, TypeOK, schedVars, semVars, TrapSteps
<1>6. ASSUME NEW c \in CPUs, Save(c) PROVE TypeOK'
  BY <1>6 DEF Save, TypeOK, semVars, TrapSteps
<1>7. ASSUME NEW c \in CPUs, Notify(c) PROVE TypeOK'
  BY <1>7, SignalTypes, SemsAssumption DEF Notify, TypeOK, schedVars, TrapSteps
<1>8. ASSUME NEW c \in CPUs, Seed(c) PROVE TypeOK'
  <2>1. PICK seed \in Seeds(c) : nxt' = [nxt EXCEPT ![c] = SlotAfter(seed)]
    BY <1>8 DEF Seed
  <2>2. seed \in 0 .. MAXTASK - 1
    BY <2>1, TasksAssumption DEF Seeds, Id, TypeOK
  <2>3. SlotAfter(seed) \in 0 .. MAXTASK - 1
    BY <2>2, SlotInRange
  <2>4. nxt' \in [CPUs -> 0 .. MAXTASK - 1]
    BY <2>1, <2>3 DEF TypeOK
  <2> QED
    BY <1>8, <2>4, TasksAssumption
       DEF Seed, TypeOK, schedVars, semVars, TrapSteps
<1>9. ASSUME NEW c \in CPUs, NEW t \in AllTasks, Choose(c, t) PROVE TypeOK'
  BY <1>9, TasksAssumption DEF Choose, MarkRunning, TypeOK, semVars, TrapSteps
<1>10. ASSUME NEW c \in CPUs, ScanFound(c) PROVE TypeOK'
  BY <1>9, <1>10 DEF ScanFound, Runnable
<1>11. ASSUME NEW c \in CPUs, ScanNext(c) PROVE TypeOK'
  <2>1. nxt[c] \in 0 .. MAXTASK - 1
    BY DEF TypeOK
  <2>2. SlotAfter(nxt[c]) \in 0 .. MAXTASK - 1
    BY <2>1, SlotInRange
  <2>3. nxt' \in [CPUs -> 0 .. MAXTASK - 1]
    BY <1>11, <2>2 DEF ScanNext, TypeOK
  <2> QED
    BY <1>11, <2>3, TasksAssumption DEF ScanNext, TypeOK, schedVars, semVars
<1>12. ASSUME NEW c \in CPUs, ScanNone(c) PROVE TypeOK'
  BY <1>9, <1>12 DEF ScanNone
<1>13. ASSUME NEW c \in CPUs, UnlockOs(c) PROVE TypeOK'
  BY <1>13 DEF UnlockOs, TypeOK, schedVars, semVars, TrapSteps
<1>14. ASSUME NEW c \in CPUs, Iret(c) PROVE TypeOK'
  <2>1. cputask[c] \in AllTasks
    BY <1>14 DEF Iret, SchedInv, OnStack, Chosen, TypeOK
  <2> QED
    BY <1>14, <2>1 DEF Iret, TypeOK, schedVars, semVars, TrapSteps, Events
<1>15. ASSUME NEW c \in CPUs, NEW s \in Sems, SemWait(c, s) PROVE TypeOK'
  <2>1. cputask[c] \in Tasks
    BY <1>15, NamesAssumption DEF SemWait, InTask, SchedInv, OnStack, Before, TypeOK
  <2>2. ListAdd(pcb[s], cputask[c]) \in Seq(Tasks)
    BY <2>1 DEF ListAdd, TypeOK
  <2>3. pcb' \in [Sems -> Seq(Tasks)]
    BY <1>15, <2>2 DEF SemWait, TypeOK
  <2>4. sleep' \in [AllTasks -> BOOLEAN]
    BY <1>15 DEF SemWait, TypeOK
  <2>5. count' \in [Sems -> Int] /\ cnt_tasks' \in [Sems -> Int]
    BY <1>15 DEF SemWait, TypeOK
  <2>6. reg' \in [CPUs -> Labels] /\ stk' \in [AllTasks -> Labels]
    BY <1>15 DEF SemWait, Goto, TypeOK, Labels
  <2> QED
    BY <1>15, <2>3, <2>4, <2>5, <2>6 DEF SemWait, LockSem, TypeOK, schedVars, trapVars
<1>16. ASSUME NEW c \in CPUs, NEW s \in Sems, SemSignal(c, s) PROVE TypeOK'
  BY <1>16, SignalTypes DEF SemSignal, LockSem, Goto, TypeOK, schedVars, trapVars, Labels
<1>17. ASSUME NEW c \in CPUs, NEW s \in Sems, SemUnlock(c, s) PROVE TypeOK'
  BY <1>17 DEF SemUnlock, Goto, TypeOK, schedVars, trapVars, semVars, Labels
<1>18. ASSUME NEW c \in CPUs, SemReturn(c) PROVE TypeOK'
  BY <1>18 DEF SemReturn, Goto, TypeOK, schedVars, trapVars, semVars, Labels
<1> QED
  BY <1>1, <1>2, <1>3, <1>4, <1>5, <1>6, <1>7, <1>8, <1>10, <1>11, <1>12, <1>13, <1>14, <1>15,
     <1>16, <1>17, <1>18 DEF Next, TrapStep, TaskStep

-----------------------------------------------------------------------------
(* Steps: stacks and run flags *)

(* Steps that leave the scheduler's state and the stacks alone, and keep a trap
   on the same side of its save and of its choice. *)
Quiet(c) ==
  /\ UNCHANGED <<run, cputask, cputask_last, onstk>>
  /\ \E p \in TrapSteps : tpc' = [tpc EXCEPT ![c] = p]
  /\ tpc[c] \in Before <=> tpc'[c] \in Before
  /\ tpc'[c] \in {"notify", "seed", "scan"} => tpc[c] \in {"notify", "seed", "scan"}

LEMMA QuietSched ==
  ASSUME TypeOK, SchedInv, NEW c \in CPUs, Quiet(c)
  PROVE  SchedInv'
<1>1. OnStack'
  BY DEF Quiet, TypeOK, SchedInv, OnStack, Before, Chosen, TrapSteps
<1>2. OwnTasks' /\ MarkedRun' /\ Apart'
  BY DEF Quiet, SchedInv, OwnTasks, MarkedRun, Apart, Marked, Own
<1> QED
  BY <1>1, <1>2 DEF SchedInv

LEMMA SaveSched ==
  ASSUME TypeOK, SchedInv, NEW c \in CPUs, Save(c)
  PROVE  SchedInv'
<1> USE NamesAssumption DEF AllTasks
<1>1. /\ cputask' = cputask
      /\ cputask_last' = [cputask_last EXCEPT ![c] = cputask[c]]
      /\ onstk' = onstk
      /\ \A t \in AllTasks : run'[t] = (run[t] /\ t # LetGo(c))
  BY DEF Save
<1>2. OnStack'
  <2>1. tpc'[c] \in {"notify", "seed"} /\ tpc[c] = "save"
    BY DEF Save, TypeOK
  <2>2. \A d \in CPUs : d # c => tpc'[d] = tpc[d]
    BY DEF Save, TypeOK
  <2> QED
    BY <1>1, <2>1, <2>2 DEF TypeOK, SchedInv, OnStack, Before, Chosen
<1>3. OwnTasks'
  BY <1>1 DEF TypeOK, SchedInv, OwnTasks, Own
<1>4. \A d \in CPUs : Marked(d)' \subseteq Marked(d)
  BY <1>1 DEF TypeOK, Marked
<1>5. Apart'
  BY <1>4 DEF SchedInv, Apart
<1>6. MarkedRun'
  <2> SUFFICES ASSUME NEW d \in CPUs, NEW t \in Marked(d)' PROVE run'[t]
    BY DEF MarkedRun
  <2>1. t \in AllTasks /\ t # NULL /\ run[t]
    BY <1>3, <1>4 DEF SchedInv, MarkedRun, OwnTasks, Own, Marked
  <2>2. t # LetGo(c)
    <3>1. CASE d = c
      BY <1>1, <2>1, <3>1 DEF Marked, LetGo, TypeOK
    <3>2. CASE d # c
      <4>1. t \notin Marked(c)
        BY <1>4, <3>2 DEF SchedInv, Apart
      <4> QED
        BY <4>1, <2>1 DEF Marked, LetGo
    <3> QED
      BY <3>1, <3>2
  <2> QED
    BY <1>1, <2>1, <2>2
<1> QED
  BY <1>2, <1>3, <1>5, <1>6 DEF SchedInv

(* The scheduler's choice: a task nobody has marked. *)
LEMMA ChooseSched ==
  ASSUME TypeOK, SchedInv, NEW c \in CPUs, tpc[c] = "scan",
         NEW t \in Tasks \cup {c}, t \in Tasks => ~run[t], Choose(c, t)
  PROVE  SchedInv'
<1> USE NamesAssumption DEF AllTasks
<1>1. /\ run' = [run EXCEPT ![t] = TRUE]
      /\ cputask' = [cputask EXCEPT ![c] = t]
      /\ UNCHANGED <<cputask_last, onstk>>
      /\ tpc' = [tpc EXCEPT ![c] = "unlock"]
  BY DEF Choose, MarkRunning
<1>2. OnStack'
  BY <1>1 DEF TypeOK, SchedInv, OnStack, Before, Chosen
<1>3. OwnTasks'
  BY <1>1 DEF TypeOK, SchedInv, OwnTasks, Own
<1>4. \A d \in CPUs : d # c => Marked(d)' = Marked(d) /\ t \notin Marked(d)
  <2> SUFFICES ASSUME NEW d \in CPUs, d # c PROVE Marked(d)' = Marked(d) /\ t \notin Marked(d)
    OBVIOUS
  <2>1. Marked(d)' = Marked(d)
    BY <1>1 DEF TypeOK, Marked
  <2>2. CASE t \in Tasks
    BY <2>1, <2>2 DEF SchedInv, MarkedRun
  <2>3. CASE t = c
    BY <2>1, <2>3 DEF SchedInv, OwnTasks, Own, Marked
  <2> QED
    BY <2>2, <2>3
<1>5. Marked(c)' \subseteq Marked(c) \cup {t}
  BY <1>1 DEF TypeOK, Marked
<1>6. Apart'
  BY <1>4, <1>5 DEF SchedInv, Apart
<1>7. MarkedRun'
  <2> SUFFICES ASSUME NEW d \in CPUs, NEW u \in Marked(d)' PROVE run'[u]
    BY DEF MarkedRun
  <2>1. u \in AllTasks
    BY <1>3 DEF OwnTasks, Own, Marked
  <2>2. u = t \/ run[u]
    BY <1>4, <1>5 DEF SchedInv, MarkedRun
  <2> QED
    BY <1>1, <2>1, <2>2 DEF TypeOK
<1> QED
  BY <1>2, <1>3, <1>6, <1>7 DEF SchedInv

LEMMA IretSched ==
  ASSUME TypeOK, SchedInv, NEW c \in CPUs, Iret(c)
  PROVE  SchedInv'
<1>1. /\ UNCHANGED <<run, cputask, cputask_last>>
      /\ onstk' = [onstk EXCEPT ![c] = cputask[c]]
      /\ tpc' = [tpc EXCEPT ![c] = "task"]
      /\ tpc[c] = "iret"
  BY DEF Iret, schedVars
<1>2. OnStack'
  BY <1>1 DEF TypeOK, SchedInv, OnStack, Before, Chosen
<1>3. OwnTasks' /\ MarkedRun' /\ Apart'
  BY <1>1 DEF SchedInv, OwnTasks, MarkedRun, Apart, Marked, Own
<1> QED
  BY <1>2, <1>3 DEF SchedInv

LEMMA SchedStep ==
  ASSUME TypeOK, SchedInv, [Next]_vars
  PROVE  SchedInv'
<1>1. CASE UNCHANGED vars
  BY <1>1 DEF vars, schedVars, trapVars, SchedInv, OnStack, OwnTasks, MarkedRun, Apart,
              Marked, Own
<1>2. ASSUME NEW c \in CPUs, Timer(c) \/ Keyboard(c) \/ Yield(c) PROVE Quiet(c)
  BY <1>2 DEF Timer, Keyboard, Yield, Enter, Quiet, TypeOK, TrapSteps, Before, schedVars
<1>3. ASSUME NEW c \in CPUs, LockOs(c) \/ Notify(c) \/ Seed(c) \/ UnlockOs(c) PROVE Quiet(c)
  BY <1>3 DEF LockOs, Notify, Seed, UnlockOs, Quiet, TypeOK, TrapSteps, Before, schedVars
<1>4. ASSUME NEW c \in CPUs, UNCHANGED <<schedVars, onstk, tpc>> PROVE Quiet(c)
  <2>1. tpc' = [tpc EXCEPT ![c] = tpc[c]] /\ tpc[c] \in TrapSteps
    BY <1>4 DEF TypeOK
  <2> QED
    BY <1>4, <2>1 DEF Quiet, schedVars
<1>5. ASSUME NEW c \in CPUs, ScanNext(c) PROVE Quiet(c)
  BY <1>4, <1>5 DEF ScanNext
<1>6. ASSUME NEW c \in CPUs, NEW s \in Sems,
             SemWait(c, s) \/ SemSignal(c, s) \/ SemUnlock(c, s)
      PROVE  Quiet(c)
  BY <1>4, <1>6 DEF SemWait, SemSignal, SemUnlock, trapVars
<1>7. ASSUME NEW c \in CPUs, SemReturn(c) PROVE Quiet(c)
  BY <1>4, <1>7 DEF SemReturn, trapVars
<1>8. ASSUME NEW c \in CPUs, ScanFound(c) PROVE SchedInv'
  BY <1>8, ChooseSched DEF ScanFound, Runnable
<1>9. ASSUME NEW c \in CPUs, ScanNone(c) PROVE SchedInv'
  BY <1>9, ChooseSched, NamesAssumption DEF ScanNone
<1> QED
  BY <1>1, <1>2, <1>3, <1>5, <1>6, <1>7, <1>8, <1>9, QuietSched, SaveSched, IretSched
     DEF Next, TrapStep, TaskStep

-----------------------------------------------------------------------------
(* Steps: what the run flags, the semaphores and the registers say *)

LEMMA AccountedStep ==
  ASSUME TypeOK, SchedInv, RunAccounted, [Next]_vars
  PROVE  RunAccounted'
<1>1. CASE UNCHANGED <<run, cputask, cputask_last>>
  BY <1>1 DEF RunAccounted
<1>2. ASSUME NEW c \in CPUs, Save(c) PROVE RunAccounted'
  <2> SUFFICES ASSUME NEW t \in Tasks, run'[t]
               PROVE  \E d \in CPUs : t \in {cputask'[d], cputask_last'[d]}
    BY DEF RunAccounted
  <2>1. run[t] /\ t # LetGo(c)
    BY <1>2 DEF Save, AllTasks
  <2>2. PICK d \in CPUs : t \in {cputask[d], cputask_last[d]}
    BY <2>1 DEF RunAccounted
  <2>3. cputask' = cputask /\ cputask_last' = [cputask_last EXCEPT ![c] = cputask[c]]
    BY <1>2 DEF Save
  <2>4. CASE d = c
    BY <2>1, <2>2, <2>3, <2>4 DEF LetGo, TypeOK
  <2>5. CASE d # c
    BY <2>2, <2>3, <2>5 DEF TypeOK
  <2> QED
    BY <2>4, <2>5
<1>3. ASSUME NEW c \in CPUs, tpc[c] = "scan", NEW t \in AllTasks, Choose(c, t)
      PROVE  RunAccounted'
  <2>1. cputask_last[c] = cputask[c]
    BY <1>3 DEF SchedInv, OnStack
  <2>2. /\ run' = [run EXCEPT ![t] = TRUE]
        /\ cputask' = [cputask EXCEPT ![c] = t]
        /\ cputask_last' = cputask_last
    BY <1>3 DEF Choose, MarkRunning
  <2> SUFFICES ASSUME NEW u \in Tasks, run'[u]
               PROVE  \E d \in CPUs : u \in {cputask'[d], cputask_last'[d]}
    BY DEF RunAccounted
  <2>3. CASE u = t
    BY <2>2, <2>3 DEF TypeOK
  <2>4. CASE u # t
    <3>1. PICK d \in CPUs : u \in {cputask[d], cputask_last[d]}
      BY <2>2, <2>4 DEF RunAccounted, TypeOK, AllTasks
    <3> QED
      BY <2>1, <2>2, <3>1 DEF TypeOK
  <2> QED
    BY <2>3, <2>4
<1>4. ASSUME NEW c \in CPUs, ScanFound(c) \/ ScanNone(c) PROVE RunAccounted'
  BY <1>3, <1>4 DEF ScanFound, ScanNone, Runnable, AllTasks
<1>5. ASSUME NEW c \in CPUs, Timer(c) \/ Keyboard(c) \/ LockOs(c) \/ Notify(c) \/ Seed(c)
      PROVE  RunAccounted'
  BY <1>1, <1>5 DEF Timer, Keyboard, LockOs, Notify, Seed, schedVars
<1>6. ASSUME NEW c \in CPUs, ScanNext(c) \/ UnlockOs(c) \/ Iret(c) \/ TaskStep(c)
      PROVE  RunAccounted'
  BY <1>1, <1>6
     DEF ScanNext, UnlockOs, Iret, TaskStep, SemWait, SemSignal, SemUnlock, SemReturn, Yield,
         schedVars
<1> QED
  BY <1>1, <1>2, <1>4, <1>5, <1>6 DEF Next, TrapStep, vars, schedVars

LEMMA SignalConsistent ==
  ASSUME TypeOK, SemConsistent, NEW s \in Sems, SignalBody(s)
  PROVE  SemConsistent'
<1>1. count' = [count EXCEPT ![s] = count[s] + 1]
  BY DEF SignalBody
<1>2. CASE Awaited(s)
  <2>1. pcb[s] \in Seq(Tasks) /\ pcb[s] # <<>>
    BY <1>2 DEF TypeOK, SemConsistent, Awaited
  <2>2. Len(Tail(pcb[s])) = Len(pcb[s]) - 1
    BY <2>1
  <2>3. /\ pcb' = [pcb EXCEPT ![s] = Tail(pcb[s])]
        /\ cnt_tasks' = [cnt_tasks EXCEPT ![s] = cnt_tasks[s] - 1]
    BY <1>2 DEF SignalBody
  <2> QED
    BY <1>1, <1>2, <2>2, <2>3 DEF TypeOK, SemConsistent, Awaited
<1>3. CASE ~Awaited(s)
  <2>1. UNCHANGED <<pcb, cnt_tasks>>
    BY <1>3 DEF SignalBody
  <2> QED
    BY <1>1, <1>3, <2>1 DEF TypeOK, SemConsistent, Awaited
<1> QED
  BY <1>2, <1>3

LEMMA ConsistentStep ==
  ASSUME TypeOK, SchedInv, SemConsistent, [Next]_vars
  PROVE  SemConsistent'
<1>1. CASE UNCHANGED semVars
  BY <1>1 DEF semVars, SemConsistent
<1>2. ASSUME NEW c \in CPUs, NEW s \in Sems, SemWait(c, s) PROVE SemConsistent'
  <2>1. count' = [count EXCEPT ![s] = count[s] - 1]
    BY <1>2 DEF SemWait
  <2>2. CASE count[s] < 1
    <3>1. /\ pcb' = [pcb EXCEPT ![s] = Append(pcb[s], cputask[c])]
          /\ cnt_tasks' = [cnt_tasks EXCEPT ![s] = cnt_tasks[s] + 1]
      BY <1>2, <2>2 DEF SemWait, ListAdd
    <3>2. pcb[s] \in Seq(Tasks)
      BY DEF TypeOK
    <3>3. Len(Append(pcb[s], cputask[c])) = Len(pcb[s]) + 1
      <4>1. cputask[c] \in Tasks
        BY <1>2, NamesAssumption DEF SemWait, InTask, SchedInv, OnStack, Before, TypeOK
      <4> QED
        BY <3>2, <4>1
    <3> QED
      BY <2>1, <2>2, <3>1, <3>3 DEF TypeOK, SemConsistent
  <2>3. CASE ~(count[s] < 1)
    <3>1. UNCHANGED <<pcb, cnt_tasks>>
      BY <1>2, <2>3 DEF SemWait
    <3> QED
      BY <2>1, <2>3, <3>1 DEF TypeOK, SemConsistent
  <2> QED
    BY <2>2, <2>3
<1>3. ASSUME NEW c \in CPUs, Notify(c) PROVE SemConsistent'
  BY <1>3, SignalConsistent, SemsAssumption DEF Notify
<1>4. ASSUME NEW c \in CPUs, NEW s \in Sems, SemSignal(c, s) PROVE SemConsistent'
  BY <1>4, SignalConsistent DEF SemSignal
<1>5. ASSUME NEW c \in CPUs, Timer(c) \/ Keyboard(c) \/ Yield(c) \/ LockOs(c) \/ Save(c) \/ Seed(c)
      PROVE  SemConsistent'
  BY <1>1, <1>5 DEF Timer, Keyboard, Yield, LockOs, Save, Seed
<1>6. ASSUME NEW c \in CPUs,
             ScanFound(c) \/ ScanNext(c) \/ ScanNone(c) \/ UnlockOs(c) \/ Iret(c) \/ SemReturn(c)
      PROVE  SemConsistent'
  BY <1>1, <1>6 DEF ScanFound, ScanNext, ScanNone, Choose, UnlockOs, Iret, SemReturn
<1>7. ASSUME NEW c \in CPUs, NEW s \in Sems, SemUnlock(c, s) PROVE SemConsistent'
  BY <1>1, <1>7 DEF SemUnlock
<1> QED
  BY <1>1, <1>2, <1>3, <1>4, <1>5, <1>6, <1>7 DEF Next, TrapStep, TaskStep, vars

-----------------------------------------------------------------------------
(* Steps: registers and stacks *)

(* Which stacks a processor can be on. *)
LEMMA StackFacts ==
  ASSUME TypeOK, SchedInv
  PROVE  /\ \A c \in CPUs : onstk[c] \in Marked(c) \cup {c}
         /\ \A c, d \in CPUs : c # d => Marked(c) \cap (Marked(d) \cup {d}) = {}
         /\ StackExclusive
<1>1. \A c \in CPUs : onstk[c] \in Marked(c) \cup {c}
  <2> SUFFICES ASSUME NEW c \in CPUs PROVE onstk[c] \in Marked(c) \cup {c}
    OBVIOUS
  <2>1. tpc[c] \in Before \/ tpc[c] \in Chosen
    BY DEF TypeOK, TrapSteps, Before, Chosen
  <2> QED
    BY <2>1, NamesAssumption DEF SchedInv, OnStack, Marked
<1>2. \A c, d \in CPUs : c # d => Marked(c) \cap (Marked(d) \cup {d}) = {}
  BY NamesAssumption DEF SchedInv, OwnTasks, Own, Apart, Marked
<1> QED
  BY <1>1, <1>2, NamesAssumption DEF StackExclusive

(* A processor writes registers and stack together. *)
LEMMA GotoCoherent ==
  ASSUME TypeOK, SchedInv, Coherent, NEW c \in CPUs, NEW label, Goto(c, label),
         tpc[c] = "task", UNCHANGED <<context, onstk, cputask, notdefault>>,
         tpc' = tpc \/ tpc' = [tpc EXCEPT ![c] = "lock"]
  PROVE  Coherent'
<1>1. \A d \in CPUs : d # c => onstk[d] # onstk[c]
  BY StackFacts DEF StackExclusive
<1>2. /\ \A d \in CPUs : reg'[d] = stk'[onstk'[d]]
      /\ \A t \in AllTasks : (\A d \in CPUs : onstk'[d] # t) => context'[t] = stk'[t]
  BY <1>1 DEF Goto, Coherent, TypeOK
<1>3. \A d \in CPUs : tpc'[d] \in Trapped => context'[onstk'[d]] = stk'[onstk'[d]]
  BY <1>1 DEF Goto, Coherent, TypeOK, Trapped
<1>4. \A d \in CPUs : tpc'[d] \in {"task", "lock", "save"} =>
        (notdefault'[d] <=> cputask'[d] # NULL)
  BY DEF Coherent, TypeOK
<1>5. \A d \in CPUs : tpc'[d] \in Trapped => notdefault'[d]
  BY DEF Coherent, TypeOK, Trapped
<1> QED
  BY <1>2, <1>3, <1>4, <1>5 DEF Coherent

LEMMA SaveCoherent ==
  ASSUME TypeOK, SchedInv, Coherent, NEW c \in CPUs, Save(c)
  PROVE  Coherent'
<1> USE NamesAssumption
<1>1. /\ UNCHANGED <<cputask, onstk, reg, stk>>
      /\ \A t \in AllTasks : context'[t] = IF t \in SavedFor(c) THEN reg[c] ELSE context[t]
      /\ notdefault' = [notdefault EXCEPT ![c] = TRUE]
      /\ tpc[c] = "save" /\ tpc'[c] \in {"notify", "seed"}
      /\ \A d \in CPUs : d # c => tpc'[d] = tpc[d]
  BY DEF Save, TypeOK
<1>2. onstk[c] = IF cputask[c] = NULL THEN c ELSE cputask[c]
  BY <1>1 DEF SchedInv, OnStack, Before
<1>3. notdefault[c] <=> cputask[c] # NULL
  BY <1>1 DEF Coherent
<1>4. SavedFor(c) \ {NULL} = {onstk[c]}
  BY <1>2, <1>3 DEF SavedFor
<1>5. \A t \in AllTasks : context'[t] = IF t = onstk[c] THEN reg[c] ELSE context[t]
  BY <1>1, <1>4 DEF AllTasks
<1>6. \A d \in CPUs : d # c => onstk[d] # onstk[c]
  BY StackFacts DEF StackExclusive
<1>7. /\ \A d \in CPUs : reg'[d] = stk'[onstk'[d]]
      /\ \A t \in AllTasks : (\A d \in CPUs : onstk'[d] # t) => context'[t] = stk'[t]
  BY <1>1, <1>5 DEF Coherent
<1>8. \A d \in CPUs : tpc'[d] \in Trapped => context'[onstk'[d]] = stk'[onstk'[d]]
  BY <1>1, <1>5, <1>6 DEF Coherent, TypeOK
<1>9. /\ \A d \in CPUs : tpc'[d] \in {"task", "lock", "save"} =>
           (notdefault'[d] <=> cputask'[d] # NULL)
      /\ \A d \in CPUs : tpc'[d] \in Trapped => notdefault'[d]
  BY <1>1 DEF Coherent, TypeOK
<1> QED
  BY <1>7, <1>8, <1>9 DEF Coherent

(* The processor leaves a stack whose registers it saved for one that no other
   processor is on. *)
LEMMA IretCoherent ==
  ASSUME TypeOK, SchedInv, Coherent, NEW c \in CPUs, Iret(c)
  PROVE  Coherent'
<1>1. /\ UNCHANGED <<context, cputask, notdefault, stk>>
      /\ onstk' = [onstk EXCEPT ![c] = cputask[c]]
      /\ reg' = [reg EXCEPT ![c] = context[cputask[c]]]
      /\ tpc[c] = "iret" /\ tpc' = [tpc EXCEPT ![c] = "task"]
  BY DEF Iret, schedVars
<1>2. cputask[c] \in AllTasks /\ cputask[c] \in Marked(c)
  BY <1>1, NamesAssumption DEF SchedInv, OnStack, Chosen, TypeOK, Marked
<1>3. \A d \in CPUs : d # c => onstk[d] # cputask[c] /\ onstk[d] # onstk[c]
  BY <1>2, StackFacts DEF StackExclusive
<1>4. context[onstk[c]] = stk[onstk[c]]
  BY <1>1 DEF Coherent, Trapped
<1>5. context[cputask[c]] = stk[cputask[c]]
  BY <1>2, <1>3, <1>4 DEF Coherent
<1>6. \A d \in CPUs : reg'[d] = stk'[onstk'[d]]
  BY <1>1, <1>5 DEF Coherent, TypeOK
<1>7. \A t \in AllTasks : (\A d \in CPUs : onstk'[d] # t) => context'[t] = stk'[t]
  BY <1>1, <1>4 DEF Coherent, TypeOK
<1>8. \A d \in CPUs : tpc'[d] \in Trapped => context'[onstk'[d]] = stk'[onstk'[d]]
  BY <1>1 DEF Coherent, TypeOK, Trapped
<1>9. cputask[c] # NULL /\ notdefault[c]
  BY <1>1 DEF SchedInv, OnStack, Chosen, Coherent, Trapped
<1>10. /\ \A d \in CPUs : tpc'[d] \in {"task", "lock", "save"} =>
            (notdefault'[d] <=> cputask'[d] # NULL)
       /\ \A d \in CPUs : tpc'[d] \in Trapped => notdefault'[d]
  BY <1>1, <1>9 DEF Coherent, TypeOK
<1> QED
  BY <1>6, <1>7, <1>8, <1>10 DEF Coherent

(* A step of a trap that neither saves nor returns. *)
LEMMA TrapCoherent ==
  ASSUME TypeOK, Coherent, NEW c \in CPUs, NEW p \in TrapSteps,
         UNCHANGED <<context, notdefault, onstk, reg, stk>>,
         tpc' = [tpc EXCEPT ![c] = p],
         \/ p \in Trapped /\ tpc[c] \in Trapped
         \/ p \in {"lock", "save"} /\ tpc[c] \in {"task", "lock"},
         \A d \in CPUs : tpc'[d] \in {"task", "lock", "save"} => cputask'[d] = cputask[d]
  PROVE  Coherent'
  BY DEF Coherent, TypeOK, Trapped, TrapSteps

LEMMA CoherentStep ==
  ASSUME TypeOK, SchedInv, Coherent, [Next]_vars
  PROVE  Coherent'
<1>1. CASE UNCHANGED vars
  BY <1>1 DEF vars, schedVars, trapVars, Coherent
<1>2. ASSUME NEW c \in CPUs, Timer(c) \/ Keyboard(c) \/ LockOs(c) PROVE Coherent'
  BY <1>2, TrapCoherent DEF Timer, Keyboard, LockOs, Enter, schedVars, TrapSteps
<1>3. ASSUME NEW c \in CPUs, Notify(c) \/ Seed(c) \/ UnlockOs(c) PROVE Coherent'
  BY <1>3, TrapCoherent DEF Notify, Seed, UnlockOs, schedVars, TrapSteps, Trapped
<1>4. ASSUME NEW c \in CPUs, ScanNext(c) PROVE Coherent'
  BY <1>4 DEF ScanNext, schedVars, Coherent
<1>5. ASSUME NEW c \in CPUs, NEW t, tpc[c] = "scan", Choose(c, t) PROVE Coherent'
  <2>1. /\ UNCHANGED <<context, notdefault, onstk, reg, stk>>
        /\ tpc' = [tpc EXCEPT ![c] = "unlock"]
        /\ cputask' = [cputask EXCEPT ![c] = t]
    BY <1>5 DEF Choose
  <2>2. \A d \in CPUs : tpc'[d] \in {"task", "lock", "save"} => cputask'[d] = cputask[d]
    BY <2>1 DEF TypeOK
  <2> QED
    BY <1>5, <2>1, <2>2, TrapCoherent DEF TrapSteps, Trapped
<1>6. ASSUME NEW c \in CPUs, ScanFound(c) \/ ScanNone(c) PROVE Coherent'
  BY <1>5, <1>6 DEF ScanFound, ScanNone
<1>7. ASSUME NEW c \in CPUs, NEW s \in Sems, SemWait(c, s) PROVE Coherent'
  <2>1. Goto(c, "unlock_yield") \/ Goto(c, "unlock")
    BY <1>7 DEF SemWait
  <2> QED
    BY <1>7, <2>1, GotoCoherent DEF SemWait, InTask, schedVars, trapVars
<1>8. ASSUME NEW c \in CPUs, NEW s \in Sems, SemSignal(c, s) PROVE Coherent'
  BY <1>8, GotoCoherent DEF SemSignal, InTask, schedVars, trapVars
<1>9. ASSUME NEW c \in CPUs, NEW s \in Sems, SemUnlock(c, s) PROVE Coherent'
  BY <1>9, GotoCoherent DEF SemUnlock, InTask, schedVars, trapVars
<1>10. ASSUME NEW c \in CPUs, SemReturn(c) PROVE Coherent'
  BY <1>10, GotoCoherent DEF SemReturn, InTask, schedVars, trapVars
<1>11. ASSUME NEW c \in CPUs, Yield(c) PROVE Coherent'
  <2>1. Goto(c, "return") /\ tpc[c] = "task" /\ tpc' = [tpc EXCEPT ![c] = "lock"]
    BY <1>11 DEF Yield, Enter, Goto
  <2> QED
    BY <1>11, <2>1, GotoCoherent DEF Yield, schedVars
<1> QED
  BY <1>1, <1>2, <1>3, <1>4, <1>6, <1>7, <1>8, <1>9, <1>10, <1>11, SaveCoherent, IretCoherent
     DEF Next, TrapStep, TaskStep

-----------------------------------------------------------------------------
(* Theorems *)

LEMMA IInvStep == IInv /\ [Next]_vars => IInv'
  BY TypeStep, SchedStep, AccountedStep, ConsistentStep, CoherentStep DEF IInv

(* The inductive invariant holds throughout. *)
THEOREM Invariant == Spec => []IInv
  BY InitIInv, IInvStep, PTL DEF Spec

(* Every variable keeps its type: among them, the scheduler's loop never looks
   outside tasks[], and only tasks of tasks[] are ever on a semaphore's list. *)
THEOREM TypeCorrect == Spec => []TypeOK
  BY Invariant, PTL DEF IInv

(* kmt_context_save and kmt_context_switch never put two processors on one
   stack, although os_trap gives lock_os back before the stack is left. *)
THEOREM StacksExclusive == Spec => []StackExclusive
<1>1. IInv => StackExclusive
  BY StackFacts DEF IInv
<1> QED
  BY <1>1, Invariant, PTL

(* A task goes on with the registers that belong to its stack. *)
THEOREM Resumed == Spec => []ResumedWhereLeft
<1>1. IInv => ResumedWhereLeft
  BY DEF IInv, Coherent, ResumedWhereLeft
<1> QED
  BY <1>1, Invariant, PTL

(* The assertions of kmt_context_save and sem_wait on the running task hold. *)
THEOREM AssertionsHold == Spec => []RunningMarked
<1>1. IInv => RunningMarked
  <2> SUFFICES ASSUME IInv, NEW c \in CPUs
               PROVE  /\ InTask(c) => run[onstk[c]] /\ cputask[c] = onstk[c]
                      /\ tpc[c] = "save" /\ cputask[c] # NULL =>
                           run[cputask[c]] \/ sleep[cputask[c]]
    BY DEF RunningMarked
  <2>1. cputask[c] # NULL => run[cputask[c]]
    BY DEF IInv, SchedInv, MarkedRun, Marked
  <2>2. InTask(c) => cputask[c] = onstk[c] /\ cputask[c] # NULL
    BY NamesAssumption DEF InTask, IInv, SchedInv, OnStack, Before
  <2> QED
    BY <2>1, <2>2
<1> QED
  BY <1>1, Invariant, PTL

(* No task stays marked as running once the processors have let it go. *)
THEOREM Accounted == Spec => []RunAccounted
  BY Invariant, PTL DEF IInv

(* Count, counter and list of every semaphore agree. *)
THEOREM Consistent == Spec => []SemConsistent
  BY Invariant, PTL DEF IInv

-----------------------------------------------------------------------------
(* Sleepers, and the refinement *)

(* A task that is being switched to, or that executes anything but the way from
   sem_wait's unlock to its yield, is not asleep. *)
Awake ==
  /\ \A c \in CPUs : tpc[c] \in Chosen /\ cputask[c] \in Tasks => ~sleep[cputask[c]]
  /\ \A c \in CPUs : InTask(c) /\ reg[c] \in {"user", "unlock", "return"} => ~sleep[onstk[c]]

SleepInv == Awake /\ SleepsWhileListed

LEMMA InitSleep == Init => SleepInv
  BY NamesAssumption
     DEF Init, SleepInv, Awake, SleepsWhileListed, Waiting, AllTasks, Chosen, InTask

-----------------------------------------------------------------------------
(* Lists *)

(* A task on no list is appended to one. *)
LEMMA WaitListed ==
  ASSUME TypeOK, SleepsWhileListed, NEW t \in Tasks, ~sleep[t], NEW s \in Sems,
         pcb' = [pcb EXCEPT ![s] = Append(pcb[s], t)],
         sleep' = [sleep EXCEPT ![t] = TRUE]
  PROVE  SleepsWhileListed'
<1> DEFINE n == Len(pcb[s]) + 1
<1>1. pcb[s] \in Seq(Tasks)
  BY DEF TypeOK
<1>2. /\ DOMAIN pcb'[s] = 1 .. n
      /\ \A i \in 1 .. n : pcb'[s][i] = IF i = n THEN t ELSE pcb[s][i]
      /\ DOMAIN pcb[s] = 1 .. n - 1
      /\ n \in Nat \ {0}
  BY <1>1 DEF TypeOK
<1>3. \A r \in Sems : r # s => pcb'[r] = pcb[r]
  BY DEF TypeOK
<1>4. \A r \in Sems : \A i \in DOMAIN pcb[r] : pcb[r][i] # t
  BY DEF SleepsWhileListed, Waiting
<1> HIDE DEF n
<1>5. \A u \in Tasks : sleep'[u] <=> (u = t \/ sleep[u])
  BY DEF TypeOK, AllTasks
<1>6. \A u \in Tasks : (\E r \in Sems : \E i \in DOMAIN pcb'[r] : pcb'[r][i] = u)
                       <=> (u = t \/ \E r \in Sems : \E i \in DOMAIN pcb[r] : pcb[r][i] = u)
  <2> SUFFICES ASSUME NEW u \in Tasks
      PROVE (\E r \in Sems : \E i \in DOMAIN pcb'[r] : pcb'[r][i] = u)
            <=> (u = t \/ \E r \in Sems : \E i \in DOMAIN pcb[r] : pcb[r][i] = u)
    OBVIOUS
  <2>1. ASSUME NEW r \in Sems, NEW i \in DOMAIN pcb'[r], pcb'[r][i] = u, u # t
        PROVE  i \in DOMAIN pcb[r] /\ pcb[r][i] = u
    BY <1>2, <1>3, <2>1
  <2>2. ASSUME NEW r \in Sems, NEW i \in DOMAIN pcb[r], pcb[r][i] = u
        PROVE  i \in DOMAIN pcb'[r] /\ pcb'[r][i] = u
    BY <1>2, <1>3, <2>2
  <2>3. n \in DOMAIN pcb'[s] /\ pcb'[s][n] = t
    BY <1>2
  <2> QED
    BY <2>1, <2>2, <2>3
<1>7. \A u \in Tasks : sleep'[u] <=> \E r \in Sems : u \in Waiting(r)'
  BY <1>5, <1>6 DEF SleepsWhileListed, Waiting
<1>8. ASSUME NEW u \in Tasks, NEW p \in Sems, NEW r \in Sems,
             NEW i \in DOMAIN pcb'[p], NEW j \in DOMAIN pcb'[r],
             pcb'[p][i] = u, pcb'[r][j] = u
      PROVE  p = r /\ i = j
  <2>1. CASE u = t
    BY <1>2, <1>3, <1>4, <1>8, <2>1
  <2>2. CASE u # t
    <3>1. i \in DOMAIN pcb[p] /\ pcb[p][i] = u /\ j \in DOMAIN pcb[r] /\ pcb[r][j] = u
      BY <1>2, <1>3, <1>8, <2>2
    <3> QED
      BY <3>1 DEF SleepsWhileListed
  <2> QED
    BY <2>1, <2>2
<1> QED
  BY <1>7, <1>8 DEF SleepsWhileListed

(* The first task of a list is taken off and woken. *)
LEMMA SignalListed ==
  ASSUME TypeOK, SemConsistent, SleepsWhileListed, NEW s \in Sems, SignalBody(s)
  PROVE  SleepsWhileListed' /\ \A t \in AllTasks : sleep'[t] => sleep[t]
<1>1. CASE ~Awaited(s)
  BY <1>1 DEF SignalBody, SleepsWhileListed, Waiting
<1>2. CASE Awaited(s)
  <2> DEFINE t == Head(pcb[s])
             n == Len(pcb[s])
  <2>1. pcb[s] \in Seq(Tasks) /\ pcb[s] # <<>> /\ n \in Nat \ {0}
    BY <1>2 DEF TypeOK, SemConsistent, Awaited
  <2>2. /\ pcb' = [pcb EXCEPT ![s] = Tail(pcb[s])]
        /\ sleep' = [sleep EXCEPT ![t] = FALSE]
    BY <1>2 DEF SignalBody, Wake
  <2>3. /\ t \in Tasks /\ 1 \in DOMAIN pcb[s] /\ pcb[s][1] = t
        /\ DOMAIN pcb[s] = 1 .. n
    BY <2>1
  <2>4. /\ DOMAIN pcb'[s] = 1 .. n - 1
        /\ \A i \in 1 .. n - 1 : pcb'[s][i] = pcb[s][i + 1]
    BY <2>1, <2>2 DEF TypeOK
  <2>5. \A r \in Sems : r # s => pcb'[r] = pcb[r]
    BY <2>2 DEF TypeOK
  <2> HIDE DEF t, n
  <2>6. \A u \in Tasks : sleep'[u] <=> (u # t /\ sleep[u])
    BY <2>2 DEF TypeOK, AllTasks
  <2>7. \A r \in Sems : \A i \in DOMAIN pcb[r] : pcb[r][i] = t => r = s /\ i = 1
    BY <2>3 DEF SleepsWhileListed
  <2>8. ASSUME NEW u \in Tasks, NEW r \in Sems, NEW i \in DOMAIN pcb'[r], pcb'[r][i] = u
        PROVE  /\ u # t
               /\ IF r = s THEN i + 1 \in DOMAIN pcb[r] /\ pcb[r][i + 1] = u
                           ELSE i \in DOMAIN pcb[r] /\ pcb[r][i] = u
    BY <2>1, <2>3, <2>4, <2>5, <2>7, <2>8
  <2>9. ASSUME NEW u \in Tasks, u # t, NEW r \in Sems, NEW i \in DOMAIN pcb[r], pcb[r][i] = u
        PROVE  \E j \in DOMAIN pcb'[r] : pcb'[r][j] = u
    <3>1. CASE r = s
      <4>1. i # 1 /\ i \in 1 .. n
        BY <2>3, <2>9, <3>1
      <4>2. i - 1 \in 1 .. n - 1 /\ (i - 1) + 1 = i
        BY <2>1, <4>1
      <4> QED
        BY <2>4, <2>9, <3>1, <4>2
    <3>2. CASE r # s
      BY <2>5, <2>9, <3>2
    <3> QED
      BY <3>1, <3>2
  <2>10. \A u \in Tasks : sleep'[u] <=> \E r \in Sems : u \in Waiting(r)'
    BY <2>6, <2>8, <2>9 DEF SleepsWhileListed, Waiting
  <2>11. ASSUME NEW u \in Tasks, NEW p \in Sems, NEW r \in Sems,
                NEW i \in DOMAIN pcb'[p], NEW j \in DOMAIN pcb'[r],
                pcb'[p][i] = u, pcb'[r][j] = u
         PROVE  p = r /\ i = j
    <3>1. p = r
      BY <2>8, <2>11 DEF SleepsWhileListed
    <3>2. CASE p = s
      <4>1. i + 1 = j + 1
        BY <2>8, <2>11, <3>1, <3>2 DEF SleepsWhileListed
      <4> QED
        BY <2>1, <2>4, <2>11, <3>1, <3>2, <4>1
    <3>3. CASE p # s
      BY <2>8, <2>11, <3>1, <3>3 DEF SleepsWhileListed
    <3> QED
      BY <3>1, <3>2, <3>3
  <2> QED
    BY <2>2, <2>10, <2>11 DEF SleepsWhileListed, TypeOK
<1> QED
  BY <1>1, <1>2

-----------------------------------------------------------------------------
(* Steps: nobody who executes is asleep *)

Executing == {"user", "unlock", "return"}

(* Steps that put nobody to sleep, choose nobody and leave every stack where it
   is. *)
LEMMA StillAwake ==
  ASSUME Awake, \A t \in Tasks : sleep'[t] => sleep[t], UNCHANGED <<cputask, onstk>>,
         \A d \in CPUs : tpc'[d] \in Chosen => tpc[d] \in Chosen,
         \A d \in CPUs : tpc'[d] = "task" => tpc[d] = "task",
         \A d \in CPUs : tpc'[d] = "task" /\ reg'[d] \in Executing => reg[d] \in Executing
  PROVE  Awake'
  BY DEF Awake, InTask, Executing

(* The scheduler chooses a task that is not asleep, or its idle loop. *)
LEMMA ChooseAwake ==
  ASSUME TypeOK, Awake, NEW c \in CPUs, tpc[c] = "scan", NEW t \in AllTasks,
         t \in Tasks => ~sleep[t], Choose(c, t)
  PROVE  Awake'
<1>1. /\ cputask' = [cputask EXCEPT ![c] = t]
      /\ tpc' = [tpc EXCEPT ![c] = "unlock"]
      /\ UNCHANGED <<sleep, onstk, reg>>
  BY DEF Choose, semVars
<1> QED
  BY <1>1 DEF Awake, InTask, TypeOK

LEMMA IretAwake ==
  ASSUME TypeOK, Awake, NEW c \in CPUs, Iret(c)
  PROVE  Awake'
<1>1. /\ onstk' = [onstk EXCEPT ![c] = cputask[c]]
      /\ tpc[c] = "iret" /\ tpc' = [tpc EXCEPT ![c] = "task"]
      /\ UNCHANGED <<sleep, cputask>>
      /\ \A d \in CPUs : d # c => reg'[d] = reg[d]
  BY DEF Iret, semVars, schedVars, TypeOK
<1>2. cputask[c] \in Tasks => ~sleep[cputask[c]]
  BY <1>1 DEF Awake, Chosen
<1> QED
  BY <1>1, <1>2 DEF Awake, InTask, TypeOK, Chosen

(* sem_wait's caller is the task cputask names, and awake so far. *)
LEMMA Caller ==
  ASSUME TypeOK, SchedInv, NEW c \in CPUs, InTask(c)
  PROVE  cputask[c] = onstk[c] /\ cputask[c] \in Tasks
  BY NamesAssumption DEF InTask, SchedInv, OnStack, Before

LEMMA WaitSleep ==
  ASSUME TypeOK, SchedInv, SleepInv, NEW c \in CPUs, NEW s \in Sems, SemWait(c, s)
  PROVE  SleepInv'
<1>1. /\ cputask[c] = onstk[c] /\ cputask[c] \in Tasks /\ ~sleep[cputask[c]]
      /\ UNCHANGED <<cputask, onstk, tpc>>
      /\ tpc[c] = "task"
  BY Caller DEF SemWait, InTask, SleepInv, Awake, schedVars, trapVars
<1>2. \A d \in CPUs : d # c => onstk[d] # cputask[c] /\ cputask[d] # cputask[c]
  <2>1. cputask[c] # NULL
    BY <1>1, NamesAssumption
  <2> QED
    BY <1>1, <2>1, StackFacts DEF StackExclusive, Marked
<1>3. CASE count[s] < 1
  <2>1. /\ sleep' = [sleep EXCEPT ![cputask[c]] = TRUE]
        /\ pcb' = [pcb EXCEPT ![s] = Append(pcb[s], cputask[c])]
        /\ reg' = [reg EXCEPT ![c] = "unlock_yield"]
    BY <1>3 DEF SemWait, ListAdd, Goto
  <2>2. SleepsWhileListed'
    BY <1>1, <2>1, WaitListed DEF SleepInv
  <2>3. \A t \in Tasks : t # cputask[c] => sleep'[t] = sleep[t]
    BY <2>1
  <2>4. \A d \in CPUs : d # c => reg'[d] = reg[d]
    BY <2>1 DEF TypeOK
  <2>5. reg'[c] = "unlock_yield"
    BY <2>1 DEF TypeOK
  <2>6. Awake'
    <3>1. \A d \in CPUs : tpc'[d] \in Chosen /\ cputask'[d] \in Tasks => ~sleep'[cputask'[d]]
      BY <1>1, <1>2, <2>3 DEF SleepInv, Awake, Chosen
    <3>2. ASSUME NEW d \in CPUs, InTask(d)', reg'[d] \in {"user", "unlock", "return"}
          PROVE  ~sleep'[onstk'[d]]
      BY <1>1, <1>2, <2>3, <2>4, <2>5, <3>2 DEF SleepInv, Awake, InTask
    <3> QED
      BY <3>1, <3>2 DEF Awake
  <2> QED
    BY <2>2, <2>6 DEF SleepInv
<1>4. CASE ~(count[s] < 1)
  <2>1. UNCHANGED <<sleep, pcb>> /\ reg' = [reg EXCEPT ![c] = "unlock"] /\ reg[c] = "user"
    BY <1>4 DEF SemWait, Goto
  <2>2. Awake'
    BY <1>1, <2>1 DEF SleepInv, Awake, InTask, TypeOK
  <2> QED
    BY <2>1, <2>2 DEF SleepInv, SleepsWhileListed, Waiting
<1> QED
  BY <1>3, <1>4

LEMMA SleepStep ==
  ASSUME TypeOK, SchedInv, SemConsistent, SleepInv, [Next]_vars
  PROVE  SleepInv'
<1>1. CASE UNCHANGED vars
  BY <1>1 DEF vars, schedVars, trapVars, semVars, SleepInv, Awake, InTask, SleepsWhileListed,
              Waiting
<1>2. UNCHANGED semVars => SleepsWhileListed'
  BY DEF semVars, SleepInv, SleepsWhileListed, Waiting
<1>3. ASSUME NEW c \in CPUs,
             Timer(c) \/ Keyboard(c) \/ Yield(c) \/ LockOs(c) \/ Save(c) \/ Seed(c) \/ UnlockOs(c)
      PROVE  SleepInv'
  <2>1. UNCHANGED <<cputask, onstk>> /\ UNCHANGED semVars
    BY <1>3 DEF Timer, Keyboard, Yield, LockOs, Save, Seed, UnlockOs, schedVars
  <2>2. /\ \A d \in CPUs : tpc'[d] \in Chosen => tpc[d] \in Chosen
        /\ \A d \in CPUs : tpc'[d] = "task" => tpc[d] = "task" /\ reg'[d] = reg[d]
    BY <1>3 DEF Timer, Keyboard, Yield, LockOs, Save, Seed, UnlockOs, Enter, TypeOK, Chosen
  <2>3. Awake'
    BY <2>1, <2>2, StillAwake DEF SleepInv, semVars
  <2> QED
    BY <1>2, <2>1, <2>3 DEF SleepInv
<1>4. ASSUME NEW c \in CPUs, ScanNext(c) PROVE SleepInv'
  BY <1>2, <1>4, StillAwake DEF ScanNext, SleepInv, semVars, schedVars
<1>5. ASSUME NEW c \in CPUs, ScanFound(c) \/ ScanNone(c) PROVE SleepInv'
  <2>1. Awake'
    BY <1>5, ChooseAwake, NamesAssumption
       DEF ScanFound, ScanNone, Runnable, SleepInv, AllTasks
  <2>2. UNCHANGED semVars
    BY <1>5 DEF ScanFound, ScanNone, Choose
  <2> QED
    BY <1>2, <2>1, <2>2 DEF SleepInv
<1>6. ASSUME NEW c \in CPUs, Iret(c) PROVE SleepInv'
  BY <1>2, <1>6, IretAwake DEF SleepInv, Iret
<1>7. ASSUME NEW c \in CPUs, Notify(c) PROVE SleepInv'
  <2>1. SleepsWhileListed' /\ \A t \in AllTasks : sleep'[t] => sleep[t]
    BY <1>7, SignalListed, SemsAssumption DEF Notify, SleepInv
  <2>2. /\ \A d \in CPUs : tpc'[d] \in Chosen => tpc[d] \in Chosen
        /\ \A d \in CPUs : tpc'[d] = "task" => tpc[d] = "task"
        /\ UNCHANGED <<cputask, onstk, reg>>
    BY <1>7 DEF Notify, TypeOK, Chosen, schedVars
  <2> QED
    BY <2>1, <2>2, StillAwake DEF SleepInv, AllTasks
<1>8. ASSUME NEW c \in CPUs, NEW s \in Sems, SemSignal(c, s) PROVE SleepInv'
  <2>1. SleepsWhileListed' /\ \A t \in AllTasks : sleep'[t] => sleep[t]
    BY <1>8, SignalListed DEF SemSignal, SleepInv
  <2>2. UNCHANGED <<cputask, onstk, tpc>> /\ reg[c] = "user"
        /\ \A d \in CPUs : d # c => reg'[d] = reg[d]
    BY <1>8 DEF SemSignal, Goto, TypeOK, schedVars, trapVars
  <2> QED
    BY <2>1, <2>2, StillAwake DEF SleepInv, AllTasks, Executing
<1>9. ASSUME NEW c \in CPUs, (\E s \in Sems : SemUnlock(c, s)) \/ SemReturn(c) PROVE SleepInv'
  <2>1. UNCHANGED <<cputask, onstk, tpc>> /\ UNCHANGED semVars
    BY <1>9 DEF SemUnlock, SemReturn, schedVars, trapVars
  <2>2. \A d \in CPUs : reg'[d] \in Executing => reg[d] \in Executing
    BY <1>9 DEF SemUnlock, SemReturn, Goto, TypeOK, Executing
  <2> QED
    BY <1>2, <2>1, <2>2, StillAwake DEF SleepInv, semVars
<1> QED
  BY <1>1, <1>3, <1>4, <1>5, <1>6, <1>7, <1>8, <1>9, WaitSleep DEF Next, TrapStep, TaskStep

LEMMA SleepInvariant == Spec => [](IInv /\ SleepInv)
<1>1. IInv /\ SleepInv /\ [Next]_vars => (IInv /\ SleepInv)'
  BY IInvStep, SleepStep DEF IInv
<1> QED
  BY <1>1, InitIInv, InitSleep, PTL DEF Spec

(* sem_wait and sem_signal lose no wakeup and invent none: a task sleeps exactly
   as long as it is on a semaphore's list. *)
THEOREM SleepListed == Spec => []SleepsWhileListed
<1>1. IInv /\ SleepInv => SleepsWhileListed
  BY DEF SleepInv
<1> QED
  BY <1>1, SleepInvariant, PTL

-----------------------------------------------------------------------------
(* Every step is one of SemaphoreAbs or changes nothing the tasks see. *)

Seen == <<TaskState, Units, pcb>>

LEMMA InitSeen == Init => Promise!Init
  BY NamesAssumption, SemsAssumption
     DEF Init, Promise!Init, TaskState, Units, Blocked, AllTasks

(* The effect of Goto on what the other tasks see: none. *)
LEMMA GotoSeen ==
  ASSUME TypeOK, NEW c \in CPUs, NEW label \in Labels, Goto(c, label)
  PROVE  TaskState' = [t \in Tasks |-> IF t = onstk[c]
                                        THEN IF label \in Blocked THEN "blocked" ELSE "user"
                                        ELSE TaskState[t]]
  BY DEF Goto, TaskState, TypeOK, AllTasks

(* The body of sem_signal hands the unit over, or keeps it. *)
LEMMA SignalGives ==
  ASSUME TypeOK, SemConsistent, NEW s \in Sems, SignalBody(s), TaskState' = TaskState
  PROVE  Promise!Give(s)
<1>1. count' = [count EXCEPT ![s] = count[s] + 1]
  BY DEF SignalBody
<1>2. pcb[s] \in Seq(Tasks)
  BY DEF TypeOK
<1>3. CASE Awaited(s)
  <2>1. pcb[s] # <<>> /\ count[s] < 0
    BY <1>2, <1>3 DEF TypeOK, SemConsistent, Awaited
  <2>2. pcb' = [pcb EXCEPT ![s] = Tail(pcb[s])]
    BY <1>3 DEF SignalBody
  <2>3. Units' = Units
    BY <1>1, <2>1 DEF Units, TypeOK
  <2> QED
    BY <2>1, <2>2, <2>3 DEF Promise!Give
<1>4. CASE ~Awaited(s)
  <2>1. pcb[s] = <<>> /\ count[s] >= 0
    BY <1>2, <1>4 DEF TypeOK, SemConsistent, Awaited
  <2>2. pcb' = pcb
    BY <1>4 DEF SignalBody
  <2>3. \A r \in Sems : Units'[r] = IF r = s THEN Units[s] + 1 ELSE Units[r]
    BY <1>1, <2>1 DEF Units, TypeOK
  <2>4. Units' = [Units EXCEPT ![s] = Units[s] + 1]
    BY <2>3 DEF Units
  <2> QED
    BY <2>1, <2>2, <2>4 DEF Promise!Give
<1> QED
  BY <1>3, <1>4

(* The caller of a semaphore in code of its own is a task of the promise in code
   of its own. *)
LEMMA CallerSeen ==
  ASSUME TypeOK, SchedInv, Coherent, NEW c \in CPUs, InTask(c)
  PROVE  /\ onstk[c] \in Tasks
         /\ TaskState[onstk[c]] = IF reg[c] \in Blocked THEN "blocked" ELSE "user"
  BY DEF InTask, TaskState, Coherent

LEMMA WaitSeen ==
  ASSUME IInv, NEW c \in CPUs, NEW s \in Sems, SemWait(c, s)
  PROVE  Promise!Take(onstk[c], s) \/ Promise!Block(onstk[c], s)
<1> DEFINE t == onstk[c]
<1>1. t \in Tasks /\ TaskState[t] = "user" /\ cputask[c] = t
  BY CallerSeen, Caller DEF IInv, SemWait, Blocked
<1>2. count' = [count EXCEPT ![s] = count[s] - 1] /\ count[s] \in Int
  BY DEF SemWait, IInv, TypeOK
<1> HIDE DEF t
<1>3. CASE count[s] < 1
  <2>1. Goto(c, "unlock_yield") /\ pcb' = [pcb EXCEPT ![s] = Append(pcb[s], t)]
    BY <1>1, <1>3 DEF SemWait, ListAdd
  <2>2. TaskState' = [TaskState EXCEPT ![t] = "blocked"]
    BY <1>1, <2>1, GotoSeen DEF IInv, Labels, Blocked, TaskState, t
  <2>3. Units' = Units /\ Units[s] = 0
    BY <1>2, <1>3 DEF Units, IInv, TypeOK
  <2> QED
    BY <1>1, <2>1, <2>2, <2>3 DEF Promise!Block, t
<1>4. CASE ~(count[s] < 1)
  <2>1. Goto(c, "unlock") /\ pcb' = pcb
    BY <1>4 DEF SemWait
  <2>2. TaskState' = TaskState
    BY <1>1, <2>1, GotoSeen DEF IInv, Labels, Blocked, TaskState, t
  <2>3. \A r \in Sems : Units'[r] = IF r = s THEN Units[s] - 1 ELSE Units[r]
    BY <1>2, <1>4 DEF Units, IInv, TypeOK
  <2>4. Units[s] > 0
    BY <1>2, <1>4 DEF Units
  <2>5. Units' = [Units EXCEPT ![s] = Units[s] - 1]
    BY <2>3 DEF Units
  <2> QED
    BY <1>1, <2>1, <2>2, <2>4, <2>5 DEF Promise!Take, t
<1> QED
  BY <1>3, <1>4

LEMMA SignalSeen ==
  ASSUME IInv, NEW c \in CPUs, NEW s \in Sems, SemSignal(c, s)
  PROVE  Promise!Signal(onstk[c], s)
<1>1. onstk[c] \in Tasks /\ TaskState[onstk[c]] = "user"
  BY CallerSeen DEF IInv, SemSignal, Blocked
<1>2. TaskState' = TaskState
  BY <1>1, GotoSeen DEF IInv, SemSignal, Labels, Blocked, TaskState
<1> QED
  BY <1>1, <1>2, SignalGives DEF IInv, SemSignal, Promise!Signal

(* A task that comes back from its yield is on no list: a signal took it off. *)
LEMMA ReturnSeen ==
  ASSUME IInv, SleepInv, NEW c \in CPUs, SemReturn(c)
  PROVE  Promise!Return(onstk[c])
<1> DEFINE t == onstk[c]
<1>1. InTask(c) /\ reg[c] = "return" /\ Goto(c, "user") /\ UNCHANGED semVars
  BY DEF SemReturn
<1>2. t \in Tasks /\ TaskState[t] = "blocked"
  BY <1>1, CallerSeen DEF IInv, Blocked
<1>3. TaskState' = [TaskState EXCEPT ![t] = "user"]
  BY <1>1, <1>2, GotoSeen DEF IInv, Labels, Blocked, TaskState
<1>4. ~sleep[t]
  BY <1>1 DEF SleepInv, Awake
<1>5. ~Promise!Queued(t)
  BY <1>2, <1>4 DEF SleepInv, SleepsWhileListed, Waiting, Promise!Queued
<1>6. Units' = Units /\ pcb' = pcb
  BY <1>1 DEF semVars, Units
<1> QED
  BY <1>2, <1>3, <1>5, <1>6 DEF Promise!Return

LEMMA StepSeen ==
  ASSUME IInv, SleepInv, [Next]_vars
  PROVE  [Promise!Next]_Seen
<1>1. UNCHANGED stk /\ UNCHANGED semVars => UNCHANGED Seen
  BY DEF semVars, Seen, TaskState, Units
<1>2. CASE UNCHANGED vars
  BY <1>1, <1>2 DEF vars
<1>3. ASSUME NEW c \in CPUs, Timer(c) \/ Keyboard(c) \/ LockOs(c) \/ Save(c) \/ Seed(c)
      PROVE  UNCHANGED Seen
  BY <1>1, <1>3 DEF Timer, Keyboard, LockOs, Save, Seed
<1>4. ASSUME NEW c \in CPUs,
             ScanFound(c) \/ ScanNext(c) \/ ScanNone(c) \/ UnlockOs(c) \/ Iret(c)
      PROVE  UNCHANGED Seen
  BY <1>1, <1>4 DEF ScanFound, ScanNext, ScanNone, Choose, UnlockOs, Iret
<1>5. ASSUME NEW c \in CPUs, NEW s \in Sems, SemUnlock(c, s) PROVE UNCHANGED Seen
  <2>1. PICK label \in Labels :
          Goto(c, label) /\ (label \in Blocked <=> reg[c] \in Blocked)
    BY <1>5 DEF SemUnlock, Labels, Blocked
  <2>2. TaskState[onstk[c]] = IF label \in Blocked THEN "blocked" ELSE "user"
    BY <1>5, <2>1, CallerSeen DEF SemUnlock, IInv
  <2>3. TaskState' = TaskState
    BY <2>1, <2>2, GotoSeen DEF IInv, TaskState
  <2> QED
    BY <1>5, <2>3 DEF SemUnlock, semVars, Seen, Units
<1>6. ASSUME NEW c \in CPUs, Yield(c) PROVE UNCHANGED Seen
  <2>1. Goto(c, "return") /\ reg[c] = "yield" /\ stk[onstk[c]] = "yield"
    BY <1>6 DEF Yield, Goto, IInv, Coherent
  <2>2. TaskState' = TaskState
    BY <2>1, GotoSeen DEF IInv, TaskState, Labels, Blocked
  <2> QED
    BY <1>6, <2>2 DEF Yield, semVars, Seen, Units
<1>7. ASSUME NEW c \in CPUs, Notify(c) PROVE Promise!Interrupt
  <2>1. TaskState' = TaskState
    BY <1>7 DEF Notify, TaskState
  <2> QED
    BY <1>7, <2>1, SignalGives, SemsAssumption DEF Notify, IInv, Promise!Interrupt
<1>8. ASSUME NEW c \in CPUs, NEW s \in Sems, SemWait(c, s) \/ SemSignal(c, s)
      PROVE  Promise!Next
  <2>1. onstk[c] \in Tasks
    BY <1>8 DEF SemWait, SemSignal, InTask
  <2> QED
    BY <1>8, <2>1, WaitSeen, SignalSeen DEF Promise!Next
<1>9. ASSUME NEW c \in CPUs, SemReturn(c) PROVE Promise!Next
  BY <1>9, ReturnSeen DEF SemReturn, InTask, Promise!Next
<1> QED
  BY <1>2, <1>3, <1>4, <1>5, <1>6, <1>7, <1>8, <1>9
     DEF Next, TrapStep, TaskStep, Promise!Next

(* os_trap, its handlers and the semaphores implement what is promised to the
   tasks, on any number of processors: a task blocked on a semaphore returns
   only after a signal gave it a unit, in the order of arrival, and no trap or
   migration shows. *)
THEOREM Implements == Spec => ImplementsSemaphores
<1>1. IInv /\ SleepInv /\ [Next]_vars => [Promise!Next]_Seen
  BY StepSeen
<1> QED
  BY <1>1, InitSeen, SleepInvariant, PTL DEF Spec, ImplementsSemaphores, Promise!Spec, Seen

=============================================================================
