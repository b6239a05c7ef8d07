-------------------------------- MODULE Kmt --------------------------------
(***************************************************************************)
(* The kernel's threads: os_trap of kernel/src/os.c with the handlers      *)
(* kmt_context_save, input_notify and kmt_context_switch it calls, and the *)
(* semaphores of kernel/src/kmt.c.                                         *)
(*                                                                         *)
(* Processors run in parallel.  Each is on the stack of some task; a trap  *)
(* is a sequence of steps on that stack which ends, at iret, on the stack  *)
(* of the task the scheduler chose.  The trap gives lock_os back before it *)
(* leaves the old stack, so what keeps a second processor off that stack   *)
(* is the task's run flag alone.                                           *)
(*                                                                         *)
(* tasks[] is what dev_init left in it: a task is named by its slot, which *)
(* is its id.  cpudefaulttask[c], the idle loop of os_run, is named c.     *)
(* Critical sections of a spinlock are single steps; Spinlock is where     *)
(* the locks themselves are.  lock_kmt is only taken inside lock_os here.  *)
(*                                                                         *)
(* A definition whose name begins with Faulty is a variant of the one that *)
(* follows it with a slip in it.  No action uses it: it is there to see a  *)
(* property fail.                                                          *)
(***************************************************************************)
EXTENDS Integers, Sequences

CONSTANTS
  CPUs,       \* processors
  IrqCPUs,    \* those the I/O controller sends keyboard interrupts to
  MAXTASK,    \* slots of tasks[]
  Tasks,      \* the slots in use
  Sems,       \* semaphores
  KbdSem,     \* sem_kbdirq, signalled by the keyboard's interrupt handler
  InitCount,  \* the value each semaphore is initialised with
  MaxCount,   \* bound: no signal is sent to a semaphore at this count
  NULL

ASSUME TasksAssumption == MAXTASK \in Nat \ {0} /\ Tasks \subseteq 0 .. MAXTASK - 1
ASSUME NamesAssumption == CPUs \cap Tasks = {} /\ NULL \notin CPUs \cup Tasks
ASSUME SemsAssumption ==
  /\ IrqCPUs \subseteq CPUs
  /\ KbdSem \in Sems
  /\ InitCount \in [Sems -> Nat]
  /\ MaxCount \in Nat

(* Every task_t: those of tasks[] and one idle loop for each processor. *)
AllTasks == Tasks \cup CPUs

VARIABLES
  run,           \* task->run
  sleep,         \* task->sleep
  context,       \* task->context: where the saved registers resume the task
  cputask,       \* the task the scheduler last chose for each processor
  cputask_last,  \* the task the processor was on at its last trap
  notdefault,    \* is the idle loop's context saved?
  lock_os,       \* the processor in os_trap's critical section
  tpc,           \* where the processor is in the trap, "task" outside
  event,         \* the event os_trap was called with
  nxt, left,     \* scheduler's loop: the slot to look at, slots still to look at
  onstk,         \* the task whose stack the processor is on
  reg,           \* the processor's registers: where in the task's code it is
  stk,           \* the task's stack: where in its code the task got to
  intr,          \* interrupt flag of each processor
  count,         \* sem->count
  cnt_tasks,     \* sem->cnt_tasks
  pcb,           \* sem->pcb: the tasks asleep on it, longest first
  semlock        \* the processor holding sem->lock

schedVars == <<run, context, cputask, cputask_last, notdefault>>
trapVars == <<lock_os, tpc, event, nxt, left>>
semVars == <<sleep, count, cnt_tasks, pcb>>
vars == <<schedVars, trapVars, semVars, onstk, reg, stk, intr, semlock>>

(* Where a task can be: in code of its own, inside sem_wait or sem_signal with
   the semaphore's lock held, or around sem_wait's yield. *)
Labels == {"user", "unlock", "unlock_yield", "yield", "return"}
TrapSteps == {"task", "lock", "save", "notify", "seed", "scan", "unlock", "iret"}
Events == {"none", "timer", "iodev", "yield"}

(* The flags, registers and lists of the kernel keep their types: an id is a slot of
   tasks[] or an idle loop, a list holds tasks of tasks[] alone. *)
TypeOK ==
  /\ run \in [AllTasks -> BOOLEAN]
  /\ sleep \in [AllTasks -> BOOLEAN]
  /\ context \in [AllTasks -> Labels]
  /\ cputask \in [CPUs -> AllTasks \cup {NULL}]
  /\ cputask_last \in [CPUs -> AllTasks \cup {NULL}]
  /\ notdefault \in [CPUs -> BOOLEAN]
  /\ lock_os \in CPUs \cup {NULL}
  /\ tpc \in [CPUs -> TrapSteps]
  /\ event \in [CPUs -> Events]
  /\ nxt \in [CPUs -> 0 .. MAXTASK - 1]
  /\ left \in [CPUs -> 0 .. MAXTASK]
  /\ onstk \in [CPUs -> AllTasks]
  /\ reg \in [CPUs -> Labels]
  /\ stk \in [AllTasks -> Labels]
  /\ intr \in [CPUs -> BOOLEAN]
  /\ count \in [Sems -> Int]
  /\ cnt_tasks \in [Sems -> Int]
  /\ pcb \in [Sems -> Seq(Tasks)]
  /\ semlock \in [Sems -> CPUs \cup {NULL}]

(* Every processor has been through the init functions and is in os_run, at
   its _yield(); kcontext made the tasks' contexts. *)
Init ==
  /\ run = [t \in AllTasks |-> FALSE]
  /\ sleep = [t \in AllTasks |-> FALSE]
  /\ context = [t \in AllTasks |-> "user"]
  /\ cputask = [c \in CPUs |-> NULL]
  /\ cputask_last = [c \in CPUs |-> NULL]
  /\ notdefault = [c \in CPUs |-> FALSE]
  /\ lock_os = NULL
  /\ tpc = [c \in CPUs |-> "task"]
  /\ event = [c \in CPUs |-> "none"]
  /\ nxt = [c \in CPUs |-> 0]
  /\ left = [c \in CPUs |-> 0]
  /\ onstk = [c \in CPUs |-> c]
  /\ reg = [c \in CPUs |-> "yield"]
  /\ stk = [t \in AllTasks |-> IF t \in CPUs THEN "yield" ELSE "user"]
  /\ intr = [c \in CPUs |-> TRUE]
  /\ count = InitCount
  /\ cnt_tasks = [s \in Sems |-> 0]
  /\ pcb = [s \in Sems |-> <<>>]
  /\ semlock = [s \in Sems |-> NULL]

-----------------------------------------------------------------------------
(* Traps *)

(* An interrupt or the yield instruction: the entry code pushes the registers
   and clears the interrupt flag. *)
Enter(c, ev) ==
  /\ tpc[c] = "task"
  /\ tpc' = [tpc EXCEPT ![c] = "lock"]
  /\ event' = [event EXCEPT ![c] = ev]
  /\ intr' = [intr EXCEPT ![c] = FALSE]

Timer(c) ==
  /\ intr[c]
  /\ Enter(c, "timer")
  /\ UNCHANGED <<schedVars, lock_os, nxt, left, semVars, onstk, reg, stk, semlock>>

Keyboard(c) ==
  /\ c \in IrqCPUs
  /\ count[KbdSem] < MaxCount
  /\ intr[c]
  /\ Enter(c, "iodev")
  /\ UNCHANGED <<schedVars, lock_os, nxt, left, semVars, onstk, reg, stk, semlock>>

Yield(c) ==
  /\ reg[c] = "yield"
  /\ Enter(c, "yield")
  /\ reg' = [reg EXCEPT ![c] = "return"]
  /\ stk' = [stk EXCEPT ![onstk[c]] = "return"]
  /\ UNCHANGED <<schedVars, lock_os, nxt, left, semVars, onstk, semlock>>

LockOs(c) ==
  /\ tpc[c] = "lock"
  /\ lock_os = NULL
  /\ lock_os' = c
  /\ tpc' = [tpc EXCEPT ![c] = "save"]
  /\ UNCHANGED <<schedVars, event, nxt, left, semVars, onstk, reg, stk, intr, semlock>>

(* The task kmt_context_save lets go: the one left at the trap before, which
   could not be let go while this processor was still on its stack. *)
FaultyLetGoAtOnce(c) == cputask[c]
FaultyLetGoAwake(c) ==
  IF cputask_last[c] \in {NULL, cputask[c]} \/ sleep[cputask_last[c]] THEN NULL ELSE cputask_last[c]
FaultyLetGoNone(c) == NULL

LetGo(c) == IF cputask_last[c] # cputask[c] THEN cputask_last[c] ELSE NULL

(* The tasks it saves the registers for; the idle loop at the first trap only. *)
FaultySavedFor(c) == {cputask_last[c]} \cup {t \in {c} : ~notdefault[c]}

SavedFor(c) == {cputask[c]} \cup {t \in {c} : ~notdefault[c]}

Save(c) ==
  /\ tpc[c] = "save"
  /\ run' = [t \in AllTasks |-> run[t] /\ t # LetGo(c)]
  /\ context' = [t \in AllTasks |-> IF t \in SavedFor(c) THEN reg[c] ELSE context[t]]
  /\ notdefault' = [notdefault EXCEPT ![c] = TRUE]
  /\ cputask_last' = [cputask_last EXCEPT ![c] = cputask[c]]
  /\ tpc' = [tpc EXCEPT ![c] = IF event[c] = "iodev" THEN "notify" ELSE "seed"]
  /\ UNCHANGED <<cputask, lock_os, event, nxt, left, semVars, onstk, reg, stk, intr, semlock>>

(* The list of a semaphore: added to at one end, deleted from at the other. *)
FaultyListAdd(queue, t) == <<t>> \o queue

ListAdd(queue, t) == Append(queue, t)

FaultyAwaited(s) == cnt_tasks[s] > 1

Awaited(s) == cnt_tasks[s] > 0

FaultyWake(t) == IF run[t] THEN UNCHANGED sleep ELSE sleep' = [sleep EXCEPT ![t] = FALSE]

Wake(t) == sleep' = [sleep EXCEPT ![t] = FALSE]

(* The body of sem_signal: the task asleep longest is woken. *)
SignalBody(s) ==
  /\ count' = [count EXCEPT ![s] = @ + 1]
  /\ IF Awaited(s)
     THEN /\ Wake(Head(pcb[s]))
          /\ pcb' = [pcb EXCEPT ![s] = Tail(@)]
          /\ cnt_tasks' = [cnt_tasks EXCEPT ![s] = @ - 1]
     ELSE UNCHANGED <<sleep, pcb, cnt_tasks>>

(* input_notify, on a keyboard interrupt only *)
Notify(c) ==
  /\ tpc[c] = "notify"
  /\ semlock[KbdSem] = NULL
  /\ SignalBody(KbdSem)
  /\ tpc' = [tpc EXCEPT ![c] = "seed"]
  /\ UNCHANGED <<schedVars, lock_os, event, nxt, left, onstk, reg, stk, intr, semlock>>

(* The id of a task: its slot; that of an idle loop was never assigned. *)
Id(t) == IF t \in Tasks THEN t ELSE 0

(* kmt_context_switch: the seed, from which the scan starts one slot on *)
FaultySeeds(c) == {MAXTASK - 1}

Seeds(c) == IF cputask[c] = NULL THEN 0 .. MAXTASK - 1 ELSE {Id(cputask[c])}

SlotAfter(i) == (i + 1) % MAXTASK

Seed(c) ==
  /\ tpc[c] = "seed"
  /\ \E seed \in Seeds(c) : nxt' = [nxt EXCEPT ![c] = SlotAfter(seed)]
  /\ left' = [left EXCEPT ![c] = MAXTASK]
  /\ tpc' = [tpc EXCEPT ![c] = "scan"]
  /\ UNCHANGED <<schedVars, lock_os, event, semVars, onstk, reg, stk, intr, semlock>>

Runnable(t) == t \in Tasks /\ ~run[t] /\ ~sleep[t]

FaultyMarkRunning(t) == UNCHANGED run

MarkRunning(t) == run' = [run EXCEPT ![t] = TRUE]

Choose(c, t) ==
  /\ MarkRunning(t)
  /\ cputask' = [cputask EXCEPT ![c] = t]
  /\ nxt' = [nxt EXCEPT ![c] = 0]
  /\ left' = [left EXCEPT ![c] = 0]
  /\ tpc' = [tpc EXCEPT ![c] = "unlock"]
  /\ UNCHANGED <<context, cputask_last, notdefault, lock_os, event, semVars, onstk, reg, stk,
                 intr, semlock>>

ScanFound(c) ==
  /\ tpc[c] = "scan"
  /\ left[c] > 0
  /\ Runnable(nxt[c])
  /\ Choose(c, nxt[c])

(* One slot is passed over.  A signal elsewhere may wake its task just after. *)
ScanNext(c) ==
  /\ tpc[c] = "scan"
  /\ left[c] > 0
  /\ ~Runnable(nxt[c])
  /\ nxt' = [nxt EXCEPT ![c] = SlotAfter(@)]
  /\ left' = [left EXCEPT ![c] = @ - 1]
  /\ UNCHANGED <<schedVars, lock_os, tpc, event, semVars, onstk, reg, stk, intr, semlock>>

ScanNone(c) ==
  /\ tpc[c] = "scan"
  /\ left[c] = 0
  /\ Choose(c, c)

UnlockOs(c) ==
  /\ tpc[c] = "unlock"
  /\ lock_os' = NULL
  /\ tpc' = [tpc EXCEPT ![c] = "iret"]
  /\ UNCHANGED <<schedVars, event, nxt, left, semVars, onstk, reg, stk, intr, semlock>>

(* The end of irq_handle: the processor moves to the chosen task's stack and
   takes over its registers; every saved flags register has interrupts on. *)
Iret(c) ==
  /\ tpc[c] = "iret"
  /\ onstk' = [onstk EXCEPT ![c] = cputask[c]]
  /\ reg' = [reg EXCEPT ![c] = context[cputask[c]]]
  /\ intr' = [intr EXCEPT ![c] = TRUE]
  /\ event' = [event EXCEPT ![c] = "none"]
  /\ tpc' = [tpc EXCEPT ![c] = "task"]
  /\ UNCHANGED <<schedVars, lock_os, nxt, left, semVars, stk, semlock>>

-----------------------------------------------------------------------------
(* Code of a task, executed by processor c with its registers *)

Goto(c, label) ==
  /\ reg' = [reg EXCEPT ![c] = label]
  /\ stk' = [stk EXCEPT ![onstk[c]] = label]

(* A task of tasks[] is about to call into the semaphores. *)
InTask(c) == tpc[c] = "task" /\ onstk[c] \in Tasks

(* spin_lock(&sem->lock), which turns interrupts off *)
LockSem(c, s) ==
  /\ semlock[s] = NULL
  /\ semlock' = [semlock EXCEPT ![s] = c]
  /\ intr' = [intr EXCEPT ![c] = FALSE]

(* sem_wait up to spin_unlock.  It is cputask, not the stack it is on, that the
   code enqueues and puts to sleep. *)
SemWait(c, s) ==
  /\ InTask(c)
  /\ reg[c] = "user"
  /\ LockSem(c, s)
  /\ count' = [count EXCEPT ![s] = @ - 1]
  /\ IF count[s] < 1
     THEN /\ cnt_tasks' = [cnt_tasks EXCEPT ![s] = @ + 1]
          /\ sleep' = [sleep EXCEPT ![cputask[c]] = TRUE]
          /\ pcb' = [pcb EXCEPT ![s] = ListAdd(@, cputask[c])]
          /\ Goto(c, "unlock_yield")
     ELSE /\ Goto(c, "unlock")
          /\ UNCHANGED <<cnt_tasks, sleep, pcb>>
  /\ UNCHANGED <<schedVars, trapVars, onstk>>

(* sem_signal up to spin_unlock *)
SemSignal(c, s) ==
  /\ InTask(c)
  /\ reg[c] = "user"
  /\ count[s] < MaxCount
  /\ LockSem(c, s)
  /\ SignalBody(s)
  /\ Goto(c, "unlock")
  /\ UNCHANGED <<schedVars, trapVars, onstk>>

(* spin_unlock(&sem->lock): interrupts are on again, and the task that went to
   sleep still has its yield to execute. *)
SemUnlock(c, s) ==
  /\ InTask(c)
  /\ reg[c] \in {"unlock", "unlock_yield"}
  /\ semlock[s] = c
  /\ semlock' = [semlock EXCEPT ![s] = NULL]
  /\ intr' = [intr EXCEPT ![c] = TRUE]
  /\ Goto(c, IF reg[c] = "unlock" THEN "user" ELSE "yield")
  /\ UNCHANGED <<schedVars, trapVars, semVars, onstk>>

(* sem_wait returns after its yield. *)
SemReturn(c) ==
  /\ InTask(c)
  /\ reg[c] = "return"
  /\ Goto(c, "user")
  /\ UNCHANGED <<schedVars, trapVars, semVars, onstk, intr, semlock>>

-----------------------------------------------------------------------------

TrapStep(c) ==
  \/ LockOs(c)
  \/ Save(c)
  \/ Notify(c)
  \/ Seed(c)
  \/ ScanFound(c)
  \/ ScanNext(c)
  \/ ScanNone(c)
  \/ UnlockOs(c)
  \/ Iret(c)

TaskStep(c) ==
  \/ \E s \in Sems : SemWait(c, s) \/ SemSignal(c, s) \/ SemUnlock(c, s)
  \/ SemReturn(c)
  \/ Yield(c)

Next == \E c \in CPUs : Timer(c) \/ Keyboard(c) \/ TrapStep(c) \/ TaskStep(c)

Spec == Init /\ [][Next]_vars

(* A processor keeps executing; a processor spinning for a lock is not passed
   over for ever; the timer's interrupt stays pending while interrupts are off. *)
Fairness ==
  \A c \in CPUs :
    /\ WF_vars(TrapStep(c) \/ \E s \in Sems : SemUnlock(c, s))
    /\ SF_vars(LockOs(c) \/ Notify(c))
    /\ SF_vars(Timer(c))

FairSpec == Spec /\ Fairness

(* Besides, a task that is run again and again is not interrupted every time
   before its next instruction. *)
By(t, c) == onstk[c] = t

TaskFairness ==
  \A t \in Tasks :
    SF_vars(\E c \in CPUs : By(t, c) /\ (SemReturn(c) \/ Yield(c)))

FairTasksSpec == FairSpec /\ TaskFairness

-----------------------------------------------------------------------------
(* Properties *)

(* Two processors are never on one stack.  The trap releases lock_os while it
   is still on the old task's stack: the old task must not be chosen by another
   processor before iret. *)
StackExclusive ==
  \A c, d \in CPUs : c # d => onstk[c] # onstk[d]

(* The registers a processor runs a task with are those the task's stack goes
   with: a task goes on exactly where it was interrupted, however many
   processors it has been through. *)
ResumedWhereLeft ==
  \A c \in CPUs : tpc[c] = "task" => reg[c] = stk[onstk[c]]

(* The assertions on a running task: marked as running while it executes
   (kmt.c:234), running or asleep when it traps (kmt.c:24); and what sem_wait
   puts to sleep, cputask, is the task that called it. *)
RunningMarked ==
  \A c \in CPUs :
    /\ InTask(c) => run[onstk[c]] /\ cputask[c] = onstk[c]
    /\ tpc[c] = "save" /\ cputask[c] # NULL => run[cputask[c]] \/ sleep[cputask[c]]

(* A task is marked as running only on account of a processor that is on its
   stack or about to be, so none is lost to the scheduler for good. *)
RunAccounted ==
  \A t \in Tasks : run[t] => \E c \in CPUs : t \in {cputask[c], cputask_last[c]}

Waiting(s) == {pcb[s][i] : i \in DOMAIN pcb[s]}

(* A semaphore's count, its counter of sleepers and its list agree whenever its
   lock is free or held: below zero the count says how many sleep. *)
SemConsistent ==
  \A s \in Sems :
    /\ cnt_tasks[s] = Len(pcb[s])
    /\ cnt_tasks[s] = IF count[s] < 0 THEN -count[s] ELSE 0

(* No wakeup is lost and none is invented: a task sleeps exactly as long as it
   is on the list of one semaphore, once. *)
SleepsWhileListed ==
  \A t \in Tasks :
    /\ sleep[t] <=> \E s \in Sems : t \in Waiting(s)
    /\ \A r, s \in Sems : \A i \in DOMAIN pcb[r], j \in DOMAIN pcb[s] :
         pcb[r][i] = t /\ pcb[s][j] = t => r = s /\ i = j

(* A task that is runnable is run: the linear scan, started one slot after the
   task that was running, passes nobody over for ever. *)
RunnableRuns ==
  \A t \in Tasks : Runnable(t) ~> run[t]

(* A task that was signalled comes back from sem_wait. *)
WokenReturns ==
  \A t \in Tasks :
    stk[t] \in {"unlock_yield", "yield", "return"} /\ ~sleep[t] ~> stk[t] = "user"

-----------------------------------------------------------------------------
(* What the tasks see *)

Blocked == {"unlock_yield", "yield", "return"}

TaskState == [t \in Tasks |-> IF stk[t] \in Blocked THEN "blocked" ELSE "user"]
Units == [s \in Sems |-> IF count[s] < 0 THEN 0 ELSE count[s]]

Promise == INSTANCE SemaphoreAbs WITH pc <- TaskState, units <- Units, queue <- pcb

(* The traps, the scheduler and the processors implement tasks that share
   nothing but semaphores with a first-come first-served queue. *)
ImplementsSemaphores == Promise!Spec

=============================================================================
