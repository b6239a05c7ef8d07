----------------------------- MODULE TaskTable -----------------------------
(***************************************************************************)
(* The task table: kmt_create and kmt_teardown of kernel/src/kmt.c, called *)
(* by tasks while the processors switch between the tasks of the table, as *)
(* the demo kernel/framework/L2/test_gen.c does.                           *)
(*                                                                         *)
(* Kmt has the trap step by step, over a table that stays as it is.  Here  *)
(* a trap is two steps, the scheduler's decision under lock_os and the     *)
(* change of stacks after it, and nobody sleeps.  lock_kmt makes each of   *)
(* its sections one step; what the calls do before it are steps of their   *)
(* own, with traps and other processors in between.                        *)
(*                                                                         *)
(* kmt_teardown may take away a task that a processor is on, and           *)
(* test_gen.c, its only caller, does: until the next trap of that          *)
(* processor the task runs on a stack that is no longer its own.           *)
(*                                                                         *)
(* A definition whose name begins with Faulty is a variant of the one that *)
(* follows it with a slip in it, which no action uses.                     *)
(***************************************************************************)
EXTENDS Integers, FiniteSets, FiniteSetsExt, Functions

CONSTANTS
  CPUs,
  MAXTASK,   \* slots of tasks[]
  Creators,  \* tasks that create and tear down others; in the table from the start
  Demos,     \* the task_t that they have for this
  Stacks,    \* what pmm has room for
  NULL

ASSUME TableAssumption ==
  /\ MAXTASK \in Nat \ {0} /\ NULL \notin CPUs \cup Creators \cup Demos \cup Stacks \cup Nat
  /\ CPUs \cap (Creators \cup Demos) = {} /\ Creators \cap Demos = {}

Slots == 0 .. MAXTASK - 1
Tasks == Creators \cup Demos

VARIABLES
  tasks, cnt_tasks,
  id, stack,              \* task->id and task->stack, NULL before kmt_create
  run,                    \* task->run
  held,                   \* stacks that are allocated
  cputask, cputask_last,  \* as in Kmt; the idle loop of processor c is named c
  onstk,                  \* the task whose stack the processor is on
  call,                   \* what each creator is about to do under lock_kmt, and to which task
  live                    \* tasks created and not torn down, as their creators know

tableVars == <<tasks, cnt_tasks, id, stack, held, call, live>>
cpuVars == <<run, cputask, cputask_last, onstk>>
vars == <<tableVars, cpuVars>>

Idle == [op |-> "none", task |-> NULL]
Calls == {Idle} \cup [op : {"insert", "remove"}, task : Demos]

(* The table holds tasks, and each task has a slot and a stack or none yet. *)
TypeOK ==
  /\ tasks \in [Slots -> Tasks \cup {NULL}] /\ cnt_tasks \in 0 .. MAXTASK
  /\ id \in [Tasks -> Slots \cup {NULL}] /\ stack \in [Tasks -> Stacks \cup {NULL}]
  /\ run \in [Tasks \cup CPUs -> BOOLEAN]
  /\ held \subseteq Stacks
  /\ cputask \in [CPUs -> Tasks \cup CPUs \cup {NULL}]
  /\ cputask_last \in [CPUs -> Tasks \cup CPUs \cup {NULL}]
  /\ onstk \in [CPUs -> Tasks \cup CPUs]
  /\ call \in [Creators -> Calls]
  /\ live \subseteq Tasks

(* main has created the creators, the processors are in os_run. *)
Init ==
  /\ id \in {f \in [Tasks -> Slots \cup {NULL}] :
               /\ \A x \in Tasks : f[x] = NULL <=> x \in Demos
               /\ IsInjective(Restrict(f, Creators))}
  /\ stack \in {f \in [Tasks -> Stacks \cup {NULL}] :
                  /\ \A x \in Tasks : f[x] = NULL <=> x \in Demos
                  /\ IsInjective(Restrict(f, Creators))}
  /\ tasks = [i \in Slots |-> IF \E x \in Creators : id[x] = i
                              THEN CHOOSE x \in Creators : id[x] = i ELSE NULL]
  /\ cnt_tasks = Cardinality(Creators)
  /\ held = {stack[x] : x \in Creators}
  /\ run = [x \in Tasks \cup CPUs |-> FALSE]
  /\ cputask = [c \in CPUs |-> NULL] /\ cputask_last = [c \in CPUs |-> NULL]
  /\ onstk = [c \in CPUs |-> c]
  /\ call = [t \in Creators |-> Idle]
  /\ live = Creators

-----------------------------------------------------------------------------
(* Traps *)

InTrap(c) == cputask[c] # NULL /\ cputask[c] # onstk[c]

(* kmt_context_save lets go of the task the processor left at the trap before. *)
LetGo(c) == IF cputask_last[c] # cputask[c] THEN cputask_last[c] ELSE NULL

FaultyStillRuns(c, x) == run[x] /\ x # cputask[c]

StillRuns(c, x) == run[x] /\ x # LetGo(c)

Seeds(c) ==
  IF cputask[c] = NULL THEN Slots ELSE {IF cputask[c] \in Tasks THEN id[cputask[c]] ELSE 0}

Runnable(c, i) == tasks[i] # NULL /\ ~StillRuns(c, tasks[i])

(* The first runnable task behind the seed, or the idle loop. *)
Chosen(c, seed) ==
  LET found == {n \in 1 .. MAXTASK : Runnable(c, (seed + n) % MAXTASK)}
  IN IF found = {} THEN c ELSE tasks[(seed + Min(found)) % MAXTASK]

(* os_trap, up to giving lock_os back *)
Trap(c) ==
  /\ ~InTrap(c)
  /\ \E seed \in Seeds(c) :
       LET next == Chosen(c, seed)
       IN /\ cputask' = [cputask EXCEPT ![c] = next]
          /\ run' = [x \in Tasks \cup CPUs |-> StillRuns(c, x) \/ x = next]
  /\ cputask_last' = [cputask_last EXCEPT ![c] = cputask[c]]
  /\ UNCHANGED <<tableVars, onstk>>

Iret(c) ==
  /\ InTrap(c)
  /\ onstk' = [onstk EXCEPT ![c] = cputask[c]]
  /\ UNCHANGED <<tableVars, run, cputask, cputask_last>>

-----------------------------------------------------------------------------
(* Calls of the creator t, which is running *)

Executes(t) == \E c \in CPUs : onstk[c] = t /\ ~InTrap(c)

Room == cnt_tasks < MAXTASK

(* caller: a task_t is created once.  dev.c:53-58 and test_gen.c:17 allocate one for
   each kmt_create, and nobody creates one again after its teardown; kmt_create does
   not check, and clears the run flag. *)
Unused(x) == stack[x] = NULL

(* kmt_create up to lock_kmt.  Without room, in the table or for a stack, it
   returns 1 and has changed nothing. *)
Create(t, x) ==
  /\ Executes(t) /\ call[t] = Idle
  /\ Unused(x)
  /\ Room
  /\ \E b \in Stacks \ held :
       /\ held' = held \cup {b}
       /\ stack' = [stack EXCEPT ![x] = b]
  /\ run' = [run EXCEPT ![x] = FALSE]
  /\ call' = [call EXCEPT ![t] = [op |-> "insert", task |-> x]]
  /\ UNCHANGED <<tasks, cnt_tasks, id, live, cputask, cputask_last, onstk>>

(* The search from the seed on; with no free slot it ends where it began. *)
FreeSlot(seed) == (seed + Max({n \in 0 .. MAXTASK : \A i \in 0 .. n - 1 :
                                 tasks[(seed + i) % MAXTASK] # NULL})) % MAXTASK

Insert(t) ==
  /\ Executes(t) /\ call[t].op = "insert"
  /\ cnt_tasks' = cnt_tasks + 1
  /\ \E seed \in Slots :
       /\ tasks' = [tasks EXCEPT ![FreeSlot(seed)] = call[t].task]
       /\ id' = [id EXCEPT ![call[t].task] = FreeSlot(seed)]
  /\ live' = live \cup {call[t].task}
  /\ call' = [call EXCEPT ![t] = Idle]
  /\ UNCHANGED <<stack, held, cpuVars>>

(* kmt_teardown up to lock_kmt: the stack is given back.  Nothing is asked of
   the task but that it is there. *)
FreeStack(t, x) ==
  /\ Executes(t) /\ call[t] = Idle
  /\ x \in live
  /\ held' = held \ {stack[x]}
  /\ live' = live \ {x}
  /\ call' = [call EXCEPT ![t] = [op |-> "remove", task |-> x]]
  /\ UNCHANGED <<tasks, cnt_tasks, id, stack, cpuVars>>

FaultyCleared(x) == tasks

Cleared(x) == [tasks EXCEPT ![id[x]] = NULL]

Remove(t) ==
  /\ Executes(t) /\ call[t].op = "remove"
  /\ cnt_tasks' = cnt_tasks - 1
  /\ tasks' = Cleared(call[t].task)
  /\ call' = [call EXCEPT ![t] = Idle]
  /\ UNCHANGED <<id, stack, held, live, cpuVars>>

Next ==
  \/ \E c \in CPUs : Trap(c) \/ Iret(c)
  \/ \E t \in Creators :
       \/ \E x \in Demos : Create(t, x) \/ FreeStack(t, x)
       \/ Insert(t) \/ Remove(t)

Spec == Init /\ [][Next]_vars

-----------------------------------------------------------------------------
(* Properties *)

(* Each task that was created and not torn down is in its slot of the table, and
   cnt_tasks counts the slots in use: what "check if tasks are full" and the
   search for a space are for. *)
TableExact ==
  /\ cnt_tasks = Cardinality({i \in Slots : tasks[i] # NULL})
  /\ \A x \in live : tasks[id[x]] = x

(* No task is on two processors, torn down or not.  And a processor that is on a task
   which is not torn down is on a stack that is allocated and that no other such task
   has, whatever was created and torn down meanwhile, and even if another processor
   is still on a task that was.  Of that processor's own stack nothing is said: it may
   be another task's by now. *)
StackOwned ==
  \A c \in CPUs : onstk[c] \in Tasks =>
    /\ \A d \in CPUs \ {c} : onstk[d] # onstk[c]
    /\ onstk[c] \in live =>
         /\ stack[onstk[c]] \in held
         /\ \A x \in live \ {onstk[c]} : stack[x] # stack[onstk[c]]

=============================================================================
