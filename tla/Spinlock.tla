------------------------------ MODULE Spinlock ------------------------------
(***************************************************************************)
(* The spinlocks of kernel/src/kmt.c (pushcli, popcli, holding, spin_lock, *)
(* spin_unlock), one step per instruction that another processor or an     *)
(* interrupt can tell apart.                                               *)
(*                                                                         *)
(* A context is a thread or the trap handler of a processor.  A processor  *)
(* whose interrupt flag is set may be interrupted between any two steps *)
(* of its thread; the handler runs with IF clear on that thread's stack    *)
(* and may return to another thread, so a thread may find itself on        *)
(* another processor between any two steps it takes with IF set.           *)
(*                                                                         *)
(* Locks are numbered along the order in which the kernel nests them       *)
(* (os before kmt before alloc, os before a semaphore's lock before alloc).*)
(*                                                                         *)
(* A definition whose name begins with Faulty is a variant of the one that *)
(* follows it with a slip in it, there to see a property fail.             *)
(***************************************************************************)
EXTENDS Integers, FiniteSets

CONSTANTS
  CPUs,     \* processors; a processor also names its own trap handler
  Threads,  \* kernel threads
  Locks,    \* spinlocks, numbered in nesting order
  NULL      \* lk->cpu = -1, or no lock argument

ASSUME LocksAssumption == Locks \subseteq Nat /\ IsFiniteSet(Locks)
ASSUME NamesAssumption ==
  /\ CPUs \cap Threads = {}
  /\ NULL \notin CPUs
  /\ NULL \notin Locks

Contexts == Threads \cup CPUs

VARIABLES
  locked,   \* lk->locked
  lkcpu,    \* lk->cpu
  intr,     \* interrupt flag of each processor
  cpuncli,  \* depth of pushcli nesting of each processor
  intena,   \* interrupt flag before the outermost pushcli
  intrap,   \* is the processor inside its trap handler?
  on,       \* the thread whose stack the processor is on
  pc,       \* where each context is inside spin_lock or spin_unlock
  flag,     \* pushcli's local variable IF, of each context
  arg,      \* the lock the current call is about
  held      \* the locks a context has acquired and not yet let go

vars == <<locked, lkcpu, intr, cpuncli, intena, intrap, on, pc, flag, arg, held>>

PCs == {"idle", "pushcli", "cli", "xchg", "owner", "assert", "disown", "release",
        "popcli"}

(* Lock words, nesting counts and flags keep their types; the count of pushcli never
   goes below zero (the Panic of popcli). *)
TypeOK ==
  /\ locked \in [Locks -> BOOLEAN]
  /\ lkcpu \in [Locks -> CPUs \cup {NULL}]
  /\ intr \in [CPUs -> BOOLEAN]
  /\ cpuncli \in [CPUs -> Nat]
  /\ intena \in [CPUs -> BOOLEAN]
  /\ intrap \in [CPUs -> BOOLEAN]
  /\ on \in [CPUs -> Threads]
  /\ pc \in [Contexts -> PCs]
  /\ flag \in [Contexts -> BOOLEAN]
  /\ arg \in [Contexts -> Locks \cup {NULL}]
  /\ held \in [Contexts -> SUBSET Locks]

(* The context executing on processor c. *)
Cur(c) == IF intrap[c] THEN c ELSE on[c]

(* Every processor runs a thread of its own, with interrupts on. *)
Init ==
  /\ locked = [l \in Locks |-> FALSE]
  /\ lkcpu = [l \in Locks |-> NULL]
  /\ intr = [c \in CPUs |-> TRUE]
  /\ cpuncli = [c \in CPUs |-> 0]
  /\ intena = [c \in CPUs |-> FALSE]
  /\ intrap = [c \in CPUs |-> FALSE]
  /\ on \in [CPUs -> Threads]
  /\ \A c, d \in CPUs : c # d => on[c] # on[d]
  /\ pc = [x \in Contexts |-> "idle"]
  /\ flag = [x \in Contexts |-> FALSE]
  /\ arg = [x \in Contexts |-> NULL]
  /\ held = [x \in Contexts |-> {}]

At(c, label) == pc[Cur(c)] = label
Goto(c, label) == pc' = [pc EXCEPT ![Cur(c)] = label]

-----------------------------------------------------------------------------
(* spin_lock *)

(* A context calls spin_lock on a lock that comes after those it holds. *)
CallLock(c, l) ==
  /\ At(c, "idle")
  /\ \A k \in held[Cur(c)] : k < l
  /\ arg' = [arg EXCEPT ![Cur(c)] = l]
  /\ Goto(c, "pushcli")
  /\ UNCHANGED <<locked, lkcpu, intr, cpuncli, intena, intrap, on, flag, held>>

(* IF = _intr_read(): an interrupt may still come before the next step, and
   the thread may go on elsewhere. *)
PushcliRead(c) ==
  /\ At(c, "pushcli")
  /\ flag' = [flag EXCEPT ![Cur(c)] = intr[c]]
  /\ Goto(c, "cli")
  /\ UNCHANGED <<locked, lkcpu, intr, cpuncli, intena, intrap, on, arg, held>>

FaultyCli(c) == UNCHANGED intr

Cli(c) == intr' = [intr EXCEPT ![c] = FALSE]

FaultyOutermost(c) == TRUE

Outermost(c) == cpuncli[c] = 0

FaultyPushcliCount(c) ==
  /\ At(c, "cli")
  /\ Cli(c)
  /\ intena' = IF Outermost(c) THEN [intena EXCEPT ![c] = flag[Cur(c)]] ELSE intena
  /\ cpuncli' = [cpuncli EXCEPT ![c] = @ + 1]
  /\ lkcpu' = [lkcpu EXCEPT ![arg[Cur(c)]] = c]
  /\ Goto(c, "xchg")
  /\ UNCHANGED <<locked, intrap, on, flag, arg, held>>

(* _intr_write(0), and the two lines on the per-processor counters that then
   run undisturbed. *)
PushcliCount(c) ==
  /\ At(c, "cli")
  /\ Cli(c)
  /\ intena' = IF Outermost(c) THEN [intena EXCEPT ![c] = flag[Cur(c)]] ELSE intena
  /\ cpuncli' = [cpuncli EXCEPT ![c] = @ + 1]
  /\ Goto(c, "xchg")
  /\ UNCHANGED <<locked, lkcpu, intrap, on, flag, arg, held>>

FaultyFree(l) == TRUE

Free(l) == ~locked[l]

(* The round of the xchg loop that finds the lock free; the rounds that do not
   leave locked at 1. *)
Xchg(c) ==
  /\ At(c, "xchg")
  /\ Free(arg[Cur(c)])
  /\ locked' = [locked EXCEPT ![arg[Cur(c)]] = TRUE]
  /\ held' = [held EXCEPT ![Cur(c)] = @ \cup {arg[Cur(c)]}]
  /\ Goto(c, "owner")
  /\ UNCHANGED <<lkcpu, intr, cpuncli, intena, intrap, on, flag, arg>>

SetOwner(c) ==
  /\ At(c, "owner")
  /\ lkcpu' = [lkcpu EXCEPT ![arg[Cur(c)]] = c]
  /\ arg' = [arg EXCEPT ![Cur(c)] = NULL]
  /\ Goto(c, "idle")
  /\ UNCHANGED <<locked, intr, cpuncli, intena, intrap, on, flag, held>>

-----------------------------------------------------------------------------
(* spin_unlock *)

(* A context lets go of the lock it took last. *)
CallUnlock(c, l) ==
  /\ At(c, "idle")
  /\ l \in held[Cur(c)]
  /\ \A k \in held[Cur(c)] : k <= l
  /\ arg' = [arg EXCEPT ![Cur(c)] = l]
  /\ Goto(c, "assert")
  /\ UNCHANGED <<locked, lkcpu, intr, cpuncli, intena, intrap, on, flag, held>>

(* The result of holding(): its own pushcli and popcli cancel out. *)
Holding(c, l) == locked[l] /\ lkcpu[l] = c

(* assert(holding(lk)): a processor whose assertion fails halts. *)
AssertHolding(c) ==
  /\ At(c, "assert")
  /\ Holding(c, arg[Cur(c)])
  /\ Goto(c, "disown")
  /\ UNCHANGED <<locked, lkcpu, intr, cpuncli, intena, intrap, on, flag, arg, held>>

ClearOwner(c) ==
  /\ At(c, "disown")
  /\ lkcpu' = [lkcpu EXCEPT ![arg[Cur(c)]] = NULL]
  /\ Goto(c, "release")
  /\ UNCHANGED <<locked, intr, cpuncli, intena, intrap, on, flag, arg, held>>

Release(c) ==
  /\ At(c, "release")
  /\ locked' = [locked EXCEPT ![arg[Cur(c)]] = FALSE]
  /\ held' = [held EXCEPT ![Cur(c)] = @ \ {arg[Cur(c)]}]
  /\ Goto(c, "popcli")
  /\ UNCHANGED <<lkcpu, intr, cpuncli, intena, intrap, on, flag, arg>>

Popped(n) == n - 1

FaultyLastPop(c) == intena[c]

LastPop(c) == cpuncli[c] = 1 /\ intena[c]

Popcli(c) ==
  /\ At(c, "popcli")
  /\ cpuncli' = [cpuncli EXCEPT ![c] = Popped(@)]
  /\ intr' = [intr EXCEPT ![c] = @ \/ LastPop(c)]
  /\ arg' = [arg EXCEPT ![Cur(c)] = NULL]
  /\ Goto(c, "idle")
  /\ UNCHANGED <<locked, lkcpu, intena, intrap, on, flag, held>>

-----------------------------------------------------------------------------
(* Traps, as far as the locks can see them *)

(* An interrupt: the entry code clears IF and calls the handler. *)
Interrupt(c) ==
  /\ intr[c]
  /\ ~intrap[c]
  /\ intrap' = [intrap EXCEPT ![c] = TRUE]
  /\ intr' = [intr EXCEPT ![c] = FALSE]
  /\ UNCHANGED <<locked, lkcpu, cpuncli, intena, on, pc, flag, arg, held>>

(* The handler has let go of its locks and returns to thread t, either the one
   it interrupted or one that no processor is on; iret sets IF again. *)
Iret(c, t) ==
  /\ intrap[c]
  /\ pc[c] = "idle"
  /\ held[c] = {}
  /\ t = on[c] \/ \A d \in CPUs : on[d] # t
  /\ intrap' = [intrap EXCEPT ![c] = FALSE]
  /\ on' = [on EXCEPT ![c] = t]
  /\ intr' = [intr EXCEPT ![c] = TRUE]
  /\ UNCHANGED <<locked, lkcpu, cpuncli, intena, pc, flag, arg, held>>

-----------------------------------------------------------------------------

(* What a context inside a call does next. *)
Step(c) ==
  \/ PushcliRead(c)
  \/ PushcliCount(c)
  \/ Xchg(c)
  \/ SetOwner(c)
  \/ AssertHolding(c)
  \/ ClearOwner(c)
  \/ Release(c)
  \/ Popcli(c)

Next ==
  \E c \in CPUs :
    \/ \E l \in Locks : CallLock(c, l) \/ CallUnlock(c, l)
    \/ Step(c)
    \/ Interrupt(c)
    \/ \E t \in Threads : Iret(c, t)

Spec == Init /\ [][Next]_vars

(* A processor keeps executing; the critical section of every lock ends; the
   hardware does not let one processor lose every race for the bus. *)
Fairness ==
  /\ \A c \in CPUs :
       /\ WF_vars(Step(c))
       /\ SF_vars(Xchg(c))
       /\ \A l \in Locks : SF_vars(CallUnlock(c, l))

FairSpec == Spec /\ Fairness

-----------------------------------------------------------------------------
(* Properties *)

(* No lock is held by two contexts at once: what the xchg loop of spin_lock
   and the order of the two stores of spin_unlock are for. *)
MutualExclusion ==
  \A x, y \in Contexts : x # y => held[x] \cap held[y] = {}

(* Between the return of spin_lock and the store to lk->cpu of spin_unlock the
   lock carries the processor its holder runs on, so assert(holding(lk)) holds
   even though the holder could have been moved before it took the lock. *)
HolderIsOwner ==
  \A c \in CPUs : \A l \in held[Cur(c)] :
    \/ Holding(c, l)
    \/ pc[Cur(c)] \in {"owner", "release"} /\ arg[Cur(c)] = l

(* cpuncli counts exactly the locks the running context holds plus the call it
   is in the middle of, and while it is not zero interrupts are off. *)
InCall(c) ==
  IF pc[Cur(c)] \in {"xchg", "popcli"} THEN 1 ELSE 0

NestingExact ==
  \A c \in CPUs :
    /\ cpuncli[c] = Cardinality(held[Cur(c)]) + InCall(c)
    /\ cpuncli[c] > 0 => ~intr[c]

(* A context that holds nothing has the interrupt flag it started with: set in
   a thread, clear in a handler, whatever processor pushcli read it on. *)
FlagRestored ==
  \A c \in CPUs :
    cpuncli[c] = 0 => (intr[c] <=> ~intrap[c])

(* A thread that holds a lock is on a processor and is not interrupted, so a
   handler never spins for a lock of the thread under it. *)
HoldersRun ==
  \A t \in Threads : held[t] # {} => \E c \in CPUs : on[c] = t /\ ~intrap[c]

(* Whoever spins for a lock gets it: the nesting order and interrupts being off
   while a lock is held leave no cycle to wait in. *)
SpinEnds ==
  \A x \in Contexts : pc[x] = "xchg" ~> pc[x] = "owner"

-----------------------------------------------------------------------------
(* The abstract lock *)

(* The owner of each lock as the abstract specification sees it. *)
Owner == [l \in Locks |->
            IF \E x \in Contexts : l \in held[x]
            THEN CHOOSE x \in Contexts : l \in held[x]
            ELSE NULL]

Abs == INSTANCE LockAbs WITH owner <- Owner, NoOwner <- NULL

(* Each lock, seen from outside, is an abstract lock: it goes from free to one
   owner and back to free, never from owner to owner. *)
ImplementsLock == Abs!Spec

=============================================================================
