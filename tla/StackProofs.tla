---------------------------- MODULE StackProofs ----------------------------
(***************************************************************************)
(* Proofs that whoever runs is on a stack of its own.                      *)
(*                                                                         *)
(* First the tasks of the kernel, about TaskTable for every number of      *)
(* processors, tasks, slots and stacks.  The table is exact when one task  *)
(* creates and tears down the others, or when it has a slot for every      *)
(* task: kmt_create looks for room before it takes lock_kmt.  No two       *)
(* processors are on one task, and a task that is not torn down keeps a    *)
(* stack of its own, whatever the table holds.                             *)
(*                                                                         *)
(* Then the coroutines of libco, about Co for any number of them: jumps go *)
(* to frames that are there, and co_start returns the coroutine it made    *)
(* unless others started some meanwhile.                                   *)
(***************************************************************************)
EXTENDS TaskTable, Co, FiniteSetTheorems, TLAPS

(* TypeOK without the counter, which stays in its bounds only when there is
   room for what is inserted. *)
Types ==
  /\ tasks \in [Slots -> Tasks \cup {NULL}]
  /\ id \in [Tasks -> Slots \cup {NULL}] /\ stack \in [Tasks -> Stacks \cup {NULL}]
  /\ run \in [Tasks \cup CPUs -> BOOLEAN]
  /\ held \subseteq Stacks
  /\ cputask \in [CPUs -> Tasks \cup CPUs \cup {NULL}]
  /\ cputask_last \in [CPUs -> Tasks \cup CPUs \cup {NULL}]
  /\ onstk \in [CPUs -> Tasks \cup CPUs]
  /\ call \in [Creators -> Calls]
  /\ live \subseteq Tasks

(* Created but not in the table yet; in the table but not to stay. *)
Inserting == {x \in Demos : \E t \in Creators : call[t] = [op |-> "insert", task |-> x]}
Removing == {x \in Demos : \E t \in Creators : call[t] = [op |-> "remove", task |-> x]}

(* Nobody else has to do with a task that somebody is creating or tearing down. *)
CallsApart ==
  /\ \A t, u \in Creators : t # u /\ Idle \notin {call[t], call[u]} => call[t].task # call[u].task
  /\ \A t \in Creators : call[t] # Idle =>
       call[t].task \notin live /\ stack[call[t].task] # NULL

(* What is in the table is in its slot there, and live or about to be removed. *)
InOwnSlot ==
  \A i \in Slots : tasks[i] # NULL => id[tasks[i]] = i /\ tasks[i] \in live \cup Removing

(* Tasks that run or will run have a stack, each its own. *)
Owners == live \cup Inserting

OwnStacks ==
  \A x \in Owners : stack[x] \in held /\ \A y \in Owners \ {x} : stack[y] # stack[x]

TableInv == Types /\ CallsApart /\ InOwnSlot /\ OwnStacks /\ Creators \subseteq live

Used == {i \in Slots : tasks[i] # NULL}

(* The counter counts, and nobody was overwritten. *)
Counted ==
  /\ cnt_tasks = Cardinality(Used)
  /\ \A x \in live \cup Removing : id[x] \in Slots /\ tasks[id[x]] = x

Alone == \A t, u \in Creators : t = u

(* What a single creator saw before it took lock_kmt is true when it has it. *)
RoomKept == Alone /\ Inserting # {} => Room

(* One task creates the others, or there is a slot for every task. *)
RoomForAll ==
  \/ Alone
  \/ IsFiniteSet(Tasks) /\ Cardinality(Tasks) <= MAXTASK

-----------------------------------------------------------------------------
(* The scheduler, as in KmtProofs with two steps to a trap *)

(* A processor is on the stack of the task chosen for it last, and until iret on
   that of the one before; at boot on its idle loop's. *)
OnStack ==
  \A c \in CPUs :
    /\ cputask[c] = NULL => onstk[c] = c
    /\ InTrap(c) => onstk[c] = IF cputask_last[c] = NULL THEN c ELSE cputask_last[c]

OwnTasks == \A c \in CPUs : {cputask[c], cputask_last[c]} \subseteq Tasks \cup {c, NULL}

(* The tasks a processor has marked as running and not yet let go.  One that was
   torn down can be among them, so that the table does not tell what is marked. *)
Marked(c) == {cputask[c], cputask_last[c]} \ {NULL}

MarkedRun == \A c \in CPUs : \A x \in Marked(c) : run[x]

MarkedApart == \A c, d \in CPUs : c # d => Marked(c) \cap Marked(d) = {}

(* They have been through kmt_create, which clears task->run, and have an id for
   the next search to begin at. *)
MarkedCreated ==
  \A c \in CPUs : \A x \in Marked(c) \cap Tasks : stack[x] # NULL /\ id[x] # NULL

SchedInv == OnStack /\ OwnTasks /\ MarkedRun /\ MarkedApart /\ MarkedCreated

-----------------------------------------------------------------------------
(* Searches through the table *)

(* The order of the natural numbers is well founded. *)
LEMMA OrderOfNat == \E R : IsWellFoundedOn(R, Nat) /\ \A x, y \in Nat : <<x, y>> \in R <=> x < y
<1>1. \A x, y \in Nat : <<x, y>> \in OpToRel(<, Nat) <=> x < y
  BY DEF OpToRel
<1>2. QED
  BY <1>1, NatLessThanWellFounded, Zenon

(* A set of natural numbers has a least one. *)
LEMMA LeastNumber ==
  ASSUME NEW S, S \subseteq Nat, S # {}
  PROVE  \E n \in S : \A m \in S : n <= m
<1>1. PICK R : IsWellFoundedOn(R, Nat) /\ \A x, y \in Nat : <<x, y>> \in R <=> x < y
  BY OrderOfNat
<1>2. IsWellFoundedOn(R, Nat)
  BY <1>1
<1>3. \A T, U, Q : IsWellFoundedOn(Q, U) /\ T \subseteq U /\ T # {} =>
        \E x \in T : \A y \in T : ~(<<y, x>> \in Q)
  BY WFMin, Zenon
<1>4. \E x \in S : \A y \in S : ~(<<y, x>> \in R)
  BY <1>2, <1>3, Zenon
<1>5. PICK x \in S : \A y \in S : ~(<<y, x>> \in R)
  BY <1>4
<1>6. \A y \in S : ~(y < x)
  BY <1>1, <1>5
<1>7. QED
  BY <1>6

(* One that does not go beyond n has a greatest one. *)
LEMMA GreatestNumber ==
  ASSUME NEW n \in Nat, NEW S, S \subseteq 0 .. n, S # {}
  PROVE  \E i \in S : \A j \in S : j <= i
<1> DEFINE T == {k \in Nat : n - k \in S}
<1>1. \A i \in S : n - i \in T
  OBVIOUS
<1>2. T \subseteq Nat /\ T # {}
  BY <1>1
<1>3. PICK m \in T : \A k \in T : m <= k
  BY <1>2, LeastNumber
<1>4. \A j \in S : m <= n - j
  BY <1>1, <1>3
<1>5. n - m \in S /\ m \in Nat
  BY <1>3
<1>6. QED
  BY <1>4, <1>5

(* The two ways around the table end in one of its slots. *)
LEMMA SlotAround ==
  ASSUME NEW n \in Nat
  PROVE  n % MAXTASK \in Slots
  BY TableAssumption DEF Slots

(* From any slot one comes to any other in fewer than MAXTASK steps. *)
LEMMA SlotReached ==
  ASSUME NEW seed \in Slots, NEW i \in Slots
  PROVE  \E n \in 0 .. MAXTASK - 1 : (seed + n) % MAXTASK = i
<1>1. CASE seed <= i
  <2>1. i - seed \in 0 .. MAXTASK - 1 /\ seed + (i - seed) = i
    BY <1>1, TableAssumption DEF Slots
  <2>2. i % MAXTASK = i
    BY TableAssumption DEF Slots
  <2> QED
    BY <2>1, <2>2
<1>2. CASE i < seed
  <2>1. i + MAXTASK - seed \in 0 .. MAXTASK - 1 /\ seed + (i + MAXTASK - seed) = i + MAXTASK
    BY <1>2, TableAssumption DEF Slots
  <2>2. i + MAXTASK = 1 * MAXTASK + i /\ i \in 0 .. MAXTASK - 1
    BY TableAssumption DEF Slots
  <2>3. (i + MAXTASK) % MAXTASK = i
    BY <2>2, TableAssumption
  <2> QED
    BY <2>1, <2>3
<1> QED
  BY <1>1, <1>2 DEF Slots

(* kmt_schedule returns a task of the table that it found runnable, or the idle loop. *)
LEMMA ChosenFound ==
  ASSUME NEW c \in CPUs, NEW seed \in Slots
  PROVE  \/ Chosen(c, seed) = c
         \/ \E i \in Slots : Runnable(c, i) /\ Chosen(c, seed) = tasks[i]
<1> DEFINE found == {n \in 1 .. MAXTASK : Runnable(c, (seed + n) % MAXTASK)}
<1>1. CASE found = {}
  BY <1>1 DEF Chosen
<1>2. CASE found # {}
  <2>1. PICK n \in found : \A m \in found : n <= m
    <3>1. found \subseteq Nat
      BY TableAssumption
    <3> HIDE DEF found
    <3> QED
      BY <1>2, <3>1, LeastNumber
  <2>2. Min(found) \in found
    <3> HIDE DEF found
    <3> QED
      BY <2>1 DEF Min
  <2>3. seed + Min(found) \in Nat
    BY <2>2, TableAssumption DEF Slots
  <2>4. Chosen(c, seed) = tasks[(seed + Min(found)) % MAXTASK]
    BY <1>2 DEF Chosen
  <2> QED
    BY <2>2, <2>3, <2>4, SlotAround
<1> QED
  BY <1>1, <1>2

(* The search of kmt_create ends in a slot, a free one when there is one. *)
LEMMA FreeSlotFound ==
  ASSUME NEW seed \in Slots
  PROVE  /\ FreeSlot(seed) \in Slots
         /\ (\E i \in Slots : tasks[i] = NULL) => tasks[FreeSlot(seed)] = NULL
<1> DEFINE S == {n \in 0 .. MAXTASK : \A i \in 0 .. n - 1 : tasks[(seed + i) % MAXTASK] # NULL}
<1>1. 0 \in S /\ S \subseteq 0 .. MAXTASK
  BY TableAssumption
<1>2. PICK k \in S : \A j \in S : j <= k
  <2> HIDE DEF S
  <2> QED
    BY <1>1, TableAssumption, GreatestNumber
<1>3. Max(S) = k
  <2>1. S \subseteq Int
    BY <1>1
  <2> HIDE DEF S
  <2>2. \E x \in S : \A y \in S : x >= y
    BY <1>2, <2>1
  <2>3. Max(S) \in S /\ \A y \in S : Max(S) >= y
    BY <2>2, Zenon DEF Max
  <2>4. k \in Int /\ Max(S) \in Int /\ Max(S) <= k /\ Max(S) >= k
    BY <1>2, <2>1, <2>3
  <2> QED
    BY <2>4
<1>4. FreeSlot(seed) = (seed + k) % MAXTASK
  BY <1>3 DEF FreeSlot
<1>5. FreeSlot(seed) \in Slots
  BY <1>1, <1>2, <1>4, SlotAround, TableAssumption DEF Slots
<1>6. ASSUME NEW i \in Slots, tasks[i] = NULL PROVE tasks[FreeSlot(seed)] = NULL
  <2>1. PICK n \in 0 .. MAXTASK - 1 : (seed + n) % MAXTASK = i
    BY SlotReached
  <2>2. k < MAXTASK
    BY <1>1, <1>2, <1>6, <2>1, TableAssumption
  <2>3. k + 1 \in 0 .. MAXTASK /\ k + 1 \notin S /\ k \in Nat
    <3>1. k \in 0 .. MAXTASK
      BY <1>2
    <3>2. k + 1 \in S => k + 1 <= k
      BY <1>2, Zenon
    <3> HIDE DEF S
    <3> QED
      BY <2>2, <3>1, <3>2, TableAssumption
  <2>4. PICK j \in 0 .. k : tasks[(seed + j) % MAXTASK] = NULL
    BY <2>3
  <2>5. j = k
    BY <1>2, <2>4
  <2> QED
    BY <1>4, <2>4, <2>5
<1> QED
  BY <1>5, <1>6

-----------------------------------------------------------------------------
(* Initially *)

LEMMA InitTable == Init => TableInv
<1> SUFFICES ASSUME Init PROVE TableInv
  OBVIOUS
<1> USE TableAssumption
<1>1. /\ id \in [Tasks -> Slots \cup {NULL}] /\ stack \in [Tasks -> Stacks \cup {NULL}]
      /\ \A x \in Tasks : (id[x] = NULL <=> x \in Demos) /\ (stack[x] = NULL <=> x \in Demos)
  BY DEF Init
<1>2. \A x, y \in Creators : stack[x] = stack[y] \/ id[x] = id[y] => x = y
  BY DEF Init, IsInjective, Restrict
<1>3. \A i \in Slots : tasks[i] # NULL => tasks[i] \in Creators /\ id[tasks[i]] = i
  BY DEF Init
<1>4. Types
  <2>1. tasks \in [Slots -> Tasks \cup {NULL}]
    BY <1>3 DEF Init, Tasks
  <2>2. held \subseteq Stacks
    BY <1>1 DEF Init, Tasks
  <2> QED
    BY <1>1, <2>1, <2>2 DEF Init, Types, Tasks, Calls
<1>5. CallsApart /\ Creators \subseteq live
  BY DEF Init, CallsApart, Idle
<1>6. InOwnSlot
  BY <1>3 DEF Init, InOwnSlot
<1>7. OwnStacks
  <2>1. Owners = Creators
    BY DEF Init, Owners, Inserting, Idle
  <2> QED
    BY <1>2, <2>1 DEF Init, OwnStacks
<1> QED
  BY <1>4, <1>5, <1>6, <1>7 DEF TableInv

LEMMA UsedFinite == IsFiniteSet(Used) /\ Cardinality(Used) \in Nat
<1>1. IsFiniteSet(0 .. MAXTASK - 1)
  BY TableAssumption, FS_Interval
<1>2. Used \in SUBSET (0 .. MAXTASK - 1)
  BY DEF Used, Slots
<1>3. IsFiniteSet(Used)
  BY <1>1, <1>2, FS_Subset
<1> QED
  BY <1>3, FS_CardinalityType

(* The table's slots in use and the creators are equally many. *)
LEMMA InitCounted == Init => Counted /\ RoomKept
<1> SUFFICES ASSUME Init PROVE Counted /\ RoomKept
  OBVIOUS
<1> USE TableAssumption
<1>1. \A x \in Creators : id[x] \in Slots
  BY DEF Init, Tasks
<1>2. \A x, y \in Creators : id[x] = id[y] => x = y
  BY DEF Init, IsInjective, Restrict
<1>3. \A x \in Creators : tasks[id[x]] = x
  BY <1>1, <1>2 DEF Init
<1>4. \A i \in Used : tasks[i] \in Creators /\ id[tasks[i]] = i
  BY DEF Init, Used
<1>5. \A x \in Creators : id[x] \in Used
  BY <1>1, <1>3 DEF Used
<1>6. Cardinality(Creators) = Cardinality(Used)
  <2> DEFINE f == [i \in Used |-> tasks[i]]
  <2>1. f \in Bijection(Used, Creators)
    BY <1>3, <1>4, <1>5 DEF Bijection, Injection, Surjection, IsInjective
  <2>2. ExistsBijection(Used, Creators)
    BY <2>1 DEF ExistsBijection
  <2>3. IsFiniteSet(Used)
    BY UsedFinite
  <2> QED
    BY <2>2, <2>3, FS_Bijection
<1>7. Inserting = {} /\ Removing = {}
  BY DEF Init, Inserting, Removing, Idle
<1> QED
  BY <1>1, <1>3, <1>6, <1>7 DEF Init, Counted, RoomKept

-----------------------------------------------------------------------------
(* Steps: the table, its tasks and their stacks *)

LEMMA CallTypes ==
  ASSUME NEW t \in Creators, Types
  PROVE  /\ call[t] = Idle \/ /\ call[t].task \in Demos
                              /\ call[t].op \in {"insert", "remove"}
                              /\ call[t] = [op |-> call[t].op, task |-> call[t].task]
         /\ call[t] = Idle <=> call[t].op = "none"
         /\ call[t] # Idle => call[t].task # NULL
<1>1. call[t] \in Calls
  BY DEF Types
<1>2. CASE call[t] = Idle
  BY <1>2 DEF Idle
<1>3. CASE call[t] \in [op : {"insert", "remove"}, task : Demos]
  BY <1>3, TableAssumption DEF Idle
<1> QED
  BY <1>1, <1>2, <1>3 DEF Calls

LEMMA CreateTypes ==
  ASSUME Types, NEW t \in Creators, NEW x \in Demos, Create(t, x)
  PROVE  Types'
  BY DEF Create, Types, Calls, Tasks

LEMMA InsertTypes ==
  ASSUME Types, NEW t \in Creators, Insert(t)
  PROVE  Types'
<1>1. PICK seed \in Slots :
        /\ tasks' = [tasks EXCEPT ![FreeSlot(seed)] = call[t].task]
        /\ id' = [id EXCEPT ![call[t].task] = FreeSlot(seed)]
  BY DEF Insert
<1>2. FreeSlot(seed) \in Slots /\ call[t].task \in Demos
  BY FreeSlotFound, CallTypes DEF Insert
<1> QED
  BY <1>1, <1>2 DEF Insert, Types, Calls, Tasks, cpuVars

LEMMA FreeStackTypes ==
  ASSUME Types, NEW t \in Creators, NEW x \in Demos, FreeStack(t, x)
  PROVE  Types'
  BY DEF FreeStack, Types, Calls, Tasks, cpuVars

LEMMA RemoveTypes ==
  ASSUME Types, NEW t \in Creators, Remove(t)
  PROVE  Types'
  BY DEF Remove, Cleared, Types, Calls, Tasks, cpuVars

(* The search begins at a slot. *)
LEMMA TrapChooses ==
  ASSUME Types, MarkedCreated, NEW c \in CPUs, Trap(c)
  PROVE  \E next :
           /\ next = c \/ \E i \in Slots : Runnable(c, i) /\ next = tasks[i]
           /\ cputask' = [cputask EXCEPT ![c] = next]
           /\ run' = [x \in Tasks \cup CPUs |-> StillRuns(c, x) \/ x = next]
<1>1. Seeds(c) \subseteq Slots
  <2>1. cputask[c] \in Tasks => id[cputask[c]] \in Slots
    BY TableAssumption DEF Types, MarkedCreated, Marked, Tasks
  <2>2. 0 \in Slots
    BY TableAssumption DEF Slots
  <2> QED
    BY <2>1, <2>2 DEF Seeds
<1>2. PICK seed \in Seeds(c) :
        /\ cputask' = [cputask EXCEPT ![c] = Chosen(c, seed)]
        /\ run' = [x \in Tasks \cup CPUs |-> StillRuns(c, x) \/ x = Chosen(c, seed)]
  BY DEF Trap
<1> QED
  BY <1>1, <1>2, ChosenFound

LEMMA TrapTypes ==
  ASSUME Types, MarkedCreated, NEW c \in CPUs, Trap(c) \/ Iret(c)
  PROVE  Types'
<1>1. CASE Iret(c)
  <2>1. cputask[c] \in Tasks \cup CPUs
    BY <1>1 DEF Iret, InTrap, Types
  <2> QED
    BY <1>1, <2>1 DEF Iret, Types, tableVars
<1>2. CASE Trap(c)
  <2>1. PICK next :
          /\ next = c \/ \E i \in Slots : Runnable(c, i) /\ next = tasks[i]
          /\ cputask' = [cputask EXCEPT ![c] = next]
          /\ run' = [x \in Tasks \cup CPUs |-> StillRuns(c, x) \/ x = next]
    BY <1>2, TrapChooses
  <2>2. next \in Tasks \cup CPUs
    BY <2>1 DEF Types, Runnable
  <2>3. run' \in [Tasks \cup CPUs -> BOOLEAN]
    BY <2>1
  <2> QED
    BY <1>2, <2>1, <2>2, <2>3 DEF Trap, Types, tableVars
<1> QED
  BY <1>1, <1>2

LEMMA CreateTable ==
  ASSUME TableInv, NEW t \in Creators, NEW x \in Demos, Create(t, x)
  PROVE  TableInv'
<1>1. Types /\ Types'
  BY CreateTypes DEF TableInv
<1>2. PICK b \in Stacks \ held : held' = held \cup {b} /\ stack' = [stack EXCEPT ![x] = b]
  BY DEF Create, Unused
<1>3. /\ call[t] = Idle /\ stack[x] = NULL
      /\ call' = [call EXCEPT ![t] = [op |-> "insert", task |-> x]]
      /\ UNCHANGED <<tasks, id, live>>
  BY DEF Create, Unused
<1>4. b # NULL /\ x \in Tasks
  BY TableAssumption DEF Tasks
<1>5. /\ x \notin Owners
      /\ \A u \in Creators : call[u] # Idle => call[u].task # x
  <2>1. NULL \notin held
    BY <1>1, TableAssumption DEF Types
  <2>2. x \notin Owners
    BY <1>3, <2>1 DEF TableInv, OwnStacks
  <2> QED
    BY <1>3, <2>2 DEF TableInv, CallsApart
<1>6. CallsApart'
  BY <1>1, <1>2, <1>3, <1>4, <1>5 DEF TableInv, CallsApart, Owners, Types, Idle
<1>7. Removing' = Removing /\ Owners' = Owners \cup {x}
  BY <1>1, <1>3 DEF Removing, Owners, Inserting, Idle, Types
<1>8. InOwnSlot'
  BY <1>3, <1>7 DEF TableInv, InOwnSlot
<1>9. OwnStacks'
  <2>1. \A y \in Owners : stack'[y] = stack[y] /\ stack[y] \in held
    BY <1>1, <1>2, <1>5 DEF TableInv, OwnStacks, Types
  <2>2. stack'[x] = b
    BY <1>1, <1>2, <1>4 DEF Types
  <2> QED
    BY <1>2, <1>7, <2>1, <2>2 DEF TableInv, OwnStacks
<1> QED
  BY <1>1, <1>3, <1>6, <1>8, <1>9 DEF TableInv

LEMMA InsertTable ==
  ASSUME TableInv, NEW t \in Creators, Insert(t)
  PROVE  TableInv'
<1> DEFINE x == call[t].task
<1>1. Types /\ Types'
  BY InsertTypes DEF TableInv
<1>2. PICK seed \in Slots :
        /\ tasks' = [tasks EXCEPT ![FreeSlot(seed)] = x]
        /\ id' = [id EXCEPT ![x] = FreeSlot(seed)]
  BY DEF Insert
<1>3. /\ call[t] = [op |-> "insert", task |-> x] /\ x \in Demos
      /\ live' = live \cup {x} /\ call' = [call EXCEPT ![t] = Idle]
      /\ UNCHANGED <<stack, held>>
  BY <1>1, CallTypes DEF Insert
<1>4. FreeSlot(seed) \in Slots /\ x \in Tasks
  BY <1>3, FreeSlotFound DEF Tasks
<1>5. /\ x \notin live /\ x \notin Removing
      /\ \A u \in Creators \ {t} : call[u] # Idle => call[u].task # x
  BY <1>3 DEF TableInv, CallsApart, Removing, Idle
<1> HIDE DEF x
<1>6. Removing' = Removing /\ Owners' = Owners
  BY <1>1, <1>3 DEF Removing, Owners, Inserting, Idle, Types
<1>7. CallsApart'
  BY <1>1, <1>3, <1>5 DEF TableInv, CallsApart, Types
<1>8. InOwnSlot'
  <2> SUFFICES ASSUME NEW i \in Slots, tasks'[i] # NULL
               PROVE  id'[tasks'[i]] = i /\ tasks'[i] \in live' \cup Removing'
    BY DEF InOwnSlot
  <2>1. CASE i = FreeSlot(seed)
    BY <1>1, <1>2, <1>3, <1>4, <2>1 DEF Types
  <2>2. CASE i # FreeSlot(seed)
    <3>1. tasks'[i] = tasks[i]
      BY <1>1, <1>2, <2>2 DEF Types
    <3>2. id[tasks[i]] = i /\ tasks[i] \in live \cup Removing
      BY <3>1 DEF TableInv, InOwnSlot
    <3>3. id'[tasks[i]] = id[tasks[i]]
      BY <1>1, <1>2, <1>5, <3>2 DEF Types
    <3> QED
      BY <1>3, <1>6, <3>1, <3>2, <3>3
  <2> QED
    BY <2>1, <2>2
<1>9. OwnStacks'
  BY <1>3, <1>6 DEF TableInv, OwnStacks
<1> QED
  BY <1>1, <1>3, <1>7, <1>8, <1>9 DEF TableInv

LEMMA FreeStackTable ==
  ASSUME TableInv, NEW t \in Creators, NEW x \in Demos, FreeStack(t, x)
  PROVE  TableInv'
<1>1. Types /\ Types'
  BY FreeStackTypes DEF TableInv
<1>2. /\ call[t] = Idle /\ x \in live
      /\ held' = held \ {stack[x]} /\ live' = live \ {x}
      /\ call' = [call EXCEPT ![t] = [op |-> "remove", task |-> x]]
      /\ UNCHANGED <<tasks, id, stack>>
  BY DEF FreeStack
<1>3. \A u \in Creators : call[u] # Idle => call[u].task # x
  BY <1>2 DEF TableInv, CallsApart
<1>4. stack[x] # NULL
  BY <1>1, <1>2, TableAssumption DEF TableInv, OwnStacks, Owners, Types
<1>5. Removing' = Removing \cup {x} /\ Owners' = Owners \ {x}
  BY <1>1, <1>2, <1>3 DEF Removing, Owners, Inserting, Idle, Types
<1>6. CallsApart'
  BY <1>1, <1>2, <1>3, <1>4 DEF TableInv, CallsApart, Idle, Types
<1>7. InOwnSlot'
  BY <1>2, <1>5 DEF TableInv, InOwnSlot
<1>8. OwnStacks'
  BY <1>2, <1>5 DEF TableInv, OwnStacks, Owners
<1>9. (Creators \subseteq live)'
  BY <1>2, TableAssumption DEF TableInv
<1> QED
  BY <1>1, <1>6, <1>7, <1>8, <1>9 DEF TableInv

LEMMA RemoveTable ==
  ASSUME TableInv, NEW t \in Creators, Remove(t)
  PROVE  TableInv'
<1> DEFINE x == call[t].task
<1>1. Types /\ Types'
  BY RemoveTypes DEF TableInv
<1>2. /\ call[t] = [op |-> "remove", task |-> x] /\ x \in Demos
      /\ tasks' = [tasks EXCEPT ![id[x]] = NULL] /\ call' = [call EXCEPT ![t] = Idle]
      /\ UNCHANGED <<id, stack, held, live>>
  BY <1>1, CallTypes DEF Remove, Cleared
<1> HIDE DEF x
<1>3. Removing' \cup {x} = Removing /\ Owners' = Owners
  BY <1>1, <1>2 DEF TableInv, CallsApart, Removing, Owners, Inserting, Idle, Types
<1>4. CallsApart'
  BY <1>1, <1>2 DEF TableInv, CallsApart, Types
<1>5. InOwnSlot'
  BY <1>1, <1>2, <1>3 DEF TableInv, InOwnSlot, Types
<1>6. OwnStacks'
  BY <1>2, <1>3 DEF TableInv, OwnStacks
<1> QED
  BY <1>1, <1>2, <1>4, <1>5, <1>6 DEF TableInv

LEMMA TableStep ==
  ASSUME TableInv, MarkedCreated, [Next]_vars
  PROVE  TableInv'
<1>1. ASSUME NEW c \in CPUs, Trap(c) \/ Iret(c) PROVE TableInv'
  <2>1. Types'
    BY <1>1, TrapTypes DEF TableInv
  <2>2. UNCHANGED tableVars
    BY <1>1 DEF Trap, Iret
  <2> QED
    BY <2>1, <2>2 DEF TableInv, CallsApart, InOwnSlot, OwnStacks, Owners, Inserting, Removing,
                      tableVars
<1>2. CASE UNCHANGED vars
  BY <1>2 DEF TableInv, Types, CallsApart, InOwnSlot, OwnStacks, Owners, Inserting, Removing,
              vars, tableVars, cpuVars
<1> QED
  BY <1>1, <1>2, CreateTable, InsertTable, FreeStackTable, RemoveTable DEF Next

-----------------------------------------------------------------------------
(* Steps: the counter *)

(* With a slot for every task, there is one for each that is not in the table. *)
LEMMA RoomWhenPending ==
  ASSUME TableInv, Counted, RoomKept, RoomForAll, Inserting # {}
  PROVE  Room
<1>1. CASE Alone
  BY <1>1 DEF RoomKept
<1>2. CASE IsFiniteSet(Tasks) /\ Cardinality(Tasks) <= MAXTASK
  <2>1. PICK x \in Inserting : TRUE
    OBVIOUS
  <2>2. x \in Tasks /\ x \notin live \cup Removing
    BY <2>1 DEF Inserting, Removing, TableInv, CallsApart, Idle, Tasks
  <2> DEFINE f == [i \in Used |-> tasks[i]]
             Others == Tasks \ {x}
  <2>3. f \in Injection(Used, Others)
    <3>1. \A i \in Used : tasks[i] \in Others /\ id[tasks[i]] = i
      BY <2>2 DEF Used, TableInv, InOwnSlot, Types, Tasks, Removing
    <3> QED
      BY <3>1 DEF Injection, IsInjective
  <2>4. IsFiniteSet(Others) /\ Cardinality(Others) = Cardinality(Tasks) - 1
    BY <1>2, <2>2, FS_RemoveElement
  <2>5. Cardinality(Used) <= Cardinality(Others)
    <3> HIDE DEF f, Others
    <3> QED
      BY <2>3, <2>4, FS_Injection
  <2>6. Cardinality(Tasks) \in Nat
    BY <1>2, FS_CardinalityType
  <2> QED
    BY <1>2, <2>4, <2>5, <2>6, UsedFinite, TableAssumption DEF Counted, Room
<1> QED
  BY <1>1, <1>2 DEF RoomForAll

LEMMA UsedBound == Cardinality(Used) <= MAXTASK
<1>1. IsFiniteSet(0 .. MAXTASK - 1) /\ Cardinality(0 .. MAXTASK - 1) = MAXTASK
  BY TableAssumption, FS_Interval
<1>2. Used \in SUBSET (0 .. MAXTASK - 1)
  BY DEF Used, Slots
<1> QED
  BY <1>1, <1>2, FS_Subset

(* A table that is not full has a free slot. *)
LEMMA SlotFree ==
  ASSUME Cardinality(Used) < MAXTASK
  PROVE  \E i \in Slots : tasks[i] = NULL
<1>1. Cardinality(0 .. MAXTASK - 1) = MAXTASK
  BY TableAssumption, FS_Interval
<1>2. CASE Used = 0 .. MAXTASK - 1
  BY <1>1, <1>2, TableAssumption
<1>3. CASE Used # 0 .. MAXTASK - 1
  BY <1>3 DEF Used, Slots
<1> QED
  BY <1>2, <1>3

LEMMA InsertCounted ==
  ASSUME TableInv, Counted, Room, NEW t \in Creators, Insert(t)
  PROVE  Counted'
<1> DEFINE x == call[t].task
<1>1. Types
  BY DEF TableInv
<1>2. PICK seed \in Slots :
        /\ tasks' = [tasks EXCEPT ![FreeSlot(seed)] = x]
        /\ id' = [id EXCEPT ![x] = FreeSlot(seed)]
  BY DEF Insert
<1>3. /\ x \in Tasks /\ x # NULL /\ cnt_tasks' = cnt_tasks + 1
      /\ call[t] = [op |-> "insert", task |-> x]
      /\ live' = live \cup {x} /\ call' = [call EXCEPT ![t] = Idle]
  BY <1>1, CallTypes DEF Insert, Tasks, Idle
<1> DEFINE s == FreeSlot(seed)
<1>4. s \in Slots /\ tasks[s] = NULL
  BY FreeSlotFound, SlotFree, UsedFinite, TableAssumption DEF Counted, Room
<1>5. Removing' = Removing /\ x \notin Removing /\ x \notin live
  BY <1>1, <1>3 DEF Removing, Idle, Types, TableInv, CallsApart
<1> HIDE DEF x, s
<1>6. Used' = Used \cup {s} /\ s \notin Used
  BY <1>1, <1>2, <1>3, <1>4 DEF Used, Types, s
<1>7. cnt_tasks' = Cardinality(Used')
  BY <1>3, <1>6, UsedFinite, FS_AddElement DEF Counted
<1>8. ASSUME NEW y \in live' \cup Removing' PROVE id'[y] \in Slots /\ tasks'[id'[y]] = y
  <2>1. CASE y = x
    BY <1>1, <1>2, <1>3, <1>4, <2>1 DEF Types, s
  <2>2. CASE y # x
    <3>1. y \in live \cup Removing /\ y \in Tasks
      BY <1>1, <1>3, <1>5, <1>8, <2>2 DEF Types, Removing, Tasks
    <3>2. id'[y] = id[y] /\ id[y] \in Slots /\ tasks[id[y]] = y
      BY <1>1, <1>2, <2>2, <3>1 DEF Counted, Types
    <3>3. id[y] # s
      BY <1>4, <3>1, <3>2, TableAssumption DEF Tasks
    <3> QED
      BY <1>1, <1>2, <3>2, <3>3 DEF Types, s
  <2> QED
    BY <2>1, <2>2
<1> QED
  BY <1>7, <1>8 DEF Counted

LEMMA RemoveCounted ==
  ASSUME TableInv, Counted, NEW t \in Creators, Remove(t)
  PROVE  Counted'
<1> DEFINE x == call[t].task
<1>1. Types
  BY DEF TableInv
<1>2. /\ call[t] = [op |-> "remove", task |-> x] /\ x \in Demos /\ x \in Tasks
      /\ tasks' = [tasks EXCEPT ![id[x]] = NULL] /\ cnt_tasks' = cnt_tasks - 1
      /\ call' = [call EXCEPT ![t] = Idle] /\ UNCHANGED <<id, live>>
  BY <1>1, CallTypes DEF Remove, Cleared, Tasks
<1>3. x \in Removing /\ x \notin live /\ x \notin Removing'
  <2>1. x \in Removing /\ x \notin live
    BY <1>2 DEF Removing, TableInv, CallsApart, Idle
  <2>2. \A u \in Creators \ {t} : call[u] # Idle => call[u].task # x
    BY <1>2 DEF TableInv, CallsApart, Idle
  <2>3. x \notin Removing'
    BY <1>1, <1>2, <2>2 DEF Removing, Types, Idle
  <2> QED
    BY <2>1, <2>3
<1>4. Removing' \subseteq Removing
  BY <1>1, <1>2 DEF Removing, Types, Idle
<1> HIDE DEF x
<1>5. id[x] \in Slots /\ tasks[id[x]] = x /\ x # NULL
  BY <1>2, <1>3, TableAssumption DEF Counted
<1>6. Used' = Used \ {id[x]} /\ id[x] \in Used
  BY <1>1, <1>2, <1>5 DEF Used, Types
<1>7. cnt_tasks' = Cardinality(Used')
  BY <1>2, <1>6, UsedFinite, FS_RemoveElement DEF Counted
<1>8. ASSUME NEW y \in live' \cup Removing' PROVE id'[y] \in Slots /\ tasks'[id'[y]] = y
  <2>1. y \in live \cup Removing /\ y # x
    BY <1>2, <1>3, <1>4
  <2>2. id[y] \in Slots /\ tasks[id[y]] = y
    BY <2>1 DEF Counted
  <2> QED
    BY <1>1, <1>2, <1>5, <2>1, <2>2 DEF Types
<1> QED
  BY <1>7, <1>8 DEF Counted

LEMMA CountedStep ==
  ASSUME TableInv, Counted, RoomKept, RoomForAll, [Next]_vars
  PROVE  Counted' /\ RoomKept'
<1>1. Types
  BY DEF TableInv
<1>2. ASSUME NEW t \in Creators, NEW x \in Demos, Create(t, x) PROVE Counted' /\ RoomKept'
  <2>1. /\ UNCHANGED <<tasks, cnt_tasks, id, live>> /\ Room /\ call[t] = Idle
        /\ call' = [call EXCEPT ![t] = [op |-> "insert", task |-> x]]
    BY <1>2 DEF Create
  <2>2. Removing' = Removing
    BY <1>1, <2>1 DEF Removing, Idle, Types
  <2> QED
    BY <2>1, <2>2 DEF Counted, RoomKept, Room, Used
<1>3. ASSUME NEW t \in Creators, Insert(t) PROVE Counted' /\ RoomKept'
  <2>1. call[t] # Idle /\ call[t].op = "insert" /\ call' = [call EXCEPT ![t] = Idle]
    BY <1>3 DEF Insert, Idle
  <2>2. Inserting # {}
    BY <1>1, <2>1, CallTypes DEF Inserting
  <2>3. Room
    BY <2>2, RoomWhenPending
  <2>4. Alone => Inserting' = {}
    BY <1>1, <2>1 DEF Alone, Inserting, Idle, Types
  <2> QED
    BY <1>3, <2>3, <2>4, InsertCounted DEF RoomKept, Alone
<1>4. ASSUME NEW t \in Creators, NEW x \in Demos, FreeStack(t, x) PROVE Counted' /\ RoomKept'
  <2>1. /\ UNCHANGED <<tasks, cnt_tasks, id>> /\ x \in live /\ call[t] = Idle
        /\ live' = live \ {x}
        /\ call' = [call EXCEPT ![t] = [op |-> "remove", task |-> x]]
    BY <1>4 DEF FreeStack
  <2>2. live' \cup Removing' = live \cup Removing
    BY <1>1, <2>1 DEF Removing, Idle, Types
  <2>3. Inserting' = Inserting
    BY <1>1, <2>1 DEF Inserting, Idle, Types
  <2> QED
    BY <2>1, <2>2, <2>3 DEF Counted, RoomKept, Room, Used, Alone
<1>5. ASSUME NEW t \in Creators, Remove(t) PROVE Counted' /\ RoomKept'
  <2>1. Alone => Inserting' = {}
    BY <1>1, <1>5 DEF Remove, Alone, Inserting, Idle, Types
  <2> QED
    BY <1>5, <2>1, RemoveCounted DEF RoomKept, Alone
<1>6. ASSUME UNCHANGED tableVars PROVE Counted' /\ RoomKept'
  BY <1>6 DEF tableVars, Counted, RoomKept, Room, Used, Removing, Inserting
<1>7. ASSUME NEW c \in CPUs, Trap(c) \/ Iret(c) PROVE Counted' /\ RoomKept'
  BY <1>6, <1>7 DEF Trap, Iret
<1>8. CASE UNCHANGED vars
  BY <1>6, <1>8 DEF vars
<1> QED
  BY <1>2, <1>3, <1>4, <1>5, <1>7, <1>8 DEF Next

-----------------------------------------------------------------------------
(* Steps: the processors *)

LEMMA InitSched == Init => SchedInv
<1> SUFFICES ASSUME Init PROVE SchedInv
  OBVIOUS
<1> USE TableAssumption
<1>1. \A c \in CPUs : cputask[c] = NULL /\ cputask_last[c] = NULL /\ onstk[c] = c
  BY DEF Init
<1>2. \A c \in CPUs : Marked(c) = {} /\ c \notin Tasks
  BY <1>1 DEF Marked, Tasks
<1> QED
  BY <1>1, <1>2 DEF SchedInv, OnStack, InTrap, OwnTasks, MarkedRun, MarkedApart, MarkedCreated,
                    Tasks

(* A call leaves the processors where they are. *)
LEMMA CallSched ==
  ASSUME SchedInv, UNCHANGED <<cputask, cputask_last, onstk>>,
         \A c \in CPUs : \A x \in Marked(c) :
           /\ run'[x] = run[x]
           /\ x \in Tasks => (stack[x] # NULL => stack'[x] # NULL) /\ (id[x] # NULL => id'[x] # NULL)
  PROVE  SchedInv'
<1>1. \A c \in CPUs : Marked(c)' = Marked(c) /\ InTrap(c)' = InTrap(c)
  BY DEF Marked, InTrap
<1>2. OnStack' /\ OwnTasks'
  BY <1>1 DEF SchedInv, OnStack, OwnTasks
<1>3. MarkedRun' /\ MarkedApart' /\ MarkedCreated'
  BY <1>1 DEF SchedInv, MarkedRun, MarkedApart, MarkedCreated
<1> QED
  BY <1>2, <1>3 DEF SchedInv

LEMMA CreateSched ==
  ASSUME TableInv, SchedInv, NEW t \in Creators, NEW x \in Demos, Create(t, x)
  PROVE  SchedInv'
<1>1. PICK b \in Stacks : stack' = [stack EXCEPT ![x] = b]
  BY DEF Create, Unused
<1>2. x \in Tasks /\ stack[x] = NULL /\ b # NULL
  BY TableAssumption DEF Create, Unused, Tasks
<1>3. ASSUME NEW c \in CPUs, NEW y \in Marked(c) PROVE y # x
  BY <1>2, <1>3 DEF SchedInv, MarkedCreated
<1>4. ASSUME NEW c \in CPUs, NEW y \in Marked(c) PROVE run'[y] = run[y]
  <2>1. y \in Tasks \cup CPUs /\ y # x
    BY <1>3, <1>4 DEF SchedInv, OwnTasks, Marked
  <2> QED
    BY <2>1 DEF Create, TableInv, Types
<1>5. UNCHANGED <<cputask, cputask_last, onstk, id>>
  BY DEF Create, Unused
<1>6. \A y \in Tasks : stack[y] # NULL => stack'[y] # NULL
  BY <1>1, <1>2 DEF TableInv, Types
<1> QED
  BY <1>4, <1>5, <1>6, CallSched

LEMMA InsertSched ==
  ASSUME TableInv, SchedInv, NEW t \in Creators, Insert(t)
  PROVE  SchedInv'
<1>1. PICK s \in Slots : id' = [id EXCEPT ![call[t].task] = s]
  BY FreeSlotFound DEF Insert
<1>2. s # NULL
  BY TableAssumption DEF Slots
<1> QED
  BY <1>1, <1>2, CallSched DEF Insert, cpuVars, TableInv, Types

LEMMA TrapSched ==
  ASSUME TableInv, SchedInv, NEW c \in CPUs, Trap(c)
  PROVE  SchedInv'
<1> USE TableAssumption
<1>1. Types
  BY DEF TableInv
<1>2. PICK next :
        /\ next = c \/ \E i \in Slots : Runnable(c, i) /\ next = tasks[i]
        /\ cputask' = [cputask EXCEPT ![c] = next]
        /\ run' = [x \in Tasks \cup CPUs |-> StillRuns(c, x) \/ x = next]
  BY <1>1, TrapChooses DEF SchedInv
<1>3. /\ cputask'[c] = next /\ cputask_last'[c] = cputask[c]
      /\ cputask_last' = [cputask_last EXCEPT ![c] = cputask[c]]
      /\ \A d \in CPUs \ {c} : cputask'[d] = cputask[d] /\ cputask_last'[d] = cputask_last[d]
      /\ UNCHANGED <<onstk, stack, id>> /\ ~InTrap(c)
  BY <1>1, <1>2 DEF Trap, Types, tableVars
<1>4. next # NULL /\ next \in Tasks \cup {c}
  BY <1>1, <1>2 DEF Types, Runnable, Tasks
<1>5. Marked(c)' = ({next} \cup {cputask[c]}) \ {NULL}
  BY <1>3 DEF Marked
<1>6. \A d \in CPUs \ {c} : Marked(d)' = Marked(d)
  BY <1>3 DEF Marked
<1>7. \A d \in CPUs : Marked(d) \subseteq Tasks \cup {d}
  BY DEF SchedInv, OwnTasks, Marked
<1>8. OnStack'
  <2>1. onstk[c] = IF cputask[c] = NULL THEN c ELSE cputask[c]
    BY <1>3 DEF InTrap, SchedInv, OnStack
  <2> QED
    BY <1>3, <1>4, <2>1 DEF InTrap, SchedInv, OnStack
<1>9. OwnTasks'
  BY <1>3, <1>4 DEF SchedInv, OwnTasks
<1>10. \A d \in CPUs \ {c} : next \notin Marked(d)
  <2>1. CASE next = c
    BY <1>7, <2>1 DEF Tasks
  <2>2. CASE next # c
    <3>1. next \in Tasks /\ (~run[next] \/ next = LetGo(c))
      BY <1>2, <1>4, <2>2 DEF Runnable, StillRuns
    <3>2. CASE ~run[next]
      BY <3>2 DEF SchedInv, MarkedRun
    <3>3. CASE next = LetGo(c)
      BY <1>4, <3>3 DEF LetGo, Marked, SchedInv, MarkedApart
    <3> QED
      BY <3>1, <3>2, <3>3
  <2> QED
    BY <2>1, <2>2
<1>11. MarkedApart'
  BY <1>5, <1>6, <1>10 DEF SchedInv, MarkedApart, Marked
<1>12. MarkedRun'
  <2> SUFFICES ASSUME NEW d \in CPUs, NEW x \in Marked(d)' PROVE run'[x]
    BY DEF MarkedRun
  <2>1. x \in Tasks \cup CPUs
    BY <1>4, <1>5, <1>6, <1>7 DEF Marked
  <2>2. CASE x = next
    BY <1>2, <2>1, <2>2
  <2>3. CASE x # next
    <3>1. x \in Marked(d) /\ (d = c => x = cputask[c])
      BY <1>5, <1>6, <2>3 DEF Marked
    <3>2. run[x]
      BY <3>1 DEF SchedInv, MarkedRun
    <3>3. x # LetGo(c)
      BY <3>1 DEF LetGo, Marked, SchedInv, MarkedApart
    <3> QED
      BY <1>2, <2>1, <3>2, <3>3 DEF StillRuns
  <2> QED
    BY <2>2, <2>3
<1>13. MarkedCreated'
  <2>1. next \in Tasks => stack[next] # NULL /\ id[next] # NULL
    <3>1. ASSUME NEW i \in Slots, tasks[i] # NULL, next = tasks[i]
          PROVE  stack[next] # NULL /\ id[next] # NULL
      <4>1. id[next] = i /\ next \in live \cup Removing
        BY <3>1 DEF TableInv, InOwnSlot
      <4>2. next \in live => stack[next] # NULL
        BY <1>1 DEF TableInv, OwnStacks, Owners, Types
      <4>3. next \in Removing => stack[next] # NULL
        BY DEF Removing, TableInv, CallsApart, Idle
      <4> QED
        BY <4>1, <4>2, <4>3 DEF Slots
    <3> QED
      BY <1>2, <3>1 DEF Runnable, Tasks
  <2> QED
    BY <1>3, <1>5, <1>6, <2>1 DEF SchedInv, MarkedCreated, Marked
<1> QED
  BY <1>8, <1>9, <1>11, <1>12, <1>13 DEF SchedInv

LEMMA IretSched ==
  ASSUME Types, SchedInv, NEW c \in CPUs, Iret(c)
  PROVE  SchedInv'
<1>1. /\ onstk' = [onstk EXCEPT ![c] = cputask[c]] /\ cputask[c] # NULL
      /\ UNCHANGED <<cputask, cputask_last, run, stack, id>>
  BY DEF Iret, InTrap, tableVars
<1>2. \A d \in CPUs : Marked(d)' = Marked(d)
  BY <1>1 DEF Marked
<1>3. OnStack'
  BY <1>1 DEF Types, SchedInv, OnStack, InTrap
<1>4. OwnTasks' /\ MarkedRun' /\ MarkedApart' /\ MarkedCreated'
  BY <1>1, <1>2 DEF SchedInv, OwnTasks, MarkedRun, MarkedApart, MarkedCreated
<1> QED
  BY <1>3, <1>4 DEF SchedInv

LEMMA SchedStep ==
  ASSUME TableInv, SchedInv, [Next]_vars
  PROVE  SchedInv'
<1>1. ASSUME NEW t \in Creators, NEW x \in Demos, FreeStack(t, x) PROVE SchedInv'
  BY <1>1, CallSched DEF FreeStack, cpuVars
<1>2. ASSUME NEW t \in Creators, Remove(t) PROVE SchedInv'
  BY <1>2, CallSched DEF Remove, cpuVars
<1>3. CASE UNCHANGED vars
  BY <1>3, CallSched DEF vars, tableVars, cpuVars
<1>4. ASSUME NEW c \in CPUs, Iret(c) PROVE SchedInv'
  BY <1>4, IretSched DEF TableInv
<1> QED
  BY <1>1, <1>2, <1>3, <1>4, CreateSched, InsertSched, TrapSched DEF Next

-----------------------------------------------------------------------------
(* Theorems *)

LEMMA SchedInvariant == Spec => [](TableInv /\ SchedInv)
<1>1. Init => TableInv /\ SchedInv
  BY InitTable, InitSched
<1>2. TableInv /\ SchedInv /\ [Next]_vars => (TableInv /\ SchedInv)'
  BY TableStep, SchedStep DEF SchedInv
<1> QED
  BY <1>1, <1>2, PTL DEF Spec

LEMMA CountedInvariant == ASSUME RoomForAll PROVE Spec => [](Counted /\ RoomKept)
<1>1. Init => Counted /\ RoomKept
  BY InitCounted
<1>2. TableInv /\ Counted /\ RoomKept /\ [Next]_vars => (Counted /\ RoomKept)'
  BY CountedStep
<1> QED
  BY <1>1, <1>2, SchedInvariant, PTL DEF Spec

(* A task that kmt_create put into the table and kmt_teardown has not taken out is
   in the slot its id names, and cnt_tasks counts the slots in use: the search for a
   free slot never overwrites a task.  This wants one creator, or a slot for every
   task, and nothing of the tasks that are torn down. *)
THEOREM TableIsExact == ASSUME RoomForAll PROVE Spec => []TableExact
<1>1. Counted => TableExact
  BY DEF Counted, TableExact, Used
<1> QED
  BY <1>1, CountedInvariant, PTL

(* Every variable keeps its type: cnt_tasks stays within the table. *)
THEOREM TypesKept == ASSUME RoomForAll PROVE Spec => []TypeOK
<1>1. TableInv /\ Counted => TypeOK
  BY UsedFinite, UsedBound, TableAssumption DEF TableInv, Types, Counted, TypeOK
<1> QED
  BY <1>1, SchedInvariant, CountedInvariant, PTL

(* A processor is on its own idle loop, or on a task it has marked as its own. *)
LEMMA OnMarked ==
  ASSUME SchedInv, NEW c \in CPUs
  PROVE  onstk[c] \in Marked(c) \cup {c}
  BY DEF SchedInv, OnStack, InTrap, Marked

LEMMA OnDifferentStacks ==
  ASSUME SchedInv, NEW c \in CPUs, NEW d \in CPUs, c # d
  PROVE  onstk[c] # onstk[d]
<1>1. Marked(c) \subseteq Tasks \cup {c} /\ Marked(d) \subseteq Tasks \cup {d}
  BY DEF SchedInv, OwnTasks, Marked
<1>2. Marked(c) \cap Marked(d) = {}
  BY DEF SchedInv, MarkedApart
<1> QED
  BY <1>1, <1>2, OnMarked, TableAssumption DEF Tasks

(* Whatever tasks create and tear down, and when, with any number of creators and even
   when the table overflows: no two processors are on the same task, for task->run
   keeps os_trap of one from choosing what another is on or has not left yet; and a
   processor on a task that is not torn down is on a stack that is allocated and no
   other such task's.  The one assumption is the guard Unused: a task_t is created
   once, for kmt_create would clear the run flag of one that a processor is still on. *)
THEOREM StacksOwned == Spec => []StackOwned
<1>1. TableInv /\ SchedInv => StackOwned
  BY OnDifferentStacks DEF TableInv, OwnStacks, Owners, StackOwned
<1> QED
  BY <1>1, SchedInvariant, PTL

-----------------------------------------------------------------------------
(* Coroutines *)

(* Whoever is leaving is in co_yield; who is not started yet has done nothing. *)
Leaving == pre # NOCO => at[pre] \in {"yield", "wait.yield"}

Untouched == \A c \in CoSlots \ Known : at[c] = "user" /\ child[c] = NOCO /\ handle[c] = NOCO

(* Each coroutine but main was made by one call of co_start, and there is none
   that nobody made last. *)
Started ==
  /\ \A c \in CoSlots : child[c] # NOCO => child[c] \in 1 .. co_num
  /\ \A c, d \in CoSlots : child[c] # NOCO /\ child[c] = child[d] => c = d
  /\ \A c \in CoSlots : at[c] = "start" => child[c] # NOCO
  /\ \A c \in CoSlots : child[c] = NOCO => handle[c] = NOCO
  /\ co_num > 0 => \E c \in Known : child[c] = co_num

CoInv == CoTypeOK /\ Leaving /\ Untouched /\ JumpsLand /\ Started /\ HandleIsChild

USE CoAssumption DEF CoSlots, Known

LEMMA CoInitInv ==
  co_init => CoInv
<1> SUFFICES ASSUME co_init PROVE CoInv
  OBVIOUS
<1>1. CoTypeOK
  BY DEF co_init, CoTypeOK, Places
<1>2. Leaving /\ Untouched /\ JumpsLand /\ Started
  BY DEF co_init, Leaving, Untouched, JumpsLand, Runner, Started
<1>3. HandleIsChild
  BY DEF co_init, HandleIsChild
<1> QED
  BY <1>1, <1>2, <1>3 DEF CoInv

LEMMA CoStartInv ==
  ASSUME CoInv, Start
  PROVE  CoInv'
<1> DEFINE new == co_num + 1
<1>1. /\ new \in CoSlots /\ cur \in CoSlots /\ cur \in Known /\ co_num \in Nat /\ new # cur
      /\ cur' = new /\ co_num' = new /\ new \notin Known /\ pre = NOCO /\ pre' = NOCO
  BY DEF CoInv, CoTypeOK, Start, Runs
<1>2. CoTypeOK'
  BY <1>1 DEF CoInv, CoTypeOK, Start, Places
<1>3. Leaving' /\ Untouched'
  BY <1>1 DEF CoInv, CoTypeOK, Leaving, Untouched, Start
<1>4. JumpsLand'
  <2>1. Runner = cur /\ Runner' = new
    BY <1>1 DEF Runner
  <2>2. ~done'[new]
    BY <1>1 DEF CoInv, CoTypeOK, Start
  <2>3. env'[cur] = "start" /\ stackptr'[cur] = "start" /\ at'[cur] = "start"
    BY <1>1 DEF CoInv, CoTypeOK, Start
  <2>4. ASSUME NEW c \in Known \ {cur}
        PROVE  done'[c] = done[c] /\ env'[c] = env[c] /\ stackptr'[c] = stackptr[c] /\ at'[c] = at[c]
    <3>1. c \in CoSlots /\ c # new /\ c # cur
      BY <1>1, <2>4 DEF CoInv, CoTypeOK
    <3>2. done' = [done EXCEPT ![new] = FALSE] /\ at' = [at EXCEPT ![cur] = "start"]
      BY DEF Start
    <3>3. /\ env' = [env EXCEPT ![cur] = "start"]
          /\ stackptr' = [stackptr EXCEPT ![cur] = "start", ![new] = "user"]
      BY DEF Start
    <3> QED
      BY <3>1, <3>2, <3>3 DEF CoInv, CoTypeOK
  <2>5. \A c \in Known' \ {new} : c \in Known
    BY <1>1
  <2> QED
    BY <1>1, <2>1, <2>2, <2>3, <2>4, <2>5 DEF CoInv, JumpsLand
<1>5. child' = [child EXCEPT ![cur] = new] /\ handle' = handle /\ at' = [at EXCEPT ![cur] = "start"]
  BY DEF Start
<1>6. \A c \in CoSlots : child[c] # NOCO => child[c] \in Nat /\ child[c] < new
  BY <1>1 DEF CoInv, Started
<1>7. Started'
  BY <1>1, <1>5, <1>6 DEF CoInv, CoTypeOK, Started
<1>8. HandleIsChild'
  <2> SUFFICES ASSUME NEW c \in Known', at'[c] # "start"
               PROVE  \/ handle'[c] = child'[c]
                      \/ \E d \in Known' \ {c} : child'[d] # NOCO /\ child'[d] > child'[c]
    BY DEF HandleIsChild
  <2>1. CASE c = new
    BY <1>1, <1>5, <2>1 DEF CoInv, CoTypeOK, Untouched
  <2>2. CASE c # new
    <3>1. c \in Known /\ c # cur /\ c \in CoSlots /\ at[c] # "start"
      BY <1>1, <1>5, <2>2 DEF CoInv, CoTypeOK
    <3>2. child'[c] = child[c] /\ handle'[c] = handle[c] /\ child'[cur] = new
      BY <1>1, <1>5, <3>1 DEF CoInv, CoTypeOK
    <3>3. CASE handle[c] = child[c]
      BY <3>2, <3>3
    <3>4. CASE handle[c] # child[c]
      <4>1. PICK d \in Known \ {c} : child[d] # NOCO /\ child[d] > child[c]
        BY <3>1, <3>4 DEF CoInv, HandleIsChild
      <4>2. CASE d # cur
        BY <1>1, <1>5, <3>2, <4>1, <4>2 DEF CoInv, CoTypeOK
      <4>3. CASE d = cur
        <5>1. child[d] < new /\ child[d] \in Nat /\ d \in CoSlots
          BY <1>1, <1>6, <4>1, <4>3
        <5>2. CASE child[c] # NOCO
          BY <1>1, <1>6, <3>1, <3>2, <5>2 DEF CoTypeOK
        <5>3. CASE child[c] = NOCO
          BY <3>1, <3>2, <5>3 DEF CoInv, Started
        <5> QED
          BY <5>2, <5>3
      <4> QED
        BY <4>2, <4>3
    <3> QED
      BY <3>3, <3>4
  <2> QED
    BY <2>1, <2>2
<1> QED
  BY <1>2, <1>3, <1>4, <1>7, <1>8 DEF CoInv

(* The longjmp of co_yield: nobody's place changes by it, for cur is where it was
   left, or it is the one that leaves. *)
LEMMA CoSwitchInv ==
  ASSUME CoInv, Switch
  PROVE  CoInv'
<1>1. /\ pre \in Known /\ cur \in Known /\ Known \subseteq CoSlots /\ pre # NOCO /\ pre' = NOCO
      /\ UNCHANGED <<co_num, cur, done, waitfor, child, handle>>
      /\ env' = [env EXCEPT ![pre] = at[pre]] /\ stackptr' = [stackptr EXCEPT ![pre] = at[pre]]
  BY DEF CoInv, CoTypeOK, Switch, Saved
<1>2. env'[cur] = at[cur]
  <2>1. cur # pre => env[cur] = at[cur]
    BY <1>1 DEF CoInv, JumpsLand, Runner
  <2> QED
    BY <1>1, <2>1 DEF CoInv, CoTypeOK
<1>3. at' = at
  <2>1. at' = [at EXCEPT ![cur] = at[cur]]
    BY <1>1, <1>2 DEF Switch, Saved
  <2> QED
    BY <1>1, <2>1 DEF CoInv, CoTypeOK
<1>4. CoTypeOK'
  BY <1>1, <1>3 DEF CoInv, CoTypeOK
<1>5. JumpsLand'
  <2>1. ~done[cur]
    BY DEF CoInv, JumpsLand
  <2>2. ASSUME NEW c \in Known, c # cur, ~done[c]
        PROVE  env'[c] = at[c] /\ stackptr'[c] = at[c]
    <3>1. c # pre => env[c] = at[c] /\ stackptr[c] = at[c]
      BY <1>1, <2>2 DEF CoInv, JumpsLand, Runner
    <3> QED
      BY <1>1, <3>1 DEF CoInv, CoTypeOK
  <2> QED
    BY <1>1, <1>3, <2>1, <2>2 DEF JumpsLand, Runner
<1> QED
  BY <1>1, <1>3, <1>4, <1>5 DEF CoInv, Leaving, Untouched, Started, HandleIsChild

(* Every other step is one of the coroutine that runs, and changes nobody else's place
   or env; whoever comes out of co_start gets the coroutine made last. *)
LEMMA CoRunInv ==
  ASSUME CoInv, pre = NOCO, UNCHANGED <<co_num, stackptr, child>>,
         cur' \in Known, ~done'[cur'], waitfor' \in [CoSlots -> CoSlots \cup {NOCO}],
         NEW p \in Places \ {"start"}, at' = [at EXCEPT ![cur] = p],
         NEW e \in Places \cup {"gone"}, env' = [env EXCEPT ![cur] = e],
         NEW b \in BOOLEAN, done' = [done EXCEPT ![cur] = b],
         handle' = IF at[cur] = "start" THEN [handle EXCEPT ![cur] = co_num] ELSE handle,
         \/ pre' = NOCO /\ cur' = cur
         \/ pre' = cur /\ p \in {"yield", "wait.yield"}
  PROVE  CoInv'
<1>1. /\ cur \in CoSlots /\ cur \in Known /\ co_num \in Nat /\ Known' = Known
      /\ Known \subseteq CoSlots /\ Runner = cur /\ Runner' = cur
  BY DEF CoInv, CoTypeOK, Runner
<1>2. /\ at'[cur] = p /\ \A c \in CoSlots \ {cur} : at'[c] = at[c]
      /\ \A c \in CoSlots \ {cur} : env'[c] = env[c] /\ done'[c] = done[c] /\ handle'[c] = handle[c]
      /\ handle'[cur] = IF at[cur] = "start" THEN co_num ELSE handle[cur]
  BY <1>1 DEF CoInv, CoTypeOK
<1>3. CoTypeOK'
  <2>1. at' \in [CoSlots -> Places] /\ env' \in [CoSlots -> Places \cup {"gone"}]
    BY <1>1 DEF CoInv, CoTypeOK
  <2>2. done' \in [CoSlots -> BOOLEAN] /\ handle' \in [CoSlots -> CoSlots \cup {NOCO}]
    BY <1>1 DEF CoInv, CoTypeOK
  <2> QED
    BY <1>1, <2>1, <2>2 DEF CoInv, CoTypeOK
<1>4. Leaving'
  BY <1>2 DEF Leaving
<1>5. Untouched'
  BY <1>1, <1>2 DEF CoInv, Untouched
<1>6. JumpsLand'
  BY <1>1, <1>2 DEF CoInv, JumpsLand
<1>7. Started'
  <2>1. \A c \in CoSlots : at'[c] = "start" => at[c] = "start"
    BY <1>1, <1>2
  <2>2. \A c \in CoSlots : child[c] = NOCO => handle'[c] = NOCO
    BY <1>1, <1>2 DEF CoInv, Started
  <2> QED
    BY <1>1, <2>1, <2>2 DEF CoInv, Started
<1>8. HandleIsChild'
  <2> SUFFICES ASSUME NEW c \in Known, at'[c] # "start"
               PROVE  \/ handle'[c] = child[c]
                      \/ \E d \in Known \ {c} : child[d] # NOCO /\ child[d] > child[c]
    BY <1>1 DEF HandleIsChild
  <2>1. CASE at[c] # "start"
    <3>1. handle'[c] = handle[c]
      BY <1>1, <1>2, <2>1
    <3> QED
      BY <2>1, <3>1 DEF CoInv, HandleIsChild
  <2>2. CASE at[c] = "start"
    <3>1. c = cur /\ handle'[c] = co_num
      BY <1>1, <1>2, <2>2
    <3>2. child[c] \in 1 .. co_num
      BY <1>1, <2>2 DEF CoInv, Started
    <3>3. PICK d \in Known : child[d] = co_num
      BY <1>1, <3>2 DEF CoInv, Started
    <3>4. CASE d = c
      BY <3>1, <3>3, <3>4
    <3>5. CASE d # c
      <4>1. child[d] # NOCO
        BY <1>1, <3>3
      <4>2. child[c] # child[d]
        BY <1>1, <3>5, <4>1 DEF CoInv, Started
      <4>3. child[d] > child[c]
        BY <1>1, <3>2, <3>3, <4>2
      <4> QED
        BY <3>5, <4>1, <4>3
    <3> QED
      BY <3>4, <3>5
  <2> QED
    BY <2>1, <2>2
<1> QED
  BY <1>3, <1>4, <1>5, <1>6, <1>7, <1>8 DEF CoInv

(* What the table, the frames and the handles have to do with each other. *)
THEOREM CoInvariant ==
  CoSpec => []CoInv
<1>1. co_init => CoInv
  BY CoInitInv
<1>2. CoInv /\ [CoNext]_co_vars => CoInv'
  <2> SUFFICES ASSUME CoInv, [CoNext]_co_vars PROVE CoInv'
    OBVIOUS
  <2>1. /\ cur \in CoSlots /\ cur \in Known /\ ~done[cur] /\ done = [done EXCEPT ![cur] = FALSE]
        /\ env = [env EXCEPT ![cur] = env[cur]] /\ env[cur] \in Places \cup {"gone"}
        /\ waitfor \in [CoSlots -> CoSlots \cup {NOCO}] /\ handle[cur] \in CoSlots \cup {NOCO}
    BY DEF CoInv, CoTypeOK, JumpsLand
  <2>2. CASE Start
    BY <2>2, CoStartInv
  <2>3. CASE Switch
    BY <2>3, CoSwitchInv
  <2>4. CASE Return
    BY <2>1, <2>4, CoRunInv DEF Return, Runs, Returned, Places
  <2>5. CASE WaitCall
    BY <2>1, <2>5, CoRunInv DEF WaitCall, Runs, Places
  <2>6. CASE WaitReturn
    BY <2>1, <2>6, CoRunInv DEF WaitReturn, Runs, Places
  <2>7. ASSUME NEW n \in CoSlots, co_yield(n) PROVE CoInv'
    BY <2>1, <2>7, CoRunInv DEF co_yield, Yield, Picks, Runs, Places
  <2>8. ASSUME NEW n \in CoSlots, Finish(n) PROVE CoInv'
    <3>1. env' = [env EXCEPT ![cur] = env[cur]]
      BY <2>1, <2>8 DEF Finish
    <3> QED
      BY <2>1, <2>8, <3>1, CoRunInv DEF Finish, Yield, Picks, Runs, Places
  <2>9. ASSUME NEW n \in CoSlots, WaitYield(n) PROVE CoInv'
    BY <2>1, <2>9, CoRunInv DEF WaitYield, Yield, Picks, Runs, Places
  <2>10. CASE UNCHANGED co_vars
    BY <2>10 DEF co_vars, CoInv, CoTypeOK, Leaving, Untouched, JumpsLand, Runner, Started,
                 HandleIsChild
  <2> QED
    BY <2>2, <2>3, <2>4, <2>5, <2>6, <2>7, <2>8, <2>9, <2>10 DEF CoNext
<1> QED
  BY <1>1, <1>2, PTL DEF CoSpec

(* longjmp finds a coroutine that has not ended, and registers and stack pointer of the
   frame it left: the setjmp of co_yield replaces that of the co_wait around it, and
   nothing else comes between it and the jump back. *)
THEOREM Lands ==
  CoSpec => []JumpsLand
<1>1. CoInv => JumpsLand
  BY DEF CoInv
<1> QED
  BY <1>1, CoInvariant, PTL

(* co_start returns the coroutine it made, unless others were made since. *)
THEOREM HandleRight ==
  CoSpec => []HandleIsChild
<1>1. CoInv => HandleIsChild
  BY DEF CoInv
<1> QED
  BY <1>1, CoInvariant, PTL

=============================================================================
