-------------------------------- MODULE Pmm --------------------------------
(***************************************************************************)
(* The kernel's physical memory manager, kernel/src/pmm.c, as it is built  *)
(* (CORRECTNESS_FIRST undefined).  The heap [pm_start, pm_end) holds a     *)
(* doubly linked list, by address, of nodes: each is the header of a block *)
(* that was handed out, and a sentinel is at either end.  kalloc walks the *)
(* list for the first gap that is wide enough.                             *)
(*                                                                         *)
(* A node is named by its address, which is also its start field; pm_start *)
(* is 0.  A step is a lock operation, the test of one node or the relinking *)
(* at the end; callers run in parallel and may call at any time, and free  *)
(* only what they were given, once.  The sizes asked for are small enough  *)
(* that size + BIAS does not wrap, as those of all callers in src/ are.    *)
(***************************************************************************)
EXTENDS Integers

CONSTANTS
  Threads,  \* callers
  PMEnd,    \* pm_end
  BIAS,     \* sizeof(struct node)
  Sizes,    \* sizes asked for
  NULL

ASSUME HeapAssumption ==
  /\ BIAS \in Nat \ {0}
  /\ PMEnd \in Nat /\ PMEnd >= 2 * BIAS
  /\ Sizes \subseteq Nat
ASSUME NullAssumption == NULL \notin Int /\ NULL \notin Threads

Addr == 0 .. PMEnd
head == 0
tail == PMEnd - BIAS

VARIABLES
  next, pre, end,  \* memory read as struct node: the fields of the node at each address
  alloc_lock,      \* who holds the lock
  pc,              \* where each thread is: "idle" outside kalloc and kfree
  size,            \* kalloc's argument
  p,               \* the node kalloc looks at, or the node kfree takes out
  ret,             \* kalloc's result
  owned            \* nodes of the blocks that callers have been given and not freed

node == <<next, pre, end>>
vars == <<node, alloc_lock, pc, size, p, ret, owned>>

PCs == {"idle", "alloc", "visit", "free", "unlock"}

(* The blocks of the list lie in the heap, and each caller is where kalloc or
   kfree can be, at a block that is in the list. *)
TypeOK ==
  /\ next \in [Addr -> Addr \cup {NULL}]
  /\ pre \in [Addr -> Addr \cup {NULL}]
  /\ end \in [Addr -> Addr]
  /\ alloc_lock \in Threads \cup {NULL}
  /\ pc \in [Threads -> PCs]
  /\ size \in [Threads -> Sizes \cup {0}]
  /\ p \in [Threads -> Addr]
  /\ ret \in [Threads -> Addr \cup {NULL}]
  /\ owned \subseteq Addr

(* list_init.  What the rest of the memory holds is of no consequence. *)
Init ==
  /\ next = [a \in Addr |-> IF a = head THEN tail ELSE NULL]
  /\ pre = [a \in Addr |-> IF a = tail THEN head ELSE NULL]
  /\ end = [a \in Addr |-> IF a = head THEN head + BIAS ELSE IF a = tail THEN PMEnd ELSE 0]
  /\ alloc_lock = NULL
  /\ pc = [t \in Threads |-> "idle"]
  /\ size = [t \in Threads |-> 0]
  /\ p = [t \in Threads |-> head]
  /\ ret = [t \in Threads |-> NULL]
  /\ owned = {}

Goto(t, label) == pc' = [pc EXCEPT ![t] = label]

Acquire(t) == alloc_lock = NULL /\ alloc_lock' = t

AllocCall(t, n) ==
  /\ pc[t] = "idle"
  /\ size' = [size EXCEPT ![t] = n]
  /\ Goto(t, "alloc")
  /\ UNCHANGED <<node, alloc_lock, p, ret, owned>>

AllocLock(t) ==
  /\ pc[t] = "alloc"
  /\ Acquire(t)
  /\ p' = [p EXCEPT ![t] = head]
  /\ Goto(t, "visit")
  /\ UNCHANGED <<node, size, ret, owned>>

(* Does a block fit between node q and the next? *)
FaultyFits(q, n) == next[q] - end[q] >= n

FaultyFitsLoosely(q, n) == next[q] - end[q] > n + BIAS

Fits(q, n) == next[q] - end[q] >= n + BIAS

(* add_node: a node at the end of q's block, for a block of n bytes *)
AddNode(q, n) ==
  LET tmp == end[q] IN
  /\ end' = [end EXCEPT ![tmp] = tmp + n + BIAS]
  /\ pre' = [pre EXCEPT ![tmp] = q, ![next[q]] = tmp]
  /\ next' = [next EXCEPT ![tmp] = next[q], ![q] = tmp]

VisitFits(t) ==
  /\ pc[t] = "visit"
  /\ p[t] # tail
  /\ Fits(p[t], size[t])
  /\ AddNode(p[t], size[t])
  /\ ret' = [ret EXCEPT ![t] = end[p[t]] + BIAS]
  /\ Goto(t, "unlock")
  /\ UNCHANGED <<alloc_lock, size, p, owned>>

Following(q) == next[q]

VisitNext(t) ==
  /\ pc[t] = "visit"
  /\ p[t] # tail
  /\ ~Fits(p[t], size[t])
  /\ p' = [p EXCEPT ![t] = Following(p[t])]
  /\ UNCHANGED <<node, alloc_lock, pc, size, ret, owned>>

VisitEnd(t) ==
  /\ pc[t] = "visit"
  /\ p[t] = tail
  /\ Goto(t, "unlock")
  /\ UNCHANGED <<node, alloc_lock, size, p, ret, owned>>

FreeCall(t, n) ==
  /\ pc[t] = "idle"
  /\ n \in owned
  /\ owned' = owned \ {n}
  /\ p' = [p EXCEPT ![t] = n]
  /\ Goto(t, "free")
  /\ UNCHANGED <<node, alloc_lock, size, ret>>

FaultyDeleteNode(q) ==
  /\ next' = [next EXCEPT ![pre[q]] = next[q]]
  /\ UNCHANGED <<pre, end>>

DeleteNode(q) ==
  /\ pre' = [pre EXCEPT ![next[q]] = pre[q]]
  /\ next' = [next EXCEPT ![pre[q]] = next[q]]
  /\ UNCHANGED end

FreeLock(t) ==
  /\ pc[t] = "free"
  /\ Acquire(t)
  /\ DeleteNode(p[t])
  /\ Goto(t, "unlock")
  /\ UNCHANGED <<size, p, ret, owned>>

(* The lock is given back, and a caller of kalloc has its block; the locals are
   out of scope. *)
Unlock(t) ==
  /\ pc[t] = "unlock"
  /\ alloc_lock' = NULL
  /\ owned' = owned \cup {ret[t] - BIAS : x \in {ret[t]} \ {NULL}}
  /\ size' = [size EXCEPT ![t] = 0]
  /\ p' = [p EXCEPT ![t] = head]
  /\ ret' = [ret EXCEPT ![t] = NULL]
  /\ Goto(t, "idle")
  /\ UNCHANGED node

Next ==
  \E t \in Threads :
    \/ \E n \in Sizes : AllocCall(t, n)
    \/ AllocLock(t)
    \/ VisitFits(t)
    \/ VisitNext(t)
    \/ VisitEnd(t)
    \/ \E n \in owned : FreeCall(t, n)
    \/ FreeLock(t)
    \/ Unlock(t)

Spec == Init /\ [][Next]_vars

-----------------------------------------------------------------------------
(* Properties *)

(* The nodes of the blocks in the list: those callers have, those on the way
   to a caller and those whose kfree waits for the lock. *)
Linked ==
  owned \cup {p[t] : t \in {u \in Threads : pc[u] = "free"}}
        \cup {ret[t] - BIAS : t \in {u \in Threads : pc[u] = "unlock" /\ ret[u] # NULL}}

Nodes == Linked \cup {head, tail}

(* Blocks with their headers never overlap each other or the sentinels. *)
BlocksApart ==
  /\ \A n \in Linked : head + BIAS <= n /\ end[n] <= tail
  /\ \A m, n \in Linked : m < n => end[m] <= n

(* The list leads from head to tail by rising addresses through exactly the
   blocks handed out, and back: the assertion of kalloc and kfree on every node
   they look at, p->next->pre == p. *)
ListIntact ==
  \A n \in Nodes :
    /\ n # tail => next[n] \in Nodes /\ pre[next[n]] = n
    /\ n # tail => n < next[n] /\ \A m \in Nodes : ~(n < m /\ m < next[n])

-----------------------------------------------------------------------------
(* What the callers see *)

Blocks == {[start |-> n, end |-> end[n]] : n \in Linked}

CallOf(t) ==
  IF pc[t] = "idle" THEN [op |-> "none", arg |-> NULL]
  ELSE IF pc[t] = "free" THEN [op |-> "free", arg |-> p[t] + BIAS]
  ELSE IF pc[t] = "unlock" THEN [op |-> "return", arg |-> ret[t]]
  ELSE [op |-> "alloc", arg |-> size[t]]

Call == [t \in Threads |-> CallOf(t)]

Promise == INSTANCE PmmAbs WITH blocks <- Blocks, call <- Call

(* kalloc is a first fit that takes effect at once, and says that there is no
   space only when no gap is wide enough. *)
ImplementsAllocator == Promise!Spec

=============================================================================
