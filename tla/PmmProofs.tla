----------------------------- MODULE PmmProofs -----------------------------
(***************************************************************************)
(* Proofs about Pmm for heaps, headers and requests of every size and any  *)
(* number of callers: types, blocks that do not overlap, and the list.     *)
(***************************************************************************)
EXTENDS Pmm, TLAPS

(* The lock is held by the one thread in a critical section. *)
LockInv == \A t \in Threads : pc[t] \in {"visit", "unlock"} <=> alloc_lock = t

(* A block has one owner: the callers, a kfree that waits for the lock, or the
   kalloc that is about to return it. *)
OneOwner ==
  /\ \A t \in Threads : pc[t] # "unlock" => ret[t] = NULL
  /\ \A t \in Threads : pc[t] = "free" => p[t] \notin owned
  /\ \A t, u \in Threads : pc[t] = "free" /\ pc[u] = "free" /\ t # u => p[t] # p[u]
  /\ \A t \in Threads : pc[t] = "unlock" /\ ret[t] # NULL =>
       /\ ret[t] - BIAS \notin owned
       /\ \A u \in Threads : pc[u] = "free" => p[u] # ret[t] - BIAS

(* Every node but the sentinels is between them, with its block after it. *)
InHeap ==
  /\ \A n \in Linked : n \in Addr /\ head < n /\ n < tail
  /\ \A n \in Nodes : n + BIAS <= end[n]
  /\ end[head] = head + BIAS

(* The list, forwards and backwards. *)
Forwards ==
  \A n \in Nodes \ {tail} :
    /\ next[n] \in Nodes /\ n < next[n] /\ end[n] <= next[n]
    /\ \A m \in Nodes : ~(n < m /\ m < next[n])
    /\ pre[next[n]] = n

Backwards == \A n \in Nodes \ {head} : pre[n] \in Nodes \ {tail} /\ next[pre[n]] = n

(* kalloc has found no room before the node it looks at. *)
Walk ==
  \A t \in Threads : pc[t] = "visit" =>
    /\ p[t] \in Nodes
    /\ \A a \in Addr : Promise!Room(a, a + size[t] + BIAS) => p[t] <= a

IInv == TypeOK /\ LockInv /\ OneOwner /\ InHeap /\ Forwards /\ Backwards /\ Walk

LEMMA HeadTail ==
  /\ BIAS \in Int /\ BIAS > 0 /\ PMEnd \in Int
  /\ head \in Addr /\ tail \in Addr /\ head + BIAS <= tail /\ tail + BIAS = PMEnd
  /\ head = 0 /\ head < tail
  /\ \A n \in Sizes \cup {0} : n \in Nat
  BY HeapAssumption DEF head, tail, Addr

(* Which nodes are linked, in terms of their owners. *)
LEMMA LinkedDef ==
  \A n : n \in Linked <=>
    \/ n \in owned
    \/ \E u \in Threads : pc[u] = "free" /\ n = p[u]
    \/ \E u \in Threads : pc[u] = "unlock" /\ ret[u] # NULL /\ n = ret[u] - BIAS
  BY DEF Linked

LEMMA InitIInv == Init => IInv
<1> SUFFICES ASSUME Init PROVE IInv
  OBVIOUS
<1>1. Linked = {}
  BY DEF Init, Linked
<1>2. Nodes = {head, tail}
  BY <1>1 DEF Nodes
<1>3. TypeOK
  BY HeadTail DEF Init, TypeOK, PCs, Addr, head, tail
<1>4. LockInv /\ OneOwner /\ Walk
  BY NullAssumption DEF Init, LockInv, OneOwner, Walk
<1>5. /\ next[head] = tail /\ pre[tail] = head
      /\ end[head] = head + BIAS /\ end[tail] = PMEnd
  BY HeadTail DEF Init
<1>6. head \in Int /\ tail \in Int
  BY HeadTail DEF Addr
<1>7. InHeap
  BY <1>1, <1>2, <1>5, HeadTail DEF InHeap, head
<1>8. Forwards /\ Backwards
  <2>1. Nodes \ {tail} = {head} /\ Nodes \ {head} = {tail}
    BY <1>2, <1>6, HeadTail
  <2>2. \A m \in Nodes : ~(head < m /\ m < tail)
    BY <1>2, <1>6
  <2> QED
    BY <1>2, <1>5, <1>6, <2>1, <2>2, HeadTail DEF Forwards, Backwards
<1> QED
  BY <1>3, <1>4, <1>7, <1>8 DEF IInv

-----------------------------------------------------------------------------
(* What a list in order says of two of its blocks *)

LEMMA NodeTypes ==
  ASSUME TypeOK, InHeap, NEW n \in Nodes
  PROVE  n \in Addr /\ n \in Int /\ head <= n /\ n <= tail /\ end[n] \in Int /\ n + BIAS <= end[n]
<1>1. n \in Addr /\ head <= n /\ n <= tail
  BY HeadTail DEF InHeap, Nodes, Addr
<1>2. end[n] \in Addr /\ n + BIAS <= end[n]
  BY <1>1 DEF TypeOK, InHeap
<1> QED
  BY <1>1, <1>2 DEF Addr

LEMMA Ordered ==
  ASSUME TypeOK, InHeap, Forwards, NEW m \in Nodes, NEW n \in Nodes, m < n
  PROVE  end[m] <= n
<1>1. n <= tail /\ n \in Int /\ m \in Int
  BY NodeTypes
<1>2. m # tail
  BY <1>1
<1>3. /\ next[m] \in Nodes /\ end[m] <= next[m] /\ ~(n < next[m])
  BY <1>2 DEF Forwards
<1>4. end[m] \in Int /\ next[m] \in Int /\ n \in Int
  BY <1>3, NodeTypes
<1> QED
  BY <1>3, <1>4

-----------------------------------------------------------------------------
(* Steps that leave the list alone *)

LEMMA SameNodes ==
  ASSUME InHeap, Forwards, Backwards, UNCHANGED node, Linked' = Linked
  PROVE  InHeap' /\ Forwards' /\ Backwards' /\ Nodes' = Nodes
<1>1. Nodes' = Nodes
  BY DEF Nodes
<1>2. UNCHANGED <<next, pre, end>>
  BY DEF node
<1> QED
  BY <1>1, <1>2 DEF InHeap, Forwards, Backwards

LEMMA SameBlocks ==
  ASSUME UNCHANGED node, Linked' = Linked
  PROVE  Blocks' = Blocks
  BY DEF Blocks, node

(* There is no room before the next node either. *)
LEMMA NoRoomHere ==
  ASSUME IInv, NEW t \in Threads, VisitNext(t), NEW a \in Addr,
         Promise!Room(a, a + size[t] + BIAS)
  PROVE  next[p[t]] <= a
<1> DEFINE q == p[t]
           b == next[q]
           k == size[t] + BIAS
<1>1. q \in Nodes \ {tail} /\ q <= a
  BY DEF VisitNext, IInv, Walk
<1>2. size[t] \in Nat
  BY HeadTail DEF IInv, TypeOK
<1>3. /\ BIAS <= a /\ a + k <= tail
      /\ \A n \in Linked : ~(a < end[n] /\ n < a + k)
  <2> HIDE DEF k
  <2>1. a + size[t] + BIAS = a + k
    BY <1>2, HeadTail DEF k, Addr
  <2>2. Promise!Room(a, a + k)
    BY <2>1
  <2>3. BIAS <= a /\ a + k <= tail
    BY <2>2 DEF Promise!Room, tail
  <2>4. ASSUME NEW n \in Linked PROVE ~(a < end[n] /\ n < a + k)
    <3>1. [start |-> n, end |-> end[n]] \in Blocks
      BY DEF Blocks
    <3>2. ~Promise!Overlap(a, a + k, n, end[n])
      BY <2>2, <3>1 DEF Promise!Room
    <3> QED
      BY <3>2 DEF Promise!Overlap
  <2> QED
    BY <2>3, <2>4
<1>4. b \in Nodes /\ q < b /\ b - end[q] < k
  <2>1. ~(b - end[q] >= k)
    BY DEF VisitNext, Fits
  <2>2. b \in Nodes /\ q < b /\ b \in Int /\ end[q] \in Int
    BY <1>1, NodeTypes DEF IInv, Forwards
  <2> QED
    BY <1>1, <1>2, <2>1, <2>2, HeadTail
<1>5. q \in Int /\ b \in Int /\ end[q] \in Int /\ end[b] \in Int /\ k \in Int /\ k > 0 /\ a \in Int
  BY <1>1, <1>2, <1>4, HeadTail, NodeTypes DEF IInv, Addr
<1>6. q + BIAS <= end[q] /\ b + BIAS <= end[b]
  BY <1>1, <1>4 DEF IInv, InHeap
<1> HIDE DEF q, b, k
<1>7. end[q] <= a
  <2>1. CASE q \in Linked
    BY <1>1, <1>3, <1>5, <2>1
  <2>2. CASE q \notin Linked
    BY <1>1, <1>3, <1>5, <2>2, HeadTail DEF IInv, InHeap, Nodes, head
  <2> QED
    BY <2>1, <2>2
<1>8. ~(a < b)
  <2>1. ASSUME a < b PROVE FALSE
    <3>1. b < a + k
      BY <1>4, <1>5, <1>7
    <3>2. CASE b \in Linked
      BY <1>3, <1>5, <1>6, <2>1, <3>1, <3>2, HeadTail
    <3>3. CASE b = tail
      BY <1>3, <1>5, <3>1, <3>3
    <3>4. CASE b = head
      BY <1>1, <1>4, <1>5, <3>4 DEF IInv, InHeap, Nodes, head, Addr
    <3> QED
      BY <1>4, <3>2, <3>3, <3>4 DEF Nodes
  <2> QED
    BY <2>1
<1> QED
  BY <1>5, <1>8 DEF b, q

LEMMA TypeStep ==
  ASSUME IInv, [Next]_vars
  PROVE  TypeOK'
<1> USE HeadTail DEF PCs
<1>1. CASE UNCHANGED vars
  BY <1>1 DEF IInv, TypeOK, vars, node
<1>2. ASSUME NEW t \in Threads, NEW n \in Sizes, AllocCall(t, n) PROVE TypeOK'
  BY <1>2 DEF AllocCall, Goto, IInv, TypeOK, node
<1>3. ASSUME NEW t \in Threads, AllocLock(t) PROVE TypeOK'
  BY <1>3 DEF AllocLock, Acquire, Goto, IInv, TypeOK, node
<1>4. ASSUME NEW t \in Threads, VisitFits(t) PROVE TypeOK'
  <2> DEFINE q == p[t]
             tmp == end[q]
             n == size[t]
  <2>1. q \in Nodes \ {tail} /\ next[q] \in Nodes /\ next[q] - tmp >= n + BIAS
    BY <1>4 DEF VisitFits, Fits, IInv, Walk, Forwards
  <2>2. q \in Addr /\ tmp \in Int /\ 0 <= tmp /\ n \in Nat /\ next[q] \in Addr /\ next[q] <= tail
    <3>1. q \in Addr /\ head <= q /\ tmp \in Int /\ q + BIAS <= tmp
      BY <2>1, NodeTypes DEF IInv
    <3>2. next[q] \in Addr /\ next[q] <= tail
      BY <2>1, NodeTypes DEF IInv
    <3>3. n \in Nat
      BY DEF IInv, TypeOK
    <3> QED
      BY <3>1, <3>2, <3>3 DEF Addr
  <2>3. tmp \in Addr /\ tmp + n + BIAS \in Addr /\ tmp + BIAS \in Addr
    BY <2>1, <2>2 DEF Addr
  <2>4. ret' = [ret EXCEPT ![t] = tmp + BIAS] /\ AddNode(q, n)
    BY <1>4 DEF VisitFits
  <2> HIDE DEF q, n
  <2>5. end' \in [Addr -> Addr] /\ ret' \in [Threads -> Addr \cup {NULL}]
    BY <2>3, <2>4 DEF AddNode, IInv, TypeOK
  <2>6. next' \in [Addr -> Addr \cup {NULL}] /\ pre' \in [Addr -> Addr \cup {NULL}]
    BY <2>2, <2>3, <2>4 DEF AddNode, IInv, TypeOK
  <2> QED
    BY <1>4, <2>5, <2>6 DEF VisitFits, Goto, IInv, TypeOK
<1>5. ASSUME NEW t \in Threads, VisitNext(t) PROVE TypeOK'
  <2>1. next[p[t]] \in Addr
    BY <1>5, NodeTypes DEF VisitNext, IInv, Walk, Forwards
  <2> QED
    BY <1>5, <2>1 DEF VisitNext, Following, IInv, TypeOK, node
<1>6. ASSUME NEW t \in Threads, VisitEnd(t) PROVE TypeOK'
  BY <1>6 DEF VisitEnd, Goto, IInv, TypeOK, node
<1>7. ASSUME NEW t \in Threads, NEW n \in owned, FreeCall(t, n) PROVE TypeOK'
  BY <1>7 DEF FreeCall, Goto, IInv, TypeOK, node
<1>8. ASSUME NEW t \in Threads, FreeLock(t) PROVE TypeOK'
  BY <1>8 DEF FreeLock, Acquire, DeleteNode, Goto, IInv, TypeOK
<1>9. ASSUME NEW t \in Threads, Unlock(t) PROVE TypeOK'
  <2>1. owned' \subseteq Addr
    <3>1. ret[t] # NULL => ret[t] - BIAS \in Addr
      <4> SUFFICES ASSUME ret[t] # NULL PROVE ret[t] - BIAS \in Addr
        OBVIOUS
      <4>1. ret[t] - BIAS \in Linked
        BY <1>9, LinkedDef DEF Unlock
      <4> QED
        BY <4>1 DEF IInv, InHeap
    <3> QED
      BY <1>9, <3>1 DEF Unlock, IInv, TypeOK
  <2> QED
    BY <1>9, <2>1 DEF Unlock, Goto, IInv, TypeOK, node
<1> QED
  BY <1>1, <1>2, <1>3, <1>4, <1>5, <1>6, <1>7, <1>8, <1>9 DEF Next

-----------------------------------------------------------------------------
(* Steps: who holds the lock, who has a block *)

LEMMA LockStep ==
  ASSUME TypeOK, LockInv, [Next]_vars
  PROVE  LockInv'
<1> USE NullAssumption
<1>1. CASE UNCHANGED vars
  BY <1>1 DEF vars, LockInv
<1>2. ASSUME NEW t \in Threads, (\E n \in Sizes : AllocCall(t, n)) \/ AllocLock(t) PROVE LockInv'
  BY <1>2 DEF AllocCall, AllocLock, Acquire, Goto, TypeOK, LockInv
<1>3. ASSUME NEW t \in Threads, VisitFits(t) \/ VisitNext(t) \/ VisitEnd(t) PROVE LockInv'
  BY <1>3 DEF VisitFits, VisitNext, VisitEnd, Goto, TypeOK, LockInv
<1>4. ASSUME NEW t \in Threads, (\E n \in owned : FreeCall(t, n)) \/ FreeLock(t) PROVE LockInv'
  BY <1>4 DEF FreeCall, FreeLock, Acquire, Goto, TypeOK, LockInv
<1>5. ASSUME NEW t \in Threads, Unlock(t) PROVE LockInv'
  BY <1>5 DEF Unlock, Goto, TypeOK, LockInv
<1> QED
  BY <1>1, <1>2, <1>3, <1>4, <1>5 DEF Next

(* Steps that do not hand a block over from one owner to another. *)
LEMMA SameOwners ==
  ASSUME TypeOK, OneOwner, NEW t \in Threads,
         UNCHANGED <<owned, ret>>,
         \E q \in PCs \ {"free", "unlock"} : pc' = [pc EXCEPT ![t] = q],
         \A u \in Threads : u # t => p'[u] = p[u],
         pc[t] \notin {"free", "unlock"}
  PROVE  OneOwner' /\ Linked' = Linked
<1>1. \A u \in Threads : /\ pc'[u] \in {"free", "unlock"} <=> pc[u] \in {"free", "unlock"}
                         /\ pc[u] \in {"free", "unlock"} => pc'[u] = pc[u] /\ p'[u] = p[u]
  BY DEF TypeOK, PCs
<1>2. OneOwner'
  BY <1>1 DEF OneOwner
<1>3. Linked' = Linked
  <2>1. \A u \in Threads : (pc'[u] = "free" <=> pc[u] = "free") /\ (pc'[u] = "unlock" <=> pc[u] = "unlock")
    BY <1>1
  <2> QED
    BY <1>1, <2>1 DEF Linked
<1> QED
  BY <1>2, <1>3

LEMMA OwnerCalls ==
  ASSUME TypeOK, OneOwner, NEW t \in Threads,
         \/ \E n \in Sizes : AllocCall(t, n)
         \/ AllocLock(t)
         \/ VisitNext(t)
  PROVE  OneOwner' /\ Linked' = Linked /\ UNCHANGED node
<1>1. CASE \E n \in Sizes : AllocCall(t, n)
  BY <1>1, SameOwners DEF AllocCall, Goto, PCs
<1>2. CASE AllocLock(t)
  BY <1>2, SameOwners DEF AllocLock, Goto, PCs, TypeOK
<1>3. CASE VisitNext(t)
  <2>1. pc' = [pc EXCEPT ![t] = "visit"]
    BY <1>3 DEF VisitNext, TypeOK
  <2> QED
    BY <1>3, <2>1, SameOwners DEF VisitNext, PCs, TypeOK
<1> QED
  BY <1>1, <1>2, <1>3

(* A block of the list goes from its holder to kfree. *)
LEMMA OwnerFreeCall ==
  ASSUME TypeOK, OneOwner, NEW t \in Threads, NEW n \in owned, FreeCall(t, n)
  PROVE  OneOwner' /\ Linked' = Linked
<1>1. /\ pc[t] = "idle" /\ pc' = [pc EXCEPT ![t] = "free"] /\ p' = [p EXCEPT ![t] = n]
      /\ owned' = owned \ {n} /\ UNCHANGED ret
  BY DEF FreeCall, Goto
<1>2. OneOwner'
  BY <1>1 DEF TypeOK, OneOwner
<1>3. Linked' = Linked
  <2>1. \A u \in Threads : /\ pc'[u] = "free" <=> (u = t \/ pc[u] = "free")
                           /\ pc'[u] = "unlock" <=> pc[u] = "unlock"
                           /\ p'[u] = IF u = t THEN n ELSE p[u]
    BY <1>1 DEF TypeOK
  <2>2. \A m : m \in Linked' <=> m \in Linked
    BY <1>1, <2>1 DEF Linked
  <2> QED
    BY <2>2
<1> QED
  BY <1>2, <1>3

(* A block of the list reaches the caller of kalloc. *)
LEMMA OwnerUnlock ==
  ASSUME TypeOK, OneOwner, LockInv, NEW t \in Threads, Unlock(t)
  PROVE  OneOwner' /\ Linked' = Linked
<1>1. /\ pc[t] = "unlock" /\ pc' = [pc EXCEPT ![t] = "idle"]
      /\ owned' = owned \cup {ret[t] - BIAS : x \in {ret[t]} \ {NULL}}
      /\ ret' = [ret EXCEPT ![t] = NULL] /\ p' = [p EXCEPT ![t] = head]
  BY DEF Unlock, Goto
<1>2. \A u \in Threads : pc[u] = "unlock" => u = t
  BY <1>1 DEF LockInv
<1>3. \A u \in Threads : /\ pc'[u] = "free" <=> pc[u] = "free"
                         /\ pc'[u] # "unlock"
                         /\ ret'[u] = NULL
                         /\ u # t => p'[u] = p[u]
                         /\ pc[u] = "free" => u # t
  BY <1>1, <1>2 DEF TypeOK, OneOwner
<1>4. \A m : m \in owned' <=> m \in owned \/ (ret[t] # NULL /\ m = ret[t] - BIAS)
  BY <1>1
<1>5. OneOwner'
  BY <1>1, <1>3, <1>4 DEF OneOwner
<1>6. \A m : m \in Linked' <=> m \in Linked
  BY <1>1, <1>2, <1>3, <1>4 DEF Linked
<1> QED
  BY <1>5, <1>6

(* The end of the walk: nothing found. *)
LEMMA OwnerVisitEnd ==
  ASSUME TypeOK, OneOwner, NEW t \in Threads, VisitEnd(t)
  PROVE  OneOwner' /\ Linked' = Linked
<1>1. /\ pc[t] = "visit" /\ pc' = [pc EXCEPT ![t] = "unlock"] /\ UNCHANGED <<owned, ret, p>>
  BY DEF VisitEnd, Goto
<1>2. ret[t] = NULL
  BY <1>1 DEF OneOwner
<1>3. \A u \in Threads : /\ pc'[u] = "free" <=> pc[u] = "free"
                         /\ pc'[u] = "unlock" <=> (u = t \/ pc[u] = "unlock")
  BY <1>1 DEF TypeOK
<1>4. OneOwner'
  BY <1>1, <1>2, <1>3 DEF OneOwner
<1>5. \A m : m \in Linked' <=> m \in Linked
  BY <1>1, <1>2, <1>3 DEF Linked
<1> QED
  BY <1>4, <1>5

(* kfree takes its block out. *)
LEMMA OwnerFreeLock ==
  ASSUME TypeOK, OneOwner, LockInv, NEW t \in Threads, FreeLock(t)
  PROVE  /\ OneOwner' /\ Linked' = Linked \ {p[t]} /\ p[t] \in Linked
         /\ \A u \in Threads : pc[u] \notin {"visit", "unlock"}
<1>1. /\ pc[t] = "free" /\ pc' = [pc EXCEPT ![t] = "unlock"]
      /\ UNCHANGED <<owned, ret, p>> /\ alloc_lock = NULL
  BY DEF FreeLock, Goto, Acquire
<1>2. \A u \in Threads : pc[u] \notin {"visit", "unlock"}
  BY <1>1, NullAssumption DEF LockInv
<1>3. ret[t] = NULL
  BY <1>2 DEF OneOwner
<1>4. \A u \in Threads : /\ pc'[u] = "free" <=> (u # t /\ pc[u] = "free")
                         /\ pc'[u] = "unlock" <=> u = t
  BY <1>1, <1>2 DEF TypeOK
<1>5. OneOwner'
  BY <1>1, <1>3, <1>4 DEF OneOwner
<1>6. \A u \in Threads : u # t /\ pc[u] = "free" => p[u] # p[t]
  BY <1>1 DEF OneOwner
<1>7. p[t] \notin owned
  BY <1>1 DEF OneOwner
<1>8. \A m : m \in Linked' <=> m \in Linked /\ m # p[t]
  BY <1>1, <1>2, <1>3, <1>4, <1>6, <1>7 DEF Linked
<1>9. p[t] \in Linked
  BY <1>1 DEF Linked
<1> QED
  BY <1>2, <1>5, <1>8, <1>9

(* kalloc puts in a new one. *)
LEMMA OwnerVisitFits ==
  ASSUME TypeOK, OneOwner, LockInv, NEW t \in Threads, VisitFits(t), end[p[t]] \notin Linked,
         end[p[t]] \in Int
  PROVE  /\ OneOwner' /\ Linked' = Linked \cup {end[p[t]]}
         /\ \A u \in Threads : u # t => pc[u] \notin {"visit", "unlock"}
<1> DEFINE tmp == end[p[t]]
<1>1. /\ pc[t] = "visit" /\ pc' = [pc EXCEPT ![t] = "unlock"]
      /\ UNCHANGED <<owned, p>> /\ ret' = [ret EXCEPT ![t] = tmp + BIAS]
  BY DEF VisitFits, Goto
<1>2. \A u \in Threads : u # t => pc[u] \notin {"visit", "unlock"}
  BY <1>1 DEF LockInv
<1>3. /\ ret'[t] # NULL /\ ret'[t] - BIAS = tmp
      /\ \A u \in Threads : u # t => ret'[u] = ret[u]
  BY <1>1, HeadTail, NullAssumption DEF TypeOK
<1>4. \A u \in Threads : /\ pc'[u] = "free" <=> pc[u] = "free"
                         /\ pc'[u] = "unlock" <=> u = t
  BY <1>1, <1>2 DEF TypeOK
<1>5. tmp \notin owned /\ \A u \in Threads : pc[u] = "free" => p[u] # tmp
  BY LinkedDef
<1> HIDE DEF tmp
<1>6. OneOwner'
  BY <1>1, <1>3, <1>4, <1>5 DEF OneOwner
<1>7. \A m : m \in Linked' <=> m \in Linked \/ m = tmp
  BY <1>1, <1>2, <1>3, <1>4 DEF Linked
<1> QED
  BY <1>2, <1>6, <1>7 DEF tmp

-----------------------------------------------------------------------------
(* Steps: the list *)

(* The node that kalloc puts in: in a gap. *)
LEMMA NewNode ==
  ASSUME IInv, NEW t \in Threads, VisitFits(t)
  PROVE  /\ p[t] \in Nodes \ {tail} /\ p[t] < end[p[t]]
         /\ end[p[t]] \in Addr /\ end[p[t]] \in Int /\ end[p[t]] \notin Nodes
         /\ size[t] \in Nat /\ end[p[t]] + size[t] + BIAS <= next[p[t]]
<1>1. /\ p[t] \in Nodes \ {tail}
      /\ next[p[t]] - end[p[t]] >= size[t] + BIAS
  BY DEF VisitFits, Fits, IInv, Walk
<1>2. /\ next[p[t]] \in Nodes /\ \A m \in Nodes : ~(p[t] < m /\ m < next[p[t]])
  BY <1>1 DEF IInv, Forwards
<1>3. p[t] \in Int /\ p[t] >= 0 /\ end[p[t]] \in Int /\ p[t] + BIAS <= end[p[t]]
  BY <1>1, NodeTypes, HeadTail DEF IInv
<1>4. next[p[t]] \in Int /\ next[p[t]] <= tail
  BY <1>2, NodeTypes DEF IInv
<1>5. size[t] \in Nat
  BY HeadTail DEF IInv, TypeOK
<1>6. end[p[t]] + size[t] + BIAS <= next[p[t]]
  BY <1>1, <1>3, <1>4, <1>5, HeadTail
<1>7. p[t] < end[p[t]] /\ end[p[t]] < next[p[t]]
  BY <1>3, <1>4, <1>5, <1>6, HeadTail
<1>8. end[p[t]] \notin Nodes
  BY <1>2, <1>7
<1>9. end[p[t]] \in Addr
  BY <1>3, <1>4, <1>7, HeadTail DEF Addr
<1> QED
  BY <1>1, <1>3, <1>5, <1>6, <1>7, <1>8, <1>9

LEMMA AddList ==
  ASSUME IInv, NEW t \in Threads, VisitFits(t), Linked' = Linked \cup {end[p[t]]}
  PROVE  InHeap' /\ Forwards' /\ Backwards'
<1> DEFINE q == p[t]
           tmp == end[q]
           b == next[q]
           top == tmp + size[t] + BIAS
<1>1. /\ q \in Nodes \ {tail} /\ q < tmp /\ tmp \in Addr /\ tmp \in Int /\ tmp \notin Nodes
      /\ tmp + BIAS <= top /\ top <= b /\ tmp < b /\ top \in Int
  <2>1. b \in Nodes /\ b \in Int
    BY NewNode, NodeTypes DEF IInv, Forwards
  <2> QED
    BY <2>1, NewNode, HeadTail
<1>2. /\ b \in Nodes /\ b # q /\ q < b /\ pre[b] = q /\ \A m \in Nodes : ~(q < m /\ m < b)
  BY <1>1, NodeTypes DEF IInv, Forwards
<1>3. /\ end' = [end EXCEPT ![tmp] = top]
      /\ pre' = [pre EXCEPT ![tmp] = q, ![b] = tmp]
      /\ next' = [next EXCEPT ![tmp] = b, ![q] = tmp]
  BY DEF VisitFits, AddNode
<1>4. \A n \in Nodes : n \in Addr /\ n \in Int
  BY NodeTypes DEF IInv
<1> HIDE DEF tmp, b, q, top
<1>5. Nodes' = Nodes \cup {tmp}
  BY DEF Nodes, tmp, q
<1>6. /\ end'[tmp] = top /\ \A n \in Nodes : end'[n] = end[n]
      /\ pre'[tmp] = q /\ pre'[b] = tmp /\ \A n \in Nodes : n # b => pre'[n] = pre[n]
      /\ next'[tmp] = b /\ next'[q] = tmp /\ \A n \in Nodes : n # q => next'[n] = next[n]
  BY <1>1, <1>2, <1>3, <1>4 DEF IInv, TypeOK
<1>7. InHeap'
  <2>1. head < tmp /\ tmp < tail
    BY <1>1, <1>2, <1>4, NodeTypes, HeadTail DEF IInv
  <2>2. \A n \in Linked' : n \in Addr /\ head < n /\ n < tail
    BY <1>1, <2>1 DEF IInv, InHeap, tmp, q
  <2>3. \A n \in Nodes' : n + BIAS <= end'[n]
    BY <1>1, <1>5, <1>6 DEF IInv, InHeap
  <2>4. end'[head] = head + BIAS
    BY <1>6 DEF IInv, InHeap, Nodes
  <2> QED
    BY <2>2, <2>3, <2>4 DEF InHeap
<1>8. Forwards'
  <2> SUFFICES ASSUME NEW n \in Nodes' \ {tail}
               PROVE  /\ next'[n] \in Nodes' /\ n < next'[n] /\ end'[n] <= next'[n]
                      /\ \A m \in Nodes' : ~(n < m /\ m < next'[n])
                      /\ pre'[next'[n]] = n
    BY DEF Forwards
  <2>1. CASE n = tmp
    <3>1. ASSUME NEW m \in Nodes' PROVE ~(tmp < m /\ m < b)
      <4>1. CASE m = tmp
        BY <1>1, <4>1
      <4>2. CASE m \in Nodes
        <5>1. m \in Int /\ q \in Int /\ b \in Int /\ ~(q < m /\ m < b)
          BY <1>1, <1>2, <1>4, <4>2
        <5> QED
          BY <1>1, <5>1
      <4> QED
        BY <1>5, <4>1, <4>2
    <3> QED
      BY <1>1, <1>2, <1>5, <1>6, <2>1, <3>1
  <2>2. CASE n = q
    <3>1. ASSUME NEW m \in Nodes' PROVE ~(q < m /\ m < tmp)
      <4>1. CASE m = tmp
        BY <1>1, <4>1
      <4>2. CASE m \in Nodes
        <5>1. m \in Int /\ q \in Int /\ b \in Int /\ ~(q < m /\ m < b)
          BY <1>1, <1>2, <1>4, <4>2
        <5> QED
          BY <1>1, <5>1
      <4> QED
        BY <1>5, <4>1, <4>2
    <3>2. end[q] = tmp
      BY DEF tmp
    <3> QED
      BY <1>1, <1>2, <1>5, <1>6, <2>2, <3>1, <3>2
  <2>3. CASE n # tmp /\ n # q
    <3>1. n \in Nodes \ {tail} /\ next'[n] = next[n] /\ end'[n] = end[n]
      BY <1>5, <1>6, <2>3
    <3>2. /\ next[n] \in Nodes /\ n < next[n] /\ end[n] <= next[n]
          /\ \A m \in Nodes : ~(n < m /\ m < next[n])
          /\ pre[next[n]] = n
      BY <3>1 DEF IInv, Forwards
    <3>3. next[n] # b
      BY <1>2, <2>3, <3>2
    <3>4. ~(n < tmp /\ tmp < next[n])
      <4>1. n \in Int /\ q \in Int /\ b \in Int /\ next[n] \in Int
        BY <1>1, <1>2, <1>4, <3>1, <3>2
      <4>2. ~(n < q /\ q < next[n]) /\ ~(q < n /\ n < b)
        BY <1>1, <1>2, <3>1, <3>2
      <4>3. ~(n < b /\ b < next[n])
        BY <1>2, <3>2
      <4>4. next[n] # q \/ n < q
        BY <3>2
      <4> QED
        BY <1>1, <1>2, <2>3, <3>3, <4>1, <4>2, <4>3, <4>4
    <3> QED
      BY <1>5, <1>6, <3>1, <3>2, <3>3, <3>4
  <2> QED
    BY <2>1, <2>2, <2>3
<1>9. Backwards'
  <2> SUFFICES ASSUME NEW n \in Nodes' \ {head}
               PROVE  pre'[n] \in Nodes' \ {tail} /\ next'[pre'[n]] = n
    BY DEF Backwards
  <2>1. CASE n = tmp
    BY <1>1, <1>5, <1>6, <2>1
  <2>2. CASE n = b
    <3>1. tmp # tail
      BY <1>1, HeadTail DEF Nodes
    <3> QED
      BY <1>5, <1>6, <2>2, <3>1
  <2>3. CASE n # tmp /\ n # b
    <3>1. n \in Nodes \ {head} /\ pre'[n] = pre[n]
      BY <1>5, <1>6, <2>3
    <3>2. pre[n] \in Nodes \ {tail} /\ next[pre[n]] = n
      BY <3>1 DEF IInv, Backwards
    <3>3. pre[n] # q
      BY <2>3, <3>2 DEF b
    <3> QED
      BY <1>5, <1>6, <3>1, <3>2, <3>3
  <2> QED
    BY <2>1, <2>2, <2>3
<1> QED
  BY <1>7, <1>8, <1>9

LEMMA DeleteList ==
  ASSUME IInv, NEW t \in Threads, FreeLock(t), p[t] \in Linked, Linked' = Linked \ {p[t]}
  PROVE  InHeap' /\ Forwards' /\ Backwards'
<1> DEFINE q == p[t]
           a == pre[q]
           b == next[q]
<1>1. q \in Nodes /\ q # head /\ q # tail
  BY HeadTail DEF IInv, InHeap, Nodes
<1>2. /\ b \in Nodes /\ q < b /\ pre[b] = q /\ \A m \in Nodes : ~(q < m /\ m < b)
      /\ a \in Nodes \ {tail} /\ next[a] = q
  BY <1>1 DEF IInv, Forwards, Backwards
<1>3. a < q /\ end[a] <= q /\ \A m \in Nodes : ~(a < m /\ m < q)
  BY <1>2 DEF IInv, Forwards
<1>4. \A n \in Nodes : n \in Addr /\ n \in Int /\ end[n] \in Int
  BY NodeTypes DEF IInv
<1>5. /\ end' = end
      /\ pre' = [pre EXCEPT ![b] = a]
      /\ next' = [next EXCEPT ![a] = b]
  BY DEF FreeLock, DeleteNode
<1> HIDE DEF q, a, b
<1>6. Nodes' = Nodes \ {q}
  <2>1. Linked' = Linked \ {q}
    BY DEF q
  <2> QED
    BY <1>1, <2>1 DEF Nodes
<1>7. /\ pre'[b] = a /\ \A n \in Nodes : n # b => pre'[n] = pre[n]
      /\ next'[a] = b /\ \A n \in Nodes : n # a => next'[n] = next[n]
      /\ a # q /\ b # q /\ a < b
  BY <1>1, <1>2, <1>3, <1>4, <1>5 DEF IInv, TypeOK
<1>8. InHeap'
  BY <1>5, <1>6 DEF IInv, InHeap, q
<1>9. Forwards'
  <2> SUFFICES ASSUME NEW n \in Nodes' \ {tail}
               PROVE  /\ next'[n] \in Nodes' /\ n < next'[n] /\ end'[n] <= next'[n]
                      /\ \A m \in Nodes' : ~(n < m /\ m < next'[n])
                      /\ pre'[next'[n]] = n
    BY DEF Forwards
  <2>1. CASE n = a
    <3>1. ASSUME NEW m \in Nodes' PROVE ~(a < m /\ m < b)
      <4>1. m \in Nodes /\ m # q /\ m \in Int /\ a \in Int /\ b \in Int /\ q \in Int
        BY <1>1, <1>2, <1>4, <1>6
      <4>2. ~(a < m /\ m < q) /\ ~(q < m /\ m < b)
        BY <1>2, <1>3, <4>1
      <4> QED
        BY <4>1, <4>2
    <3>2. end'[a] <= b
      <4>1. end[a] \in Int /\ q \in Int /\ b \in Int
        BY <1>1, <1>2, <1>4
      <4> QED
        BY <1>2, <1>3, <1>5, <4>1
    <3> QED
      BY <1>2, <1>6, <1>7, <2>1, <3>1, <3>2
  <2>2. CASE n # a
    <3>1. n \in Nodes \ {tail} /\ n # q /\ next'[n] = next[n] /\ end'[n] = end[n]
      BY <1>5, <1>6, <1>7, <2>2
    <3>2. /\ next[n] \in Nodes /\ n < next[n] /\ end[n] <= next[n]
          /\ \A m \in Nodes : ~(n < m /\ m < next[n])
          /\ pre[next[n]] = n
      BY <3>1 DEF IInv, Forwards
    <3>3. next[n] # q /\ next[n] # b
      BY <1>2, <2>2, <3>1, <3>2 DEF a
    <3> QED
      BY <1>6, <1>7, <3>1, <3>2, <3>3
  <2> QED
    BY <2>1, <2>2
<1>10. Backwards'
  <2> SUFFICES ASSUME NEW n \in Nodes' \ {head}
               PROVE  pre'[n] \in Nodes' \ {tail} /\ next'[pre'[n]] = n
    BY DEF Backwards
  <2>1. CASE n = b
    BY <1>2, <1>6, <1>7, <2>1
  <2>2. CASE n # b
    <3>1. n \in Nodes \ {head} /\ n # q /\ pre'[n] = pre[n]
      BY <1>6, <1>7, <2>2
    <3>2. pre[n] \in Nodes \ {tail} /\ next[pre[n]] = n
      BY <3>1 DEF IInv, Backwards
    <3>3. pre[n] # q /\ pre[n] # a
      BY <1>2, <2>2, <3>1, <3>2 DEF b
    <3> QED
      BY <1>6, <1>7, <3>1, <3>2, <3>3
  <2> QED
    BY <2>1, <2>2
<1> QED
  BY <1>8, <1>9, <1>10

-----------------------------------------------------------------------------
(* Steps: the walk *)

LEMMA IInvStep == IInv /\ [Next]_vars => IInv'
<1> SUFFICES ASSUME IInv, [Next]_vars PROVE IInv'
  OBVIOUS
<1>1. TypeOK' /\ LockInv'
  BY TypeStep, LockStep DEF IInv
<1>2. CASE UNCHANGED vars
  <2>1. UNCHANGED node /\ Linked' = Linked
    BY <1>2 DEF vars, Linked
  <2>2. OneOwner'
    BY <1>2 DEF vars, IInv, OneOwner
  <2>3. Walk'
    BY <1>2, <2>1, SameNodes, SameBlocks DEF vars, IInv, Walk, Promise!Room
  <2> QED
    BY <1>1, <2>1, <2>2, <2>3, SameNodes DEF IInv
<1>3. ASSUME NEW t \in Threads, (\E n \in Sizes : AllocCall(t, n)) \/ AllocLock(t) \/ VisitNext(t)
      PROVE  IInv'
  <2>1. OneOwner' /\ Linked' = Linked /\ UNCHANGED node
    BY <1>3, OwnerCalls DEF IInv
  <2>2. InHeap' /\ Forwards' /\ Backwards' /\ Nodes' = Nodes
    BY <2>1, SameNodes DEF IInv
  <2>3. ASSUME NEW u \in Threads, pc'[u] = "visit"
        PROVE  p'[u] \in Nodes' /\ \A a \in Addr : Promise!Room(a, a + size[u] + BIAS)' => p'[u] <= a
    <3>1. CASE u # t
      <4>1. pc[u] = "visit" /\ p'[u] = p[u] /\ size'[u] = size[u]
        BY <1>3, <2>3, <3>1 DEF AllocCall, AllocLock, VisitNext, Goto, IInv, TypeOK
      <4> QED
        BY <2>1, <2>2, <4>1, SameBlocks DEF IInv, Walk, Promise!Room
    <3>2. CASE u = t
      <4>1. CASE AllocLock(t)
        BY <2>2, <3>2, <4>1, HeadTail DEF AllocLock, IInv, TypeOK, Nodes, Addr
      <4>2. CASE VisitNext(t)
        <5>1. p'[t] = next[p[t]] /\ size' = size
          BY <4>2 DEF VisitNext, Following, IInv, TypeOK
        <5>2. next[p[t]] \in Nodes
          BY <4>2 DEF VisitNext, IInv, Walk, Forwards
        <5>3. \A a \in Addr : Promise!Room(a, a + size[t] + BIAS) => next[p[t]] <= a
          BY <4>2, NoRoomHere
        <5>4. Blocks' = Blocks
          BY <2>1, SameBlocks
        <5> QED
          BY <2>1, <2>2, <3>2, <5>1, <5>2, <5>3, <5>4 DEF Promise!Room
      <4>3. CASE \E n \in Sizes : AllocCall(t, n)
        BY <2>3, <3>2, <4>3 DEF AllocCall, Goto, IInv, TypeOK
      <4> QED
        BY <1>3, <4>1, <4>2, <4>3
    <3> QED
      BY <3>1, <3>2
  <2> QED
    BY <1>1, <2>1, <2>2, <2>3 DEF IInv, Walk
<1>4. ASSUME NEW t \in Threads, OneOwner', Linked' = Linked, UNCHANGED node,
             \A u \in Threads : pc'[u] = "visit" => pc[u] = "visit" /\ p'[u] = p[u] /\ size'[u] = size[u]
      PROVE  IInv'
  <2>1. InHeap' /\ Forwards' /\ Backwards' /\ Nodes' = Nodes
    BY <1>4, SameNodes DEF IInv
  <2>2. Walk'
    BY <1>4, <2>1, SameBlocks DEF IInv, Walk, Promise!Room
  <2> QED
    BY <1>1, <1>4, <2>1, <2>2 DEF IInv
<1>5. ASSUME NEW t \in Threads, VisitEnd(t) PROVE IInv'
  BY <1>4, <1>5, OwnerVisitEnd DEF VisitEnd, Goto, IInv, TypeOK
<1>6. ASSUME NEW t \in Threads, NEW n \in owned, FreeCall(t, n) PROVE IInv'
  BY <1>4, <1>6, OwnerFreeCall DEF FreeCall, Goto, IInv, TypeOK
<1>7. ASSUME NEW t \in Threads, Unlock(t) PROVE IInv'
  BY <1>4, <1>7, OwnerUnlock DEF Unlock, Goto, IInv, TypeOK
<1>8. ASSUME NEW t \in Threads, VisitFits(t) PROVE IInv'
  <2>1. /\ OneOwner' /\ Linked' = Linked \cup {end[p[t]]}
        /\ \A u \in Threads : u # t => pc[u] \notin {"visit", "unlock"}
    BY <1>8, NewNode, OwnerVisitFits DEF IInv, Nodes
  <2>2. InHeap' /\ Forwards' /\ Backwards'
    BY <1>8, <2>1, AddList
  <2>3. \A u \in Threads : pc'[u] # "visit"
    BY <1>8, <2>1 DEF VisitFits, Goto, IInv, TypeOK
  <2> QED
    BY <1>1, <2>1, <2>2, <2>3 DEF IInv, Walk
<1>9. ASSUME NEW t \in Threads, FreeLock(t) PROVE IInv'
  <2>1. /\ OneOwner' /\ Linked' = Linked \ {p[t]} /\ p[t] \in Linked
        /\ \A u \in Threads : pc[u] \notin {"visit", "unlock"}
    BY <1>9, OwnerFreeLock DEF IInv
  <2>2. InHeap' /\ Forwards' /\ Backwards'
    BY <1>9, <2>1, DeleteList
  <2>3. \A u \in Threads : pc'[u] # "visit"
    BY <1>9, <2>1 DEF FreeLock, Goto, IInv, TypeOK
  <2> QED
    BY <1>1, <2>1, <2>2, <2>3 DEF IInv, Walk
<1> QED
  BY <1>2, <1>3, <1>5, <1>6, <1>7, <1>8, <1>9 DEF Next

-----------------------------------------------------------------------------
(* Theorems *)

THEOREM Invariant == Spec => []IInv
  BY InitIInv, IInvStep, PTL DEF Spec

(* Every variable keeps its type: among them, the walk never leaves the heap. *)
THEOREM TypeCorrect == Spec => []TypeOK
  BY Invariant, PTL DEF IInv

(* What kalloc hands out overlaps nothing that was handed out before, whatever
   calls of kfree come in between. *)
THEOREM NoOverlap == Spec => []BlocksApart
<1>1. IInv => BlocksApart
  <2> SUFFICES ASSUME IInv PROVE BlocksApart
    OBVIOUS
  <2>1. \A n \in Linked : n \in Nodes /\ head < n /\ n < tail /\ n \in Int
    BY NodeTypes DEF IInv, InHeap, Nodes
  <2>2. \A m, n \in Linked : m < n => end[m] <= n
    BY <2>1, Ordered DEF IInv
  <2>3. \A n \in Linked : head + BIAS <= n /\ end[n] <= tail
    <3> TAKE n \in Linked
    <3>1. end[head] <= n /\ end[n] <= tail
      BY <2>1, Ordered DEF IInv, Nodes
    <3> QED
      BY <3>1 DEF IInv, InHeap
  <2> QED
    BY <2>2, <2>3 DEF BlocksApart
<1> QED
  BY <1>1, Invariant, PTL

(* The list of kalloc and kfree is whole in both directions: the assertion
   p->next->pre == p holds of every node of it. *)
THEOREM ListWhole == Spec => []ListIntact
<1>1. IInv => ListIntact
  BY DEF IInv, Forwards, ListIntact
<1> QED
  BY <1>1, Invariant, PTL

-----------------------------------------------------------------------------
(* Every step is one of PmmAbs or changes nothing the callers see. *)

Seen == <<Blocks, Call>>

LEMMA InitSeen == Init => Promise!Init
  BY DEF Init, Promise!Init, Promise!Idle, Blocks, Linked, Call, CallOf

(* The other threads' calls stay as they are. *)
LEMMA CallSeen ==
  ASSUME TypeOK, NEW t \in Threads,
         \A u \in Threads \ {t} : /\ pc'[u] = pc[u] /\ size'[u] = size[u]
                                 /\ p'[u] = p[u] /\ ret'[u] = ret[u]
  PROVE  Call' = [Call EXCEPT ![t] = Call'[t]]
<1>1. \A u \in Threads \ {t} : Call'[u] = Call[u]
  BY DEF Call, CallOf
<1> QED
  BY <1>1 DEF Call

LEMMA AllocSeen ==
  ASSUME IInv, NEW t \in Threads, NEW n \in Sizes, AllocCall(t, n)
  PROVE  Promise!Ask(t, n)
<1>1. Linked' = Linked /\ UNCHANGED node
  BY OwnerCalls DEF IInv
<1>2. Blocks' = Blocks
  BY <1>1 DEF Blocks, node
<1>3. Call' = [Call EXCEPT ![t] = Call'[t]]
  BY CallSeen DEF AllocCall, Goto, IInv, TypeOK
<1>4. Call[t] = Promise!Idle
  BY DEF AllocCall, Call, CallOf, Promise!Idle
<1>5. Call'[t] = [op |-> "alloc", arg |-> n]
  BY DEF AllocCall, Goto, Call, CallOf, IInv, TypeOK
<1> QED
  BY <1>2, <1>3, <1>4, <1>5 DEF Promise!Ask

LEMMA FitsSeen ==
  ASSUME IInv, NEW t \in Threads, VisitFits(t)
  PROVE  Promise!Give(t, end[p[t]])
<1> DEFINE q == p[t]
           a == end[q]
           b == next[q]
           k == size[t] + BIAS
<1>1. /\ q \in Nodes \ {tail} /\ q < a /\ a \in Addr /\ a \in Int /\ a \notin Nodes
      /\ size[t] \in Nat /\ a + k <= b /\ k \in Int /\ k > 0 /\ a + size[t] + BIAS = a + k
  BY NewNode, HeadTail
<1>2. /\ b \in Nodes /\ b \in Int /\ b <= tail /\ q \in Int /\ BIAS <= a
      /\ \A m \in Nodes : ~(q < m /\ m < b)
  <2>1. b \in Nodes /\ \A m \in Nodes : ~(q < m /\ m < b)
    BY <1>1 DEF IInv, Forwards
  <2>2. b \in Int /\ b <= tail /\ q \in Int /\ 0 <= q /\ q + BIAS <= a
    BY <1>1, <2>1, NodeTypes, HeadTail DEF IInv
  <2> QED
    BY <1>1, <2>1, <2>2, HeadTail
<1>3. Linked' = Linked \cup {a}
  BY <1>1, OwnerVisitFits DEF IInv, Nodes
<1>4. /\ end' = [end EXCEPT ![a] = a + size[t] + BIAS] /\ pc[t] = "visit"
      /\ ret' = [ret EXCEPT ![t] = a + BIAS] /\ pc' = [pc EXCEPT ![t] = "unlock"]
      /\ UNCHANGED <<p, size>>
  BY DEF VisitFits, AddNode, Goto
<1>5. Promise!Room(a, a + k)
  <2>1. ASSUME NEW n \in Linked PROVE ~(a < end[n] /\ n < a + k)
    <3>1. n \in Nodes /\ n \in Int /\ end[n] \in Int
      BY NodeTypes DEF IInv, Nodes
    <3>2. CASE n = q
      BY <1>1, <3>2
    <3>3. CASE n < q
      <4>1. end[n] <= q
        BY <1>1, <3>1, <3>3, Ordered DEF IInv
      <4> QED
        BY <1>1, <1>2, <3>1, <4>1
    <3>4. CASE q < n
      <4>1. ~(n < b)
        BY <1>2, <3>1, <3>4
      <4> QED
        BY <1>1, <1>2, <3>1, <4>1
    <3> QED
      BY <1>2, <3>1, <3>2, <3>3, <3>4
  <2>2. \A x \in Blocks : ~Promise!Overlap(a, a + k, x.start, x.end)
    BY <2>1 DEF Blocks, Promise!Overlap
  <2>3. a + k <= PMEnd - BIAS
    BY <1>1, <1>2, HeadTail DEF tail
  <2> QED
    BY <1>2, <2>2, <2>3 DEF Promise!Room
<1>6. ASSUME NEW c \in Addr, Promise!Room(c, c + size[t] + BIAS) PROVE a <= c
  <2>1. q <= c /\ c \in Int /\ BIAS <= c
    BY <1>4, <1>6 DEF IInv, Walk, Promise!Room, Addr
  <2>2. CASE q \in Linked
    <3>1. [start |-> q, end |-> a] \in Blocks
      BY <2>2 DEF Blocks
    <3>2. ~Promise!Overlap(c, c + size[t] + BIAS, q, a)
      BY <1>6, <3>1 DEF Promise!Room
    <3> QED
      BY <1>1, <1>2, <2>1, <3>2, HeadTail DEF Promise!Overlap
  <2>3. CASE q = head
    BY <2>1, <2>3, HeadTail DEF IInv, InHeap
  <2> QED
    BY <1>1, <2>2, <2>3 DEF Nodes
<1>7. Blocks' = Blocks \cup {[start |-> a, end |-> a + size[t] + BIAS]}
  <2>1. end'[a] = a + size[t] + BIAS /\ \A n \in Linked : end'[n] = end[n]
    BY <1>1, <1>4 DEF IInv, TypeOK, Nodes, InHeap
  <2>2. Blocks' = {[start |-> n, end |-> end'[n]] : n \in Linked \cup {a}}
    BY <1>3 DEF Blocks
  <2> QED
    BY <2>1, <2>2 DEF Blocks
<1>8. Call' = [Call EXCEPT ![t] = Call'[t]]
  BY <1>4, CallSeen DEF IInv, TypeOK
<1>9. Call[t] = [op |-> "alloc", arg |-> size[t]]
  BY <1>4 DEF Call, CallOf
<1>10. Call'[t] = [op |-> "return", arg |-> a + BIAS]
  BY <1>4 DEF Call, CallOf, IInv, TypeOK
<1> QED
  BY <1>1, <1>5, <1>6, <1>7, <1>8, <1>9, <1>10 DEF Promise!Give, Addr

(* kalloc gives up at the tail: what room there was would begin there. *)
LEMMA EndSeen ==
  ASSUME IInv, NEW t \in Threads, VisitEnd(t)
  PROVE  Promise!Refuse(t)
<1>1. Linked' = Linked /\ UNCHANGED node
  BY OwnerVisitEnd DEF IInv, VisitEnd
<1>2. Blocks' = Blocks
  BY <1>1, SameBlocks
<1>3. pc[t] = "visit" /\ pc' = [pc EXCEPT ![t] = "unlock"] /\ UNCHANGED <<size, p, ret>>
  BY DEF VisitEnd, Goto
<1>4. Call' = [Call EXCEPT ![t] = Call'[t]]
  BY <1>3, CallSeen DEF IInv, TypeOK
<1>5. Call[t] = [op |-> "alloc", arg |-> size[t]]
  BY <1>3 DEF Call, CallOf
<1>6. Call'[t] = [op |-> "return", arg |-> NULL]
  BY <1>3 DEF Call, CallOf, IInv, TypeOK, OneOwner
<1>7. ASSUME NEW a \in Addr, Promise!Room(a, a + size[t] + BIAS) PROVE FALSE
  <2>1. tail <= a /\ a \in Int /\ tail \in Int /\ size[t] \in Nat
    <3>1. p[t] = tail
      BY DEF VisitEnd
    <3>2. tail <= a
      BY <1>3, <1>7, <3>1 DEF IInv, Walk
    <3>3. size[t] \in Nat
      BY HeadTail DEF IInv, TypeOK
    <3> QED
      BY <3>2, <3>3, HeadTail DEF Addr
  <2>2. a + size[t] + BIAS <= tail
    BY <1>7 DEF Promise!Room, tail
  <2> QED
    BY <2>1, <2>2, HeadTail
<1> QED
  BY <1>2, <1>4, <1>5, <1>6, <1>7 DEF Promise!Refuse, Addr

LEMMA FreeCallSeen ==
  ASSUME IInv, NEW t \in Threads, NEW n \in owned, FreeCall(t, n)
  PROVE  \E x \in Blocks : Promise!Drop(t, x)
<1>1. Linked' = Linked /\ UNCHANGED node
  BY OwnerFreeCall DEF IInv, FreeCall
<1>2. Blocks' = Blocks
  BY <1>1, SameBlocks
<1>3. /\ pc[t] = "idle" /\ pc' = [pc EXCEPT ![t] = "free"]
      /\ p' = [p EXCEPT ![t] = n] /\ UNCHANGED <<size, ret>>
  BY DEF FreeCall, Goto
<1>4. Call' = [Call EXCEPT ![t] = Call'[t]]
  BY <1>3, CallSeen DEF IInv, TypeOK
<1>5. Call[t] = Promise!Idle
  BY <1>3 DEF Call, CallOf, Promise!Idle
<1>6. Call'[t] = [op |-> "free", arg |-> n + BIAS]
  BY <1>3 DEF Call, CallOf, IInv, TypeOK
<1>7. [start |-> n, end |-> end[n]] \in Blocks
  BY DEF Blocks, Linked
<1> WITNESS [start |-> n, end |-> end[n]] \in Blocks
<1> QED
  BY <1>2, <1>4, <1>5, <1>6, <1>7 DEF Promise!Drop

LEMMA FreeSeen ==
  ASSUME IInv, NEW t \in Threads, FreeLock(t)
  PROVE  Promise!Discard(t)
<1>1. Linked' = Linked \ {p[t]} /\ p[t] \in Linked
  BY OwnerFreeLock DEF IInv
<1>2. /\ pc[t] = "free" /\ pc' = [pc EXCEPT ![t] = "unlock"] /\ UNCHANGED <<size, p, ret, end>>
  BY DEF FreeLock, Goto, DeleteNode
<1>3. Blocks' = {x \in Blocks : x.start + BIAS # p[t] + BIAS}
  <2>1. \A n \in Linked : n \in Int
    BY NodeTypes DEF IInv, Nodes
  <2>2. \A n \in Linked : n + BIAS # p[t] + BIAS <=> n # p[t]
    BY <1>1, <2>1, HeadTail
  <2>3. Blocks' = {[start |-> n, end |-> end[n]] : n \in Linked \ {p[t]}}
    BY <1>1, <1>2 DEF Blocks
  <2> QED
    BY <2>2, <2>3 DEF Blocks
<1>4. Call' = [Call EXCEPT ![t] = Call'[t]]
  BY <1>2, CallSeen DEF IInv, TypeOK
<1>5. Call[t] = [op |-> "free", arg |-> p[t] + BIAS]
  BY <1>2 DEF Call, CallOf
<1>6. Call'[t] = [op |-> "return", arg |-> NULL]
  BY <1>2 DEF Call, CallOf, IInv, TypeOK, OneOwner
<1> QED
  BY <1>3, <1>4, <1>5, <1>6 DEF Promise!Discard

LEMMA UnlockSeen ==
  ASSUME IInv, NEW t \in Threads, Unlock(t)
  PROVE  Promise!Return(t)
<1>1. Linked' = Linked /\ UNCHANGED node
  BY OwnerUnlock DEF IInv, Unlock
<1>2. Blocks' = Blocks
  BY <1>1, SameBlocks
<1>3. Call' = [Call EXCEPT ![t] = Call'[t]]
  BY CallSeen DEF Unlock, Goto, IInv, TypeOK
<1>4. Call[t].op = "return"
  BY DEF Unlock, Call, CallOf
<1>5. Call'[t] = Promise!Idle
  BY DEF Unlock, Goto, Call, CallOf, Promise!Idle, IInv, TypeOK
<1> QED
  BY <1>2, <1>3, <1>4, <1>5 DEF Promise!Return

LEMMA StepSeen ==
  ASSUME IInv, [Next]_vars
  PROVE  [Promise!Next]_Seen
<1>1. CASE UNCHANGED vars
  BY <1>1 DEF vars, node, Seen, Blocks, Linked, Call, CallOf
<1>2. ASSUME NEW t \in Threads, AllocLock(t) \/ VisitNext(t) PROVE UNCHANGED Seen
  <2>1. Linked' = Linked /\ UNCHANGED node
    BY <1>2, OwnerCalls DEF IInv
  <2>2. \A u \in Threads : CallOf(u)' = CallOf(u)
    BY <1>2 DEF AllocLock, VisitNext, Goto, CallOf, IInv, TypeOK
  <2> QED
    BY <2>1, <2>2, SameBlocks DEF Seen, Call
<1>3. ASSUME NEW t \in Threads, VisitFits(t) PROVE Promise!Next
  <2>1. end[p[t]] \in 0 .. PMEnd
    BY <1>3, NewNode DEF Addr
  <2> QED
    BY <1>3, <2>1, FitsSeen DEF Promise!Next
<1>4. ASSUME NEW t \in Threads, NEW n \in Sizes, AllocCall(t, n) PROVE Promise!Next
  BY <1>4, AllocSeen DEF Promise!Next
<1>5. ASSUME NEW t \in Threads, VisitEnd(t) \/ FreeLock(t) \/ Unlock(t) PROVE Promise!Next
  BY <1>5, EndSeen, FreeSeen, UnlockSeen DEF Promise!Next
<1>6. ASSUME NEW t \in Threads, NEW n \in owned, FreeCall(t, n) PROVE Promise!Next
  BY <1>6, FreeCallSeen DEF Promise!Next
<1> QED
  BY <1>1, <1>2, <1>3, <1>4, <1>5, <1>6 DEF Next

(* kalloc and kfree implement an allocator whose calls take effect at once, that
   picks the lowest room and refuses only when there is none. *)
THEOREM Implements == Spec => ImplementsAllocator
<1>1. IInv /\ [Next]_vars => [Promise!Next]_Seen
  BY StepSeen
<1> QED
  BY <1>1, InitSeen, Invariant, PTL DEF Spec, ImplementsAllocator, Promise!Spec, Seen

=============================================================================
