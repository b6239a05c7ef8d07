--------------------------- MODULE SpinlockProofs ---------------------------
(***************************************************************************)
(* Proofs about Spinlock for every number of processors, threads and       *)
(* locks.                                                                  *)
(***************************************************************************)
EXTENDS Spinlock, FiniteSetTheorems, TLAPS

(* No two processors are on the same thread's stack. *)
OnApart == \A c, d \in CPUs : c # d => on[c] # on[d]

(* A context that no processor executes was interrupted, or moved away, with
   interrupts on: it holds nothing and has counted nothing. *)
Parked ==
  \A x \in Contexts : (\A c \in CPUs : Cur(c) # x) =>
    /\ held[x] = {}
    /\ pc[x] \in {"idle", "pushcli", "cli"}
    /\ x \in CPUs => pc[x] = "idle"

(* The lock of a call that is under way: not yet held, after those that are; or held. *)
ArgsKnown ==
  \A x \in Contexts :
    /\ pc[x] \in {"pushcli", "cli", "xchg"} =>
         arg[x] \in Locks /\ \A k \in held[x] : k < arg[x]
    /\ pc[x] \in {"owner", "assert", "disown", "release"} => arg[x] \in held[x]

(* A thread that holds nothing reads the flag as set, a handler as clear. *)
FlagsRead ==
  \A x \in Contexts : pc[x] = "cli" /\ held[x] = {} => (flag[x] <=> x \in Threads)

LockWords == \A l \in Locks : locked[l] <=> \E x \in Contexts : l \in held[x]

IntenaSaved == \A c \in CPUs : cpuncli[c] > 0 => (intena[c] <=> ~intrap[c])

SpinInv ==
  /\ TypeOK
  /\ OnApart
  /\ Parked
  /\ ArgsKnown
  /\ FlagsRead
  /\ LockWords
  /\ IntenaSaved
  /\ MutualExclusion
  /\ HolderIsOwner
  /\ NestingExact
  /\ FlagRestored

-----------------------------------------------------------------------------
(* Lemmas *)

(* Locks are counted one by one. *)
LEMMA HeldCount ==
  ASSUME NEW S \in SUBSET Locks
  PROVE  /\ Cardinality(S) \in Nat
         /\ Cardinality(S) = 0 <=> S = {}
         /\ \A l \in Locks \ S : Cardinality(S \cup {l}) = Cardinality(S) + 1
         /\ \A l \in S : Cardinality(S \ {l}) = Cardinality(S) - 1
<1>1. IsFiniteSet(S)
  BY LocksAssumption, FS_Subset
<1>2. QED
  BY <1>1, FS_CardinalityType, FS_EmptySet, FS_AddElement, FS_RemoveElement

(* The order in which locks are nested is strict. *)
LEMMA NestingOrder == \A l \in Locks : ~(l < l)
  BY LocksAssumption

(* Each processor executes a context of its own. *)
LEMMA CurApart ==
  ASSUME TypeOK, OnApart
  PROVE  /\ \A c \in CPUs : Cur(c) \in Contexts
         /\ \A c, d \in CPUs : c # d => Cur(c) # Cur(d)
  BY NamesAssumption DEF TypeOK, OnApart, Cur, Contexts

LEMMA InitSpin == Init => SpinInv
<1> SUFFICES ASSUME Init PROVE SpinInv
  OBVIOUS
<1>1. TypeOK
  BY DEF Init, TypeOK, PCs
<1>2. OnApart /\ Parked /\ ArgsKnown /\ FlagsRead /\ LockWords /\ IntenaSaved
  BY <1>1 DEF Init, OnApart, Parked, ArgsKnown, FlagsRead, LockWords, IntenaSaved, Contexts
<1>3. \A c \in CPUs : Cur(c) \in Contexts
  BY <1>1, <1>2, CurApart
<1>4. MutualExclusion /\ HolderIsOwner /\ FlagRestored
  BY <1>3 DEF Init, MutualExclusion, HolderIsOwner, FlagRestored
<1>5. NestingExact
  BY <1>3, FS_EmptySet DEF Init, NestingExact, InCall
<1>6. QED
  BY <1>1, <1>2, <1>4, <1>5 DEF SpinInv

(* What cpuncli is zero for, and who runs with the processor's interrupts off. *)
LEMMA Depth ==
  ASSUME SpinInv, NEW c \in CPUs
  PROVE  /\ cpuncli[c] = Cardinality(held[Cur(c)]) + InCall(c)
         /\ cpuncli[c] = 0 <=> held[Cur(c)] = {} /\ InCall(c) = 0
         /\ Cur(c) \in Threads <=> ~intrap[c]
<1>1. Cur(c) \in Contexts /\ held[Cur(c)] \subseteq Locks
  BY CurApart DEF SpinInv, TypeOK
<1>2. cpuncli[c] = Cardinality(held[Cur(c)]) + InCall(c)
  BY DEF SpinInv, NestingExact
<1>3. Cardinality(held[Cur(c)]) \in Nat /\ (Cardinality(held[Cur(c)]) = 0 <=> held[Cur(c)] = {})
  BY <1>1, HeldCount
<1>4. cpuncli[c] = 0 <=> held[Cur(c)] = {} /\ InCall(c) = 0
  BY <1>2, <1>3 DEF InCall
<1>5. Cur(c) \in Threads <=> ~intrap[c]
  BY NamesAssumption DEF SpinInv, TypeOK, Cur
<1>6. QED
  BY <1>2, <1>4, <1>5

(* A step that moves no context between processors. *)
Stays == UNCHANGED <<intrap, on>>

LEMMA CurStays ==
  ASSUME Stays
  PROVE  \A c \in CPUs : Cur(c)' = Cur(c)
  BY DEF Stays, Cur

(* Contexts no processor executes are not changed by what processor c does. *)
LEMMA ParkedStays ==
  ASSUME SpinInv, Stays, NEW c \in CPUs,
         \A y \in Contexts : y # Cur(c) => pc'[y] = pc[y] /\ held'[y] = held[y]
  PROVE  OnApart' /\ Parked'
<1>1. OnApart'
  BY DEF SpinInv, OnApart, Stays
<1>2. Parked'
  <2> SUFFICES ASSUME NEW y \in Contexts, \A d \in CPUs : Cur(d)' # y
               PROVE  /\ held'[y] = {}
                      /\ pc'[y] \in {"idle", "pushcli", "cli"}
                      /\ y \in CPUs => pc'[y] = "idle"
    BY DEF Parked
  <2>1. \A d \in CPUs : Cur(d) # y
    BY CurStays
  <2>2. QED
    BY <2>1 DEF SpinInv, Parked
<1>3. QED
  BY <1>1, <1>2

LEMMA CallLockInv ==
  ASSUME SpinInv, NEW c \in CPUs, NEW l \in Locks, CallLock(c, l)
  PROVE  SpinInv'
<1> DEFINE x == Cur(c)
<1>1. /\ x \in Contexts /\ Cur(c) = x
      /\ \A d \in CPUs : Cur(d) \in Contexts /\ (d # c => Cur(d) # x) /\ Cur(d)' = Cur(d)
  BY CurApart, CurStays DEF SpinInv, CallLock, Stays
<1>2. /\ pc[x] = "idle"
      /\ \A k \in held[x] : k < l
      /\ arg' = [arg EXCEPT ![x] = l]
      /\ pc' = [pc EXCEPT ![x] = "pushcli"]
      /\ UNCHANGED <<locked, lkcpu, intr, cpuncli, intena, intrap, on, flag, held>>
  BY DEF CallLock, At, Goto
<1>3. OnApart' /\ Parked'
  BY <1>1, <1>2, ParkedStays DEF SpinInv, TypeOK, Stays
<1> HIDE DEF x
<1> USE <1>1, <1>2 DEF SpinInv
<1>4. TypeOK'
  BY DEF TypeOK, PCs
<1>5. ArgsKnown' /\ FlagsRead'
  BY DEF TypeOK, ArgsKnown, FlagsRead
<1>6. LockWords' /\ MutualExclusion'
  BY DEF TypeOK, LockWords, MutualExclusion, ArgsKnown
<1>7. IntenaSaved' /\ FlagRestored'
  BY DEF TypeOK, IntenaSaved, FlagRestored, NestingExact, InCall
<1>8. HolderIsOwner'
  BY DEF TypeOK, HolderIsOwner, Holding, ArgsKnown, MutualExclusion, LockWords
<1>9. NestingExact'
  BY DEF TypeOK, NestingExact, InCall
<1>10. QED
  BY <1>3, <1>4, <1>5, <1>6, <1>7, <1>8, <1>9

LEMMA PushcliReadInv ==
  ASSUME SpinInv, NEW c \in CPUs, PushcliRead(c)
  PROVE  SpinInv'
<1> DEFINE x == Cur(c)
<1>1. /\ x \in Contexts /\ Cur(c) = x
      /\ \A d \in CPUs : Cur(d) \in Contexts /\ (d # c => Cur(d) # x) /\ Cur(d)' = Cur(d)
  BY CurApart, CurStays DEF SpinInv, PushcliRead, Stays
<1>2. /\ pc[x] = "pushcli"
      /\ flag' = [flag EXCEPT ![x] = intr[c]]
      /\ pc' = [pc EXCEPT ![x] = "cli"]
      /\ UNCHANGED <<locked, lkcpu, intr, cpuncli, intena, intrap, on, arg, held>>
  BY DEF PushcliRead, At, Goto
<1>3. OnApart' /\ Parked'
  BY <1>1, <1>2, ParkedStays DEF SpinInv, TypeOK, Stays
<1>d. /\ cpuncli[c] = Cardinality(held[x]) + InCall(c)
      /\ cpuncli[c] = 0 <=> held[x] = {} /\ InCall(c) = 0
      /\ x \in Threads <=> ~intrap[c]
  BY Depth
<1> HIDE DEF x
<1> USE <1>1, <1>2 DEF SpinInv
<1>4. TypeOK'
  BY DEF TypeOK, PCs
<1>5. ArgsKnown' /\ FlagsRead'
  BY <1>d DEF TypeOK, ArgsKnown, FlagsRead, FlagRestored, InCall
<1>6. LockWords' /\ MutualExclusion'
  BY DEF TypeOK, LockWords, MutualExclusion, ArgsKnown
<1>7. IntenaSaved' /\ FlagRestored'
  BY DEF TypeOK, IntenaSaved, FlagRestored, NestingExact, InCall
<1>8. HolderIsOwner'
  BY DEF TypeOK, HolderIsOwner, Holding, ArgsKnown, MutualExclusion, LockWords
<1>9. NestingExact'
  BY DEF TypeOK, NestingExact, InCall
<1>10. QED
  BY <1>3, <1>4, <1>5, <1>6, <1>7, <1>8, <1>9

LEMMA PushcliCountInv ==
  ASSUME SpinInv, NEW c \in CPUs, PushcliCount(c)
  PROVE  SpinInv'
<1> DEFINE x == Cur(c)
<1>1. /\ x \in Contexts /\ Cur(c) = x
      /\ \A d \in CPUs : Cur(d) \in Contexts /\ (d # c => Cur(d) # x) /\ Cur(d)' = Cur(d)
  BY CurApart, CurStays DEF SpinInv, PushcliCount, Stays
<1>2. /\ pc[x] = "cli"
      /\ intr' = [intr EXCEPT ![c] = FALSE]
      /\ intena' = IF cpuncli[c] = 0 THEN [intena EXCEPT ![c] = flag[x]] ELSE intena
      /\ cpuncli' = [cpuncli EXCEPT ![c] = @ + 1]
      /\ pc' = [pc EXCEPT ![x] = "xchg"]
      /\ UNCHANGED <<locked, lkcpu, intrap, on, flag, arg, held>>
  BY DEF PushcliCount, At, Goto, Cli, Outermost
<1>3. OnApart' /\ Parked'
  BY <1>1, <1>2, ParkedStays DEF SpinInv, TypeOK, Stays
<1>d. /\ cpuncli[c] = Cardinality(held[x]) + InCall(c)
      /\ cpuncli[c] = 0 <=> held[x] = {} /\ InCall(c) = 0
      /\ x \in Threads <=> ~intrap[c]
  BY Depth
<1> HIDE DEF x
<1> USE <1>1, <1>2 DEF SpinInv
<1>4. TypeOK'
  BY DEF TypeOK, PCs
<1>5. ArgsKnown' /\ FlagsRead'
  BY DEF TypeOK, ArgsKnown, FlagsRead
<1>6. LockWords' /\ MutualExclusion'
  BY DEF TypeOK, LockWords, MutualExclusion, ArgsKnown
<1>7. IntenaSaved' /\ FlagRestored'
  BY <1>d DEF TypeOK, IntenaSaved, FlagRestored, FlagsRead, NestingExact, InCall
<1>8. HolderIsOwner'
  BY DEF TypeOK, HolderIsOwner, Holding, ArgsKnown, MutualExclusion, LockWords
<1>9. NestingExact'
  <2>1. Cardinality(held[x]) \in Nat
    BY HeldCount DEF TypeOK
  <2>2. QED
    BY <1>d, <2>1 DEF TypeOK, NestingExact, InCall
<1>10. QED
  BY <1>3, <1>4, <1>5, <1>6, <1>7, <1>8, <1>9

LEMMA XchgInv ==
  ASSUME SpinInv, NEW c \in CPUs, Xchg(c)
  PROVE  SpinInv'
<1> DEFINE x == Cur(c)
<1>1. /\ x \in Contexts /\ Cur(c) = x
      /\ \A d \in CPUs : Cur(d) \in Contexts /\ (d # c => Cur(d) # x) /\ Cur(d)' = Cur(d)
  BY CurApart, CurStays DEF SpinInv, Xchg, Stays
<1>2. /\ pc[x] = "xchg"
      /\ ~locked[arg[x]]
      /\ locked' = [locked EXCEPT ![arg[x]] = TRUE]
      /\ held' = [held EXCEPT ![x] = @ \cup {arg[x]}]
      /\ pc' = [pc EXCEPT ![x] = "owner"]
      /\ UNCHANGED <<lkcpu, intr, cpuncli, intena, intrap, on, flag, arg>>
  BY DEF Xchg, At, Goto, Free
<1>3. OnApart' /\ Parked'
  BY <1>1, <1>2, ParkedStays DEF SpinInv, TypeOK, Stays
<1>d. /\ cpuncli[c] = Cardinality(held[x]) + InCall(c)
      /\ cpuncli[c] = 0 <=> held[x] = {} /\ InCall(c) = 0
      /\ x \in Threads <=> ~intrap[c]
  BY Depth
<1> HIDE DEF x
<1> USE <1>1, <1>2 DEF SpinInv
<1>4. TypeOK'
  BY DEF TypeOK, PCs, ArgsKnown
<1>5. ArgsKnown' /\ FlagsRead'
  BY DEF TypeOK, ArgsKnown, FlagsRead
<1>6. LockWords' /\ MutualExclusion'
  BY DEF TypeOK, LockWords, MutualExclusion, ArgsKnown
<1>7. IntenaSaved' /\ FlagRestored'
  BY DEF TypeOK, IntenaSaved, FlagRestored, NestingExact, InCall
<1>8. HolderIsOwner'
  BY DEF TypeOK, HolderIsOwner, Holding, ArgsKnown, MutualExclusion, LockWords
<1>9. NestingExact'
  <2>1. arg[x] \in Locks \ held[x]
    <3>1. arg[x] \in Locks /\ \A k \in held[x] : k < arg[x]
      BY DEF ArgsKnown
    <3>2. QED
      BY <3>1, NestingOrder
  <2>2. Cardinality(held'[x]) = Cardinality(held[x]) + 1
    BY <2>1, HeldCount DEF TypeOK
  <2>3. QED
    BY <1>d, <2>2 DEF TypeOK, NestingExact, InCall
<1>10. QED
  BY <1>3, <1>4, <1>5, <1>6, <1>7, <1>8, <1>9

LEMMA SetOwnerInv ==
  ASSUME SpinInv, NEW c \in CPUs, SetOwner(c)
  PROVE  SpinInv'
<1> DEFINE x == Cur(c)
<1>1. /\ x \in Contexts /\ Cur(c) = x
      /\ \A d \in CPUs : Cur(d) \in Contexts /\ (d # c => Cur(d) # x) /\ Cur(d)' = Cur(d)
  BY CurApart, CurStays DEF SpinInv, SetOwner, Stays
<1>2. /\ pc[x] = "owner"
      /\ lkcpu' = [lkcpu EXCEPT ![arg[x]] = c]
      /\ arg' = [arg EXCEPT ![x] = NULL]
      /\ pc' = [pc EXCEPT ![x] = "idle"]
      /\ UNCHANGED <<locked, intr, cpuncli, intena, intrap, on, flag, held>>
  BY DEF SetOwner, At, Goto
<1>3. OnApart' /\ Parked'
  BY <1>1, <1>2, ParkedStays DEF SpinInv, TypeOK, Stays
<1> HIDE DEF x
<1> USE <1>1, <1>2 DEF SpinInv
<1>4. TypeOK'
  BY DEF TypeOK, PCs
<1>5. ArgsKnown' /\ FlagsRead'
  BY DEF TypeOK, ArgsKnown, FlagsRead
<1>6. LockWords' /\ MutualExclusion'
  BY DEF TypeOK, LockWords, MutualExclusion, ArgsKnown
<1>7. IntenaSaved' /\ FlagRestored'
  BY DEF TypeOK, IntenaSaved, FlagRestored, NestingExact, InCall
<1>8. HolderIsOwner'
  BY DEF TypeOK, HolderIsOwner, Holding, ArgsKnown, MutualExclusion, LockWords
<1>9. NestingExact'
  BY DEF TypeOK, NestingExact, InCall
<1>10. QED
  BY <1>3, <1>4, <1>5, <1>6, <1>7, <1>8, <1>9

LEMMA CallUnlockInv ==
  ASSUME SpinInv, NEW c \in CPUs, NEW l \in Locks, CallUnlock(c, l)
  PROVE  SpinInv'
<1> DEFINE x == Cur(c)
<1>1. /\ x \in Contexts /\ Cur(c) = x
      /\ \A d \in CPUs : Cur(d) \in Contexts /\ (d # c => Cur(d) # x) /\ Cur(d)' = Cur(d)
  BY CurApart, CurStays DEF SpinInv, CallUnlock, Stays
<1>2. /\ pc[x] = "idle"
      /\ l \in held[x]
      /\ arg' = [arg EXCEPT ![x] = l]
      /\ pc' = [pc EXCEPT ![x] = "assert"]
      /\ UNCHANGED <<locked, lkcpu, intr, cpuncli, intena, intrap, on, flag, held>>
  BY DEF CallUnlock, At, Goto
<1>3. OnApart' /\ Parked'
  BY <1>1, <1>2, ParkedStays DEF SpinInv, TypeOK, Stays
<1> HIDE DEF x
<1> USE <1>1, <1>2 DEF SpinInv
<1>4. TypeOK'
  BY DEF TypeOK, PCs
<1>5. ArgsKnown' /\ FlagsRead'
  BY DEF TypeOK, ArgsKnown, FlagsRead
<1>6. LockWords' /\ MutualExclusion'
  BY DEF TypeOK, LockWords, MutualExclusion, ArgsKnown
<1>7. IntenaSaved' /\ FlagRestored'
  BY DEF TypeOK, IntenaSaved, FlagRestored, NestingExact, InCall
<1>8. HolderIsOwner'
  BY DEF TypeOK, HolderIsOwner, Holding, ArgsKnown, MutualExclusion, LockWords
<1>9. NestingExact'
  BY DEF TypeOK, NestingExact, InCall
<1>10. QED
  BY <1>3, <1>4, <1>5, <1>6, <1>7, <1>8, <1>9

LEMMA AssertHoldingInv ==
  ASSUME SpinInv, NEW c \in CPUs, AssertHolding(c)
  PROVE  SpinInv'
<1> DEFINE x == Cur(c)
<1>1. /\ x \in Contexts /\ Cur(c) = x
      /\ \A d \in CPUs : Cur(d) \in Contexts /\ (d # c => Cur(d) # x) /\ Cur(d)' = Cur(d)
  BY CurApart, CurStays DEF SpinInv, AssertHolding, Stays
<1>2. /\ pc[x] = "assert"
      /\ pc' = [pc EXCEPT ![x] = "disown"]
      /\ UNCHANGED <<locked, lkcpu, intr, cpuncli, intena, intrap, on, flag, arg, held>>
  BY DEF AssertHolding, At, Goto
<1>3. OnApart' /\ Parked'
  BY <1>1, <1>2, ParkedStays DEF SpinInv, TypeOK, Stays
<1> HIDE DEF x
<1> USE <1>1, <1>2 DEF SpinInv
<1>4. TypeOK'
  BY DEF TypeOK, PCs
<1>5. ArgsKnown' /\ FlagsRead'
  BY DEF TypeOK, ArgsKnown, FlagsRead
<1>6. LockWords' /\ MutualExclusion'
  BY DEF TypeOK, LockWords, MutualExclusion, ArgsKnown
<1>7. IntenaSaved' /\ FlagRestored'
  BY DEF TypeOK, IntenaSaved, FlagRestored, NestingExact, InCall
<1>8. HolderIsOwner'
  BY DEF TypeOK, HolderIsOwner, Holding, ArgsKnown, MutualExclusion, LockWords
<1>9. NestingExact'
  BY DEF TypeOK, NestingExact, InCall
<1>10. QED
  BY <1>3, <1>4, <1>5, <1>6, <1>7, <1>8, <1>9

LEMMA ClearOwnerInv ==
  ASSUME SpinInv, NEW c \in CPUs, ClearOwner(c)
  PROVE  SpinInv'
<1> DEFINE x == Cur(c)
<1>1. /\ x \in Contexts /\ Cur(c) = x
      /\ \A d \in CPUs : Cur(d) \in Contexts /\ (d # c => Cur(d) # x) /\ Cur(d)' = Cur(d)
  BY CurApart, CurStays DEF SpinInv, ClearOwner, Stays
<1>2. /\ pc[x] = "disown"
      /\ lkcpu' = [lkcpu EXCEPT ![arg[x]] = NULL]
      /\ pc' = [pc EXCEPT ![x] = "release"]
      /\ UNCHANGED <<locked, intr, cpuncli, intena, intrap, on, flag, arg, held>>
  BY DEF ClearOwner, At, Goto
<1>3. OnApart' /\ Parked'
  BY <1>1, <1>2, ParkedStays DEF SpinInv, TypeOK, Stays
<1> HIDE DEF x
<1> USE <1>1, <1>2 DEF SpinInv
<1>4. TypeOK'
  BY DEF TypeOK, PCs
<1>5. ArgsKnown' /\ FlagsRead'
  BY DEF TypeOK, ArgsKnown, FlagsRead
<1>6. LockWords' /\ MutualExclusion'
  BY DEF TypeOK, LockWords, MutualExclusion, ArgsKnown
<1>7. IntenaSaved' /\ FlagRestored'
  BY DEF TypeOK, IntenaSaved, FlagRestored, NestingExact, InCall
<1>8. HolderIsOwner'
  BY DEF TypeOK, HolderIsOwner, Holding, ArgsKnown, MutualExclusion, LockWords
<1>9. NestingExact'
  BY DEF TypeOK, NestingExact, InCall
<1>10. QED
  BY <1>3, <1>4, <1>5, <1>6, <1>7, <1>8, <1>9

LEMMA ReleaseInv ==
  ASSUME SpinInv, NEW c \in CPUs, Release(c)
  PROVE  SpinInv'
<1> DEFINE x == Cur(c)
<1>1. /\ x \in Contexts /\ Cur(c) = x
      /\ \A d \in CPUs : Cur(d) \in Contexts /\ (d # c => Cur(d) # x) /\ Cur(d)' = Cur(d)
  BY CurApart, CurStays DEF SpinInv, Release, Stays
<1>2. /\ pc[x] = "release"
      /\ locked' = [locked EXCEPT ![arg[x]] = FALSE]
      /\ held' = [held EXCEPT ![x] = @ \ {arg[x]}]
      /\ pc' = [pc EXCEPT ![x] = "popcli"]
      /\ UNCHANGED <<lkcpu, intr, cpuncli, intena, intrap, on, flag, arg>>
  BY DEF Release, At, Goto
<1>3. OnApart' /\ Parked'
  BY <1>1, <1>2, ParkedStays DEF SpinInv, TypeOK, Stays
<1>d. /\ cpuncli[c] = Cardinality(held[x]) + InCall(c)
      /\ cpuncli[c] = 0 <=> held[x] = {} /\ InCall(c) = 0
      /\ x \in Threads <=> ~intrap[c]
  BY Depth
<1> HIDE DEF x
<1> USE <1>1, <1>2 DEF SpinInv
<1>4. TypeOK'
  BY DEF TypeOK, PCs
<1>5. ArgsKnown' /\ FlagsRead'
  BY DEF TypeOK, ArgsKnown, FlagsRead
<1>6. LockWords' /\ MutualExclusion'
  BY DEF TypeOK, LockWords, MutualExclusion, ArgsKnown
<1>7. IntenaSaved' /\ FlagRestored'
  BY DEF TypeOK, IntenaSaved, FlagRestored, NestingExact, InCall
<1>8. HolderIsOwner'
  BY DEF TypeOK, HolderIsOwner, Holding, ArgsKnown, MutualExclusion, LockWords
<1>9. NestingExact'
  <2>1. arg[x] \in held[x]
    BY DEF ArgsKnown
  <2>2. Cardinality(held'[x]) = Cardinality(held[x]) - 1
    BY <2>1, HeldCount DEF TypeOK
  <2>3. Cardinality(held[x]) \in Nat /\ Cardinality(held'[x]) \in Nat
    BY HeldCount DEF TypeOK
  <2>4. QED
    BY <1>d, <2>2, <2>3 DEF TypeOK, NestingExact, InCall
<1>10. QED
  BY <1>3, <1>4, <1>5, <1>6, <1>7, <1>8, <1>9

LEMMA PopcliInv ==
  ASSUME SpinInv, NEW c \in CPUs, Popcli(c)
  PROVE  SpinInv'
<1> DEFINE x == Cur(c)
<1>1. /\ x \in Contexts /\ Cur(c) = x
      /\ \A d \in CPUs : Cur(d) \in Contexts /\ (d # c => Cur(d) # x) /\ Cur(d)' = Cur(d)
  BY CurApart, CurStays DEF SpinInv, Popcli, Stays
<1>2. /\ pc[x] = "popcli"
      /\ cpuncli' = [cpuncli EXCEPT ![c] = @ - 1]
      /\ intr' = [intr EXCEPT ![c] = @ \/ (cpuncli[c] = 1 /\ intena[c])]
      /\ arg' = [arg EXCEPT ![x] = NULL]
      /\ pc' = [pc EXCEPT ![x] = "idle"]
      /\ UNCHANGED <<locked, lkcpu, intena, intrap, on, flag, held>>
  BY DEF Popcli, At, Goto, Popped, LastPop
<1>3. OnApart' /\ Parked'
  BY <1>1, <1>2, ParkedStays DEF SpinInv, TypeOK, Stays
<1>d. /\ cpuncli[c] = Cardinality(held[x]) + InCall(c)
      /\ cpuncli[c] = 0 <=> held[x] = {} /\ InCall(c) = 0
      /\ x \in Threads <=> ~intrap[c]
  BY Depth
<1> HIDE DEF x
<1> USE <1>1, <1>2 DEF SpinInv
<1>n. Cardinality(held[x]) \in Nat
  BY HeldCount DEF TypeOK
<1>4. TypeOK'
  BY <1>d, <1>n DEF TypeOK, PCs, InCall
<1>5. ArgsKnown' /\ FlagsRead'
  BY DEF TypeOK, ArgsKnown, FlagsRead
<1>6. LockWords' /\ MutualExclusion'
  BY DEF TypeOK, LockWords, MutualExclusion, ArgsKnown
<1>7. IntenaSaved' /\ FlagRestored'
  BY DEF TypeOK, IntenaSaved, FlagRestored, NestingExact, InCall
<1>8. HolderIsOwner'
  BY DEF TypeOK, HolderIsOwner, Holding, ArgsKnown, MutualExclusion, LockWords
<1>9. NestingExact'
  BY <1>d, <1>n DEF TypeOK, NestingExact, InCall, IntenaSaved
<1>10. QED
  BY <1>3, <1>4, <1>5, <1>6, <1>7, <1>8, <1>9

LEMMA InterruptInv ==
  ASSUME SpinInv, NEW c \in CPUs, Interrupt(c)
  PROVE  SpinInv'
<1> DEFINE x == on[c]
<1>1. /\ x \in Threads /\ Cur(c) = x /\ Cur(c)' = c
      /\ \A d \in CPUs : d # c => Cur(d)' = Cur(d)
      /\ \A d \in CPUs : Cur(d) \in Contexts /\ (d # c => Cur(d) # x /\ Cur(d) # c)
      /\ c \in Contexts /\ c \notin Threads
  BY CurApart, NamesAssumption DEF SpinInv, TypeOK, Interrupt, Cur, Contexts
<1>2. /\ intr[c] /\ ~intrap[c]
      /\ intrap' = [intrap EXCEPT ![c] = TRUE]
      /\ intr' = [intr EXCEPT ![c] = FALSE]
      /\ UNCHANGED <<locked, lkcpu, cpuncli, intena, on, pc, flag, arg, held>>
  BY DEF Interrupt
<1>3. cpuncli[c] = 0
  BY <1>2 DEF SpinInv, NestingExact, TypeOK
<1>4. held[x] = {} /\ InCall(c) = 0
  BY <1>1, <1>3, Depth
<1>5. held[c] = {} /\ pc[c] = "idle"
  BY <1>1 DEF SpinInv, Parked
<1>6. pc[x] \in {"idle", "pushcli", "cli"}
  BY <1>1, <1>4 DEF SpinInv, TypeOK, PCs, ArgsKnown, InCall, Contexts
<1> HIDE DEF x
<1> USE <1>1, <1>2 DEF SpinInv
<1>7. TypeOK' /\ OnApart'
  BY DEF TypeOK, OnApart
<1>8. Parked'
  BY <1>4, <1>6, NamesAssumption DEF Parked, TypeOK
<1>9. ArgsKnown' /\ FlagsRead' /\ LockWords' /\ MutualExclusion'
  BY DEF ArgsKnown, FlagsRead, LockWords, MutualExclusion
<1>10. IntenaSaved' /\ FlagRestored'
  BY <1>3 DEF TypeOK, IntenaSaved, FlagRestored
<1>11. HolderIsOwner'
  BY <1>5 DEF TypeOK, HolderIsOwner, Holding
<1>12. NestingExact'
  <2>1. Cardinality(held[c]) = 0
    BY <1>5, FS_EmptySet
  <2>2. InCall(c)' = 0 /\ \A d \in CPUs : d # c => InCall(d)' = InCall(d)
    BY <1>5 DEF InCall
  <2>3. \A d \in CPUs : d # c => intr'[d] = intr[d]
    BY DEF TypeOK
  <2>4. cpuncli'[c] = Cardinality(held'[Cur(c)']) + InCall(c)'
    BY <1>3, <2>1, <2>2
  <2>5. \A d \in CPUs : d # c => cpuncli'[d] = Cardinality(held'[Cur(d)']) + InCall(d)'
    BY <2>2 DEF NestingExact
  <2>6. \A d \in CPUs : cpuncli'[d] > 0 => ~intr'[d]
    BY <1>3, <2>3 DEF TypeOK, NestingExact
  <2>7. QED
    BY <2>4, <2>5, <2>6 DEF NestingExact
<1>13. QED
  BY <1>7, <1>8, <1>9, <1>10, <1>11, <1>12

LEMMA IretInv ==
  ASSUME SpinInv, NEW c \in CPUs, NEW t \in Threads, Iret(c, t)
  PROVE  SpinInv'
<1>1. /\ intrap[c] /\ pc[c] = "idle" /\ held[c] = {}
      /\ t = on[c] \/ \A d \in CPUs : on[d] # t
      /\ intrap' = [intrap EXCEPT ![c] = FALSE]
      /\ on' = [on EXCEPT ![c] = t]
      /\ intr' = [intr EXCEPT ![c] = TRUE]
      /\ UNCHANGED <<locked, lkcpu, cpuncli, intena, pc, flag, arg, held>>
  BY DEF Iret
<1>2. /\ Cur(c) = c /\ Cur(c)' = t
      /\ \A d \in CPUs : d # c => Cur(d)' = Cur(d)
      /\ \A d \in CPUs : Cur(d) \in Contexts /\ Cur(d) # t /\ (d # c => Cur(d) # c)
      /\ c \in Contexts /\ t \in Contexts /\ t \notin CPUs
  BY <1>1, CurApart, NamesAssumption DEF SpinInv, TypeOK, OnApart, Cur, Contexts
<1>3. held[t] = {} /\ pc[t] \in {"idle", "pushcli", "cli"}
  BY <1>2 DEF SpinInv, Parked
<1>4. cpuncli[c] = 0
  BY <1>1, <1>2, Depth DEF InCall
<1> USE <1>1, <1>2 DEF SpinInv
<1>5. TypeOK' /\ OnApart'
  BY DEF TypeOK, OnApart
<1>6. Parked'
  <2> SUFFICES ASSUME NEW y \in Contexts, \A d \in CPUs : Cur(d)' # y
               PROVE  /\ held[y] = {}
                      /\ pc[y] \in {"idle", "pushcli", "cli"}
                      /\ y \in CPUs => pc[y] = "idle"
    BY DEF Parked
  <2>1. CASE y = c
    BY <2>1
  <2>2. CASE y # c
    <3>1. \A d \in CPUs : Cur(d) # y
      BY <2>2
    <3>2. QED
      BY <3>1 DEF Parked
  <2>3. QED
    BY <2>1, <2>2
<1>7. ArgsKnown' /\ FlagsRead' /\ LockWords' /\ MutualExclusion'
  BY DEF ArgsKnown, FlagsRead, LockWords, MutualExclusion
<1>8. IntenaSaved' /\ FlagRestored'
  BY <1>4 DEF TypeOK, IntenaSaved, FlagRestored
<1>9. HolderIsOwner'
  BY <1>3 DEF TypeOK, HolderIsOwner, Holding
<1>10. NestingExact'
  <2>1. Cardinality(held[t]) = 0
    BY <1>3, FS_EmptySet
  <2>2. InCall(c)' = 0 /\ \A d \in CPUs : d # c => InCall(d)' = InCall(d)
    BY <1>3 DEF InCall
  <2>3. \A d \in CPUs : d # c => intr'[d] = intr[d]
    BY DEF TypeOK
  <2>4. cpuncli'[c] = Cardinality(held'[Cur(c)']) + InCall(c)'
    BY <1>4, <2>1, <2>2
  <2>5. \A d \in CPUs : d # c => cpuncli'[d] = Cardinality(held'[Cur(d)']) + InCall(d)'
    BY <2>2 DEF NestingExact
  <2>6. \A d \in CPUs : cpuncli'[d] > 0 => ~intr'[d]
    BY <1>4, <2>3 DEF TypeOK, NestingExact
  <2>7. QED
    BY <2>4, <2>5, <2>6 DEF NestingExact
<1>11. QED
  BY <1>5, <1>6, <1>7, <1>8, <1>9, <1>10

LEMMA StutterInv ==
  ASSUME SpinInv, UNCHANGED vars
  PROVE  SpinInv'
<1>1. UNCHANGED <<locked, lkcpu, intr, cpuncli, intena, intrap, on, pc, flag, arg, held>>
  BY DEF vars
<1>2. \A c \in CPUs : Cur(c)' = Cur(c)
  BY <1>1, CurStays DEF Stays
<1> USE <1>1, <1>2 DEF SpinInv
<1>3. TypeOK' /\ OnApart' /\ Parked'
  BY DEF TypeOK, OnApart, Parked
<1>4. ArgsKnown' /\ FlagsRead' /\ LockWords' /\ IntenaSaved' /\ MutualExclusion' /\ FlagRestored'
  BY DEF ArgsKnown, FlagsRead, LockWords, IntenaSaved, MutualExclusion, FlagRestored
<1>5. HolderIsOwner' /\ NestingExact'
  BY DEF HolderIsOwner, Holding, NestingExact, InCall
<1>6. QED
  BY <1>3, <1>4, <1>5

-----------------------------------------------------------------------------
(* Theorems *)

LEMMA NextInv == SpinInv /\ [Next]_vars => SpinInv'
<1> SUFFICES ASSUME SpinInv, [Next]_vars PROVE SpinInv'
  OBVIOUS
<1>1. CASE UNCHANGED vars
  BY <1>1, StutterInv
<1>2. ASSUME NEW c \in CPUs, NEW l \in Locks, CallLock(c, l) \/ CallUnlock(c, l)
      PROVE  SpinInv'
  BY <1>2, CallLockInv, CallUnlockInv
<1>3. ASSUME NEW c \in CPUs, Step(c)
      PROVE  SpinInv'
  BY <1>3, PushcliReadInv, PushcliCountInv, XchgInv, SetOwnerInv, AssertHoldingInv,
     ClearOwnerInv, ReleaseInv, PopcliInv DEF Step
<1>4. ASSUME NEW c \in CPUs, Interrupt(c)
      PROVE  SpinInv'
  BY <1>4, InterruptInv
<1>5. ASSUME NEW c \in CPUs, NEW t \in Threads, Iret(c, t)
      PROVE  SpinInv'
  BY <1>5, IretInv
<1>6. QED
  BY <1>1, <1>2, <1>3, <1>4, <1>5 DEF Next

(* The inductive invariant of the spinlocks, for spin_lock, spin_unlock, pushcli
   and popcli on any number of processors, threads and nested locks. *)
THEOREM Invariant == Spec => []SpinInv
  BY InitSpin, NextInv, PTL DEF Spec

(* Lock words, counts and flags keep their types; popcli never counts below zero. *)
THEOREM TypeCorrect == Spec => []TypeOK
  BY Invariant, PTL DEF SpinInv

(* No two contexts hold the same lock: the xchg loop of spin_lock excludes. *)
THEOREM Exclusion == Spec => []MutualExclusion
  BY Invariant, PTL DEF SpinInv

(* assert(holding(lk)) of spin_unlock holds for whoever took the lock. *)
THEOREM OwnerRecorded == Spec => []HolderIsOwner
  BY Invariant, PTL DEF SpinInv

(* cpuncli counts the locks of the running context, and while it is not zero
   interrupts are off. *)
THEOREM NestingCounted == Spec => []NestingExact
  BY Invariant, PTL DEF SpinInv

(* The last popcli gives back the interrupt flag that the first pushcli found. *)
THEOREM FlagGivenBack == Spec => []FlagRestored
  BY Invariant, PTL DEF SpinInv

(* A thread that holds a spinlock is running and not interrupted. *)
THEOREM HoldersOnProcessor == Spec => []HoldersRun
<1>1. SpinInv => HoldersRun
  <2> SUFFICES ASSUME SpinInv, NEW t \in Threads, held[t] # {}
               PROVE  \E c \in CPUs : on[c] = t /\ ~intrap[c]
    BY DEF HoldersRun
  <2>1. PICK c \in CPUs : Cur(c) = t
    BY DEF SpinInv, Parked, Contexts
  <2>2. QED
    BY <2>1, NamesAssumption DEF Cur
<1>2. QED
  BY <1>1, Invariant, PTL

-----------------------------------------------------------------------------
(* Refinement of the abstract lock *)

(* With mutual exclusion, the owner of a lock is whoever holds it. *)
LEMMA OwnerOf ==
  ASSUME NEW h, \A x, y \in Contexts : x # y => h[x] \cap h[y] = {}, NEW l,
         NEW x \in Contexts, l \in h[x]
  PROVE  (IF \E y \in Contexts : l \in h[y] THEN CHOOSE y \in Contexts : l \in h[y] ELSE NULL) = x
<1>1. \A y \in Contexts : l \in h[y] => y = x
  OBVIOUS
<1>2. (CHOOSE y \in Contexts : l \in h[y]) = x
  BY <1>1
<1>3. QED
  BY <1>2

LEMMA OwnerHolds ==
  ASSUME SpinInv, SpinInv', NEW l \in Locks, NEW x \in Contexts
  PROVE  /\ l \in held[x] => Owner[l] = x
         /\ (\A y \in Contexts : l \notin held[y]) => Owner[l] = NULL
         /\ l \in held'[x] => Owner'[l] = x
         /\ (\A y \in Contexts : l \notin held'[y]) => Owner'[l] = NULL
<1>1. l \in held[x] => Owner[l] = x
  BY OwnerOf DEF SpinInv, MutualExclusion, Owner
<1>2. l \in held'[x] => Owner'[l] = x
  BY OwnerOf DEF SpinInv, MutualExclusion, Owner
<1>3. QED
  BY <1>1, <1>2 DEF Owner

(* What the step means for the owners if only the locks of x change. *)
LEMMA OwnerElsewhere ==
  ASSUME SpinInv, SpinInv', NEW k \in Locks,
         \A y \in Contexts : k \in held'[y] <=> k \in held[y]
  PROVE  Owner'[k] = Owner[k]
<1>1. CASE \E y \in Contexts : k \in held[y]
  <2>1. PICK y \in Contexts : k \in held[y]
    BY <1>1
  <2>2. QED
    BY <2>1, OwnerHolds
<1>2. CASE \A y \in Contexts : k \notin held[y]
  BY <1>2 DEF Owner
<1>3. QED
  BY <1>1, <1>2

LEMMA XchgAcquires ==
  ASSUME SpinInv, SpinInv', NEW c \in CPUs, Xchg(c)
  PROVE  \E x \in Contexts, l \in Locks : Abs!Acquire(x, l)
<1> DEFINE x == Cur(c)
<1> DEFINE l == arg[x]
<1>1. x \in Contexts /\ l \in Locks
  BY CurApart DEF SpinInv, Xchg, At, ArgsKnown
<1>2. ~locked[l] /\ held' = [held EXCEPT ![x] = @ \cup {l}]
  BY DEF Xchg, Free
<1> HIDE DEF x, l
<1>3. \A y \in Contexts : l \notin held[y]
  BY <1>1, <1>2 DEF SpinInv, LockWords
<1>4. l \in held'[x] /\ \A k \in Locks : k # l => \A y \in Contexts : k \in held'[y] <=> k \in held[y]
  BY <1>1, <1>2 DEF SpinInv, TypeOK
<1>5. Owner[l] = NULL /\ Owner'[l] = x
  BY <1>1, <1>3, <1>4, OwnerHolds
<1>6. \A k \in Locks : k # l => Owner'[k] = Owner[k]
  BY <1>4, OwnerElsewhere
<1>7. Owner' = [Owner EXCEPT ![l] = x]
  <2>1. Owner = [k \in Locks |-> Owner[k]] /\ Owner' = [k \in Locks |-> Owner'[k]]
    BY DEF Owner
  <2>2. QED
    BY <1>1, <1>5, <1>6, <2>1
<1>8. QED
  BY <1>1, <1>5, <1>7 DEF Abs!Acquire

LEMMA ReleaseGivesBack ==
  ASSUME SpinInv, SpinInv', NEW c \in CPUs, Release(c)
  PROVE  \E x \in Contexts, l \in Locks : Abs!GiveBack(x, l)
<1> DEFINE x == Cur(c)
<1> DEFINE l == arg[x]
<1>1. x \in Contexts /\ l \in held[x]
  BY CurApart DEF SpinInv, Release, At, ArgsKnown
<1>2. held' = [held EXCEPT ![x] = @ \ {l}]
  BY DEF Release
<1> HIDE DEF x, l
<1>3. l \in Locks /\ \A y \in Contexts : l \notin held'[y]
  BY <1>1, <1>2 DEF SpinInv, TypeOK, MutualExclusion
<1>4. \A k \in Locks : k # l => \A y \in Contexts : k \in held'[y] <=> k \in held[y]
  BY <1>1, <1>2 DEF SpinInv, TypeOK
<1>5. Owner[l] = x /\ Owner'[l] = NULL
  BY <1>1, <1>3, OwnerHolds
<1>6. \A k \in Locks : k # l => Owner'[k] = Owner[k]
  BY <1>4, OwnerElsewhere
<1>7. Owner' = [Owner EXCEPT ![l] = NULL]
  BY <1>3, <1>5, <1>6 DEF Owner
<1>8. QED
  BY <1>1, <1>3, <1>5, <1>7 DEF Abs!GiveBack

LEMMA StepRefines ==
  ASSUME SpinInv, SpinInv', [Next]_vars
  PROVE  [Abs!Next]_Owner
<1>1. CASE held' = held
  BY <1>1 DEF Owner
<1>2. ASSUME NEW c \in CPUs, Xchg(c) PROVE Abs!Next
  BY <1>2, XchgAcquires DEF Abs!Next
<1>3. ASSUME NEW c \in CPUs, Release(c) PROVE Abs!Next
  BY <1>3, ReleaseGivesBack DEF Abs!Next
<1>4. CASE Next
  BY <1>1, <1>2, <1>3, <1>4 DEF Next, Step, CallLock, CallUnlock, PushcliRead, PushcliCount,
     SetOwner, AssertHolding, ClearOwner, Popcli, Interrupt, Iret
<1>5. CASE UNCHANGED vars
  BY <1>1, <1>5 DEF vars
<1>6. QED
  BY <1>4, <1>5

(* Seen from outside, spin_lock and spin_unlock are an abstract lock: what the
   xchg and the store of spin_unlock do is an acquisition and its end. *)
THEOREM Implements == Spec => ImplementsLock
<1>1. Init => Abs!Init
  BY DEF Init, Abs!Init, Owner
<1>2. SpinInv /\ SpinInv' /\ [Next]_vars => [Abs!Next]_Owner
  BY StepRefines
<1>3. QED
  BY <1>1, <1>2, Invariant, PTL DEF Spec, ImplementsLock, Abs!Spec

=============================================================================
