----------------------------- MODULE KvdbProofs -----------------------------
(***************************************************************************)
(* Proofs about the key-value store: once check_journal is through, the    *)
(* file consists of whole records, for any number of processes and threads *)
(* and with crashes at any moment; and one process with any number of      *)
(* threads implements the store of KvAbs.                                  *)
(*                                                                         *)
(* The first holds when the file is there before the processes start, or   *)
(* when there is one process: kvdb_open creates a file without a lock, and *)
(* may empty one that another process has just put a record into.          *)
(***************************************************************************)
EXTENDS Kvdb, WellFoundedInduction, SequenceTheorems, TLAPS

Entries == Records \cup {Torn}

OneProcess == Procs # {} /\ \A p, q \in Procs : p = q

-----------------------------------------------------------------------------
(* Least and greatest numbers *)

(* The order of the natural numbers is well founded. *)
LEMMA OrderOfNat == \E R : IsWellFoundedOn(R, Nat) /\ \A x, y \in Nat : <<x, y>> \in R <=> x < y
<1>1. \A x, y \in Nat : <<x, y>> \in OpToRel(<, Nat) <=> x < y
  BY DEF OpToRel
<1>2. QED
  BY <1>1, NatLessThanWellFounded, Zenon

(* A set of natural numbers has a least one. *)
LEMMA LeastNumber ==
  ASSUME NEW S, S \subseteq Nat, S # {}
  PROVE  \E n \in S : \A m \in S : n <= m
<1>1. PICK R : IsWellFoundedOn(R, Nat) /\ \A x, y \in Nat : <<x, y>> \in R <=> x < y
  BY OrderOfNat
<1>2. IsWellFoundedOn(R, Nat)
  BY <1>1
<1>3. \A T, U, Q : IsWellFoundedOn(Q, U) /\ T \subseteq U /\ T # {} =>
        \E x \in T : \A y \in T : ~(<<y, x>> \in Q)
  BY WFMin, Zenon
<1>4. \E x \in S : \A y \in S : ~(<<y, x>> \in R)
  BY <1>2, <1>3, Zenon
<1>5. PICK x \in S : \A y \in S : ~(<<y, x>> \in R)
  BY <1>4
<1>6. \A y \in S : ~(y < x)
  BY <1>1, <1>5
<1>7. QED
  BY <1>6

(* One that does not go beyond n has a greatest one. *)
LEMMA GreatestNumber ==
  ASSUME NEW n \in Nat, NEW S, S \subseteq 0 .. n, S # {}
  PROVE  \E i \in S : \A j \in S : j <= i
<1> DEFINE T == {k \in Nat : n - k \in S}
<1>1. \A i \in S : n - i \in T
  OBVIOUS
<1>2. T \subseteq Nat /\ T # {}
  BY <1>1
<1>3. PICK m \in T : \A k \in T : m <= k
  BY <1>2, LeastNumber
<1>4. \A j \in S : m <= n - j
  BY <1>1, <1>3
<1>5. n - m \in S /\ m \in Nat
  BY <1>3
<1>6. QED
  BY <1>4, <1>5

-----------------------------------------------------------------------------
(* Files *)

AllWhole(f) == \A i \in DOMAIN f : f[i] # Torn

(* Torn ends are behind the records, as check_journal takes them to be. *)
TornLast(f) == \A i, j \in DOMAIN f : i < j /\ f[i] = Torn => f[j] = Torn

LEMMA FileType ==
  ASSUME NEW f \in Files
  PROVE  /\ Len(f) \in Nat /\ DOMAIN f = 1 .. Len(f)
         /\ \A i \in 1 .. Len(f) : f[i] \in Entries
  BY LenProperties DEF Files, Entries

(* Max is the greatest element where there is one. *)
LEMMA MaxIs ==
  ASSUME NEW S, S \subseteq Int, NEW m \in S, \A i \in S : i <= m
  PROVE  Max(S) = m
<1>1. \A i \in S : m >= i
  OBVIOUS
<1>2. PICK x : x = Max(S)
  OBVIOUS
<1>3. x \in S /\ \A i \in S : x >= i
  BY <1>1, <1>2, Zenon DEF Max
<1>4. x = m
  BY <1>3
<1>5. QED
  BY <1>2, <1>4

(* Where check_journal cuts: behind the last whole record. *)
LEMMA KeptFound ==
  ASSUME NEW f \in Files
  PROVE  /\ Kept(f) \in 0 .. Len(f)
         /\ Kept(f) # 0 => f[Kept(f)] # Torn
         /\ \A i \in 1 .. Len(f) : Kept(f) < i => f[i] = Torn
<1> DEFINE S == {i \in DOMAIN f : f[i] # Torn} \cup {0}
<1>1. S \subseteq 0 .. Len(f) /\ S # {} /\ Len(f) \in Nat
  BY FileType
<1>2. PICK m \in S : \A j \in S : j <= m
  BY <1>1, GreatestNumber
<1>3. Kept(f) = m
  <2>1. Kept(f) = Max(S)
    BY DEF Kept
  <2>2. S \subseteq Int
    BY <1>1
  <2> HIDE DEF S
  <2>3. Max(S) = m
    BY <1>2, <2>2, MaxIs
  <2>4. QED
    BY <2>1, <2>3
<1>4. \A i \in 1 .. Len(f) : f[i] # Torn => i <= m
  BY <1>2, FileType
<1>5. QED
  BY <1>1, <1>2, <1>3, <1>4, FileType

LEMMA KeptIs ==
  ASSUME NEW f \in Files, NEW n \in 0 .. Len(f),
         \A i \in 1 .. n : f[i] # Torn, \A i \in 1 .. Len(f) : n < i => f[i] = Torn
  PROVE  Kept(f) = n
  BY KeptFound, FileType

LEMMA KeptOfWhole ==
  ASSUME NEW f \in Files, AllWhole(f)
  PROVE  Kept(f) = Len(f)
  BY KeptIs, FileType DEF AllWhole

LEMMA KeptWhole ==
  ASSUME NEW f \in Files, TornLast(f)
  PROVE  \A i \in 1 .. Kept(f) : f[i] # Torn
  BY KeptFound, FileType DEF TornLast

LEMMA Beginning ==
  ASSUME NEW f \in Files, NEW n \in 0 .. Len(f)
  PROVE  /\ SubSeq(f, 1, n) \in Files /\ Len(SubSeq(f, 1, n)) = n
         /\ \A i \in 1 .. n : SubSeq(f, 1, n)[i] = f[i]
<1>1. \A i \in 1 .. n : f[i] \in Entries
  BY FileType
<1>2. QED
  BY <1>1, SubSeqProperties DEF Files, Entries

(* check_journal leaves whole records. *)
LEMMA CutWhole ==
  ASSUME NEW f \in Files, TornLast(f)
  PROVE  /\ SubSeq(f, 1, Kept(f)) \in Files
         /\ AllWhole(SubSeq(f, 1, Kept(f)))
         /\ AllWhole(f) => SubSeq(f, 1, Kept(f)) = f
<1>1. Kept(f) \in 0 .. Len(f)
  BY KeptFound
<1>2. SubSeq(f, 1, Kept(f)) \in Files /\ AllWhole(SubSeq(f, 1, Kept(f)))
  BY <1>1, Beginning, KeptWhole, FileType DEF AllWhole
<1>3. AllWhole(f) => SubSeq(f, 1, Kept(f)) = f
  BY KeptOfWhole, SubSeqFull DEF Files
<1>4. QED
  BY <1>2, <1>3

(* The write of a record behind one of the records there are. *)
LEMMA WriteWhole ==
  ASSUME NEW f \in Files, NEW n \in 0 .. Len(f), NEW r \in Records
  PROVE  /\ Written(f, n, r) \in Files
         /\ Len(f) <= Len(Written(f, n, r))
         /\ AllWhole(f) => AllWhole(Written(f, n, r))
         /\ n = Len(f) => Written(f, n, r) = Append(f, r)
<1> DEFINE top == IF n = Len(f) THEN n + 1 ELSE Len(f)
           w == [i \in 1 .. top |-> IF i = n + 1 THEN r ELSE f[i]]
<1>1. Len(f) \in Nat /\ top \in Nat /\ Len(f) <= top
  BY FileType
<1>2. Max({Len(f), n + 1}) = top
  <2> DEFINE S == {Len(f), n + 1}
  <2>1. S \subseteq Int /\ top \in S /\ \A i \in S : i <= top
    BY <1>1
  <2> HIDE DEF S, top
  <2>2. Max(S) = top
    BY <2>1, MaxIs
  <2>3. QED
    BY <2>2 DEF S
<1>3. Written(f, n, r) = w
  <2> DEFINE E(i) == IF i = n + 1 THEN r ELSE IF i <= Len(f) THEN f[i] ELSE Torn
  <2>1. Written(f, n, r) = [i \in 1 .. top |-> E(i)]
    BY <1>2 DEF Written
  <2>2. \A i \in 1 .. top : E(i) = IF i = n + 1 THEN r ELSE f[i]
    BY <1>1
  <2>3. QED
    BY <2>1, <2>2
<1>4. w \in [1 .. top -> Entries]
  BY <1>1, FileType DEF Entries
<1>5. w \in Files
  BY <1>1, <1>4, SeqDef DEF Files, Entries
<1>6. Len(w) = top
  BY <1>1
<1>7. AllWhole(f) => AllWhole(w)
  BY <1>1, FileType, MarksAssumption DEF AllWhole
<1>8. ASSUME n = Len(f) PROVE w = Append(f, r)
  <2>1. Append(f, r) \in Files /\ Len(Append(f, r)) = n + 1
        /\ \A i \in 1 .. n + 1 : Append(f, r)[i] = IF i <= n THEN f[i] ELSE r
    BY <1>8, AppendProperties DEF Files, Entries
  <2>2. Append(f, r) = [i \in 1 .. n + 1 |-> Append(f, r)[i]]
    BY <2>1, LenProperties DEF Files
  <2>3. QED
    BY <1>1, <1>8, <2>1, <2>2, SeqEqual, <1>5, <1>6 DEF Files
<1>9. QED
  BY <1>1, <1>3, <1>5, <1>6, <1>7, <1>8

-----------------------------------------------------------------------------
(* The invariant *)

InCall(t) == pc[t] \notin {"idle", "mutex"}

(* Where a thread can be in each of the calls. *)
Calling ==
  \A t \in Threads :
    /\ pc[t] = "idle" <=> op[t] = "none"
    /\ pc[t] \in {"access", "create"} => op[t] = "open"
    /\ pc[t] = "mutex" => op[t] # "open"
    /\ pc[t] \in {"write", "fsync"} => op[t] = "put"
    /\ pc[t] \in {"relock", "sh", "scan"} => op[t] = "get"
    /\ op[t] = "put" => key[t] \in Keys /\ value[t] \in Values
    /\ op[t] = "get" => key[t] \in Keys
    /\ op[t] = "open" => Of[t] \notin up
    /\ op[t] \in {"put", "get", "close"} => Of[t] \in up

(* The threads of a process take turns. *)
Turns ==
  /\ \A t, u \in Threads :
       t # u /\ Of[t] = Of[u] /\ op[t] \in {"open", "close"} => pc[u] = "idle"
  /\ \A t \in Threads : InCall(t) /\ op[t] # "open" => mutex[Of[t]] = t

Exclusive == {"seek", "truncate", "write", "fsync", "relock"}

(* And so do the processes with the file. *)
Flocks ==
  /\ excl = NULL \/ shared = {}
  /\ \A t \in Threads : /\ pc[t] \in Exclusive => excl = Of[t]
                        /\ pc[t] = "scan" => Of[t] \in shared

(* A process that has looked at the end of the file, or has the file closed, has
   nothing to write. *)
Buffers ==
  /\ \A p \in Procs : p \notin up => buffer[p] = NULL
  /\ \A t \in Threads :
       \/ pc[t] \in {"truncate", "write", "relock", "sh", "scan"}
       \/ op[t] = "close" /\ pc[t] \in {"unlock", "return"}
       => buffer[Of[t]] = NULL

(* Nobody who has checked the file, or has a record for it, ever sees a torn end
   come back. *)
FileSound ==
  /\ TornLast(file) /\ TornLast(synced)
  /\ \A t \in Threads : pc[t] \in {"write", "fsync", "relock", "sh", "scan"} => AllWhole(file)
  /\ \A p \in Procs : buffer[p] # NULL => AllWhole(file) /\ at[p] <= Len(file)

Creation == (Preexisting => exists) /\ \A t \in Threads : pc[t] = "create" => ~Preexisting

Control == Calling /\ Turns /\ Flocks /\ Buffers /\ Creation

KvInv == TypeOK /\ Control /\ FileSound

LEMMA OneInCall ==
  ASSUME Turns, NEW t \in Threads, NEW u \in Threads, Of[t] = Of[u], InCall(t), InCall(u)
  PROVE  t = u
  BY DEF Turns, InCall

(* A step keeps to the steps of its call. *)
LEMMA CallingKept ==
  ASSUME TypeOK, Calling, Turns, NEW t \in Threads, Step(t)
  PROVE  Calling'
<1> USE OfAssumption, MarksAssumption DEF TypeOK, Calling, Turns, InCall, fileVars, procVars, callVars
<1>1. CASE CallOpen(t)
  BY <1>1 DEF CallOpen, Call, Alone, Goto
<1>2. CASE CallClose(t)
  BY <1>2 DEF CallClose, Call, Alone, Goto
<1>3. ASSUME NEW k \in Keys, NEW v \in Values, CallPut(t, k, v) PROVE Calling'
  BY <1>3 DEF CallPut, Call, NotClosing, Goto
<1>4. ASSUME NEW k \in Keys, CallGet(t, k) PROVE Calling'
  BY <1>4 DEF CallGet, Call, NotClosing, Goto
<1>5. CASE Access(t)
  BY <1>5 DEF Access, Goto
<1>6. CASE Create(t)
  BY <1>6 DEF Create, Goto
<1>7. CASE LockMutex(t)
  BY <1>7 DEF LockMutex, Goto
<1>8. CASE LockExclusive(t)
  BY <1>8 DEF LockExclusive, Goto
<1>9. CASE SeekEnd(t)
  BY <1>9 DEF SeekEnd, Goto
<1>10. CASE Truncate(t)
  BY <1>10 DEF Truncate, Goto
<1>11. CASE WriteRecord(t)
  BY <1>11 DEF WriteRecord, Goto
<1>12. CASE Fsync(t)
  BY <1>12 DEF Fsync, Goto
<1>13. CASE Relock(t)
  BY <1>13 DEF Relock, Goto
<1>14. CASE LockShared(t)
  BY <1>14 DEF LockShared, Goto
<1>15. CASE Scan(t)
  BY <1>15 DEF Scan, Goto
<1>16. CASE Unlock(t)
  BY <1>16 DEF Unlock, Goto
<1>17. CASE Return(t)
  BY <1>17 DEF Return, Goto
<1>18. QED
  BY Step(t), <1>1, <1>2, <1>3, <1>4, <1>5, <1>6, <1>7, <1>8, <1>9, <1>10, <1>11, <1>12, <1>13, <1>14, <1>15, <1>16, <1>17 DEF Step

(* A step leaves the other threads of its process their turn. *)
LEMMA TurnsKept ==
  ASSUME TypeOK, Calling, Turns, NEW t \in Threads, Step(t)
  PROVE  Turns'
<1> USE OfAssumption, MarksAssumption DEF TypeOK, Calling, Turns, InCall, fileVars, procVars, callVars
<1>1. CASE CallOpen(t)
  BY <1>1 DEF CallOpen, Call, Alone, Goto
<1>2. CASE CallClose(t)
  BY <1>2 DEF CallClose, Call, Alone, Goto
<1>3. ASSUME NEW k \in Keys, NEW v \in Values, CallPut(t, k, v) PROVE Turns'
  BY <1>3 DEF CallPut, Call, NotClosing, Goto
<1>4. ASSUME NEW k \in Keys, CallGet(t, k) PROVE Turns'
  BY <1>4 DEF CallGet, Call, NotClosing, Goto
<1>5. CASE Access(t)
  BY <1>5 DEF Access, Goto
<1>6. CASE Create(t)
  BY <1>6 DEF Create, Goto
<1>7. CASE LockMutex(t)
  BY <1>7 DEF LockMutex, Goto
<1>8. CASE LockExclusive(t)
  BY <1>8 DEF LockExclusive, Goto
<1>9. CASE SeekEnd(t)
  BY <1>9 DEF SeekEnd, Goto
<1>10. CASE Truncate(t)
  BY <1>10 DEF Truncate, Goto
<1>11. CASE WriteRecord(t)
  BY <1>11 DEF WriteRecord, Goto
<1>12. CASE Fsync(t)
  BY <1>12 DEF Fsync, Goto
<1>13. CASE Relock(t)
  BY <1>13 DEF Relock, Goto
<1>14. CASE LockShared(t)
  BY <1>14 DEF LockShared, Goto
<1>15. CASE Scan(t)
  BY <1>15 DEF Scan, Goto
<1>16. CASE Unlock(t)
  BY <1>16 DEF Unlock, Goto
<1>17. CASE Return(t)
  BY <1>17 DEF Return, Goto
<1>18. QED
  BY Step(t), <1>1, <1>2, <1>3, <1>4, <1>5, <1>6, <1>7, <1>8, <1>9, <1>10, <1>11, <1>12, <1>13, <1>14, <1>15, <1>16, <1>17 DEF Step

(* flock keeps the processes apart. *)
LEMMA FlocksKept ==
  ASSUME TypeOK, Calling, Turns, Flocks, NEW t \in Threads, Step(t)
  PROVE  Flocks'
<1> USE OfAssumption, MarksAssumption DEF TypeOK, Calling, Turns, InCall, Flocks, Exclusive, fileVars, procVars, callVars
<1>1. CASE CallOpen(t)
  BY <1>1 DEF CallOpen, Call, Alone, Goto
<1>2. CASE CallClose(t)
  BY <1>2 DEF CallClose, Call, Alone, Goto
<1>3. ASSUME NEW k \in Keys, NEW v \in Values, CallPut(t, k, v) PROVE Flocks'
  BY <1>3 DEF CallPut, Call, NotClosing, Goto
<1>4. ASSUME NEW k \in Keys, CallGet(t, k) PROVE Flocks'
  BY <1>4 DEF CallGet, Call, NotClosing, Goto
<1>5. CASE Access(t)
  BY <1>5 DEF Access, Goto
<1>6. CASE Create(t)
  BY <1>6 DEF Create, Goto
<1>7. CASE LockMutex(t)
  BY <1>7 DEF LockMutex, Goto
<1>8. CASE LockExclusive(t)
  BY <1>8 DEF LockExclusive, Goto
<1>9. CASE SeekEnd(t)
  BY <1>9 DEF SeekEnd, Goto
<1>10. CASE Truncate(t)
  BY <1>10 DEF Truncate, Goto
<1>11. CASE WriteRecord(t)
  BY <1>11 DEF WriteRecord, Goto
<1>12. CASE Fsync(t)
  BY <1>12 DEF Fsync, Goto
<1>13. CASE Relock(t)
  BY <1>13 DEF Relock, Goto
<1>14. CASE LockShared(t)
  BY <1>14 DEF LockShared, Goto
<1>15. CASE Scan(t)
  BY <1>15 DEF Scan, Goto
<1>16. CASE Unlock(t)
  BY <1>16 DEF Unlock, Goto
<1>17. CASE Return(t)
  BY <1>17 DEF Return, Goto
<1>18. QED
  BY Step(t), <1>1, <1>2, <1>3, <1>4, <1>5, <1>6, <1>7, <1>8, <1>9, <1>10, <1>11, <1>12, <1>13, <1>14, <1>15, <1>16, <1>17 DEF Step

(* A record is written before the next one is put. *)
LEMMA BuffersKept ==
  ASSUME TypeOK, Calling, Turns, Buffers, NEW t \in Threads, Step(t)
  PROVE  Buffers'
<1> USE OfAssumption, MarksAssumption DEF TypeOK, Calling, Turns, InCall, Buffers, fileVars, procVars, callVars
<1>1. CASE CallOpen(t)
  BY <1>1 DEF CallOpen, Call, Alone, Goto
<1>2. CASE CallClose(t)
  BY <1>2 DEF CallClose, Call, Alone, Goto
<1>3. ASSUME NEW k \in Keys, NEW v \in Values, CallPut(t, k, v) PROVE Buffers'
  BY <1>3 DEF CallPut, Call, NotClosing, Goto
<1>4. ASSUME NEW k \in Keys, CallGet(t, k) PROVE Buffers'
  BY <1>4 DEF CallGet, Call, NotClosing, Goto
<1>5. CASE Access(t)
  BY <1>5 DEF Access, Goto
<1>6. CASE Create(t)
  BY <1>6 DEF Create, Goto
<1>7. CASE LockMutex(t)
  BY <1>7 DEF LockMutex, Goto
<1>8. CASE LockExclusive(t)
  BY <1>8 DEF LockExclusive, Goto
<1>9. CASE SeekEnd(t)
  BY <1>9 DEF SeekEnd, Goto
<1>10. CASE Truncate(t)
  BY <1>10 DEF Truncate, Goto
<1>11. CASE WriteRecord(t)
  <2>1. \A u \in Threads : u # t /\ Of[u] = Of[t] => ~InCall(u)
    BY <1>11, OneInCall DEF WriteRecord
  <2>2. /\ Of[t] \in up /\ buffer' = [buffer EXCEPT ![Of[t]] = [key |-> key[t], value |-> value[t]]]
        /\ pc' = [pc EXCEPT ![t] = "fsync"] /\ UNCHANGED <<up, op>>
    BY <1>11 DEF WriteRecord, Goto
  <2>3. ASSUME NEW u \in Threads, u # t, Of[u] = Of[t]
        PROVE  pc'[u] \in {"idle", "mutex"}
    BY <2>1, <2>2, <2>3
  <2>4. ASSUME NEW u \in Threads, Of[u] # Of[t]
        PROVE  buffer'[Of[u]] = buffer[Of[u]] /\ pc'[u] = pc[u] /\ op'[u] = op[u]
    BY <2>2, <2>4
  <2>5. pc'[t] = "fsync"
    BY <2>2
  <2>6. \A p \in Procs : p \notin up' => buffer'[p] = NULL
    BY <2>2
  <2> HIDE DEF InCall, Calling, Turns
  <2>7. QED
    BY <2>3, <2>4, <2>5, <2>6
<1>12. CASE Fsync(t)
  BY <1>12 DEF Fsync, Goto
<1>13. CASE Relock(t)
  BY <1>13 DEF Relock, Goto
<1>14. CASE LockShared(t)
  BY <1>14 DEF LockShared, Goto
<1>15. CASE Scan(t)
  BY <1>15 DEF Scan, Goto
<1>16. CASE Unlock(t)
  BY <1>16 DEF Unlock, Goto
<1>17. CASE Return(t)
  BY <1>17 DEF Return, Goto
<1>18. QED
  BY Step(t), <1>1, <1>2, <1>3, <1>4, <1>5, <1>6, <1>7, <1>8, <1>9, <1>10, <1>11, <1>12, <1>13, <1>14, <1>15, <1>16, <1>17 DEF Step

(* A file that is there is not created. *)
LEMMA CreationKept ==
  ASSUME TypeOK, Creation, NEW t \in Threads, Step(t)
  PROVE  Creation'
<1> USE OfAssumption, MarksAssumption DEF TypeOK, Creation, fileVars, procVars, callVars
<1>1. CASE CallOpen(t)
  BY <1>1 DEF CallOpen, Call, Alone, Goto
<1>2. CASE CallClose(t)
  BY <1>2 DEF CallClose, Call, Alone, Goto
<1>3. ASSUME NEW k \in Keys, NEW v \in Values, CallPut(t, k, v) PROVE Creation'
  BY <1>3 DEF CallPut, Call, NotClosing, Goto
<1>4. ASSUME NEW k \in Keys, CallGet(t, k) PROVE Creation'
  BY <1>4 DEF CallGet, Call, NotClosing, Goto
<1>5. CASE Access(t)
  BY <1>5 DEF Access, Goto
<1>6. CASE Create(t)
  BY <1>6 DEF Create, Goto
<1>7. CASE LockMutex(t)
  BY <1>7 DEF LockMutex, Goto
<1>8. CASE LockExclusive(t)
  BY <1>8 DEF LockExclusive, Goto
<1>9. CASE SeekEnd(t)
  BY <1>9 DEF SeekEnd, Goto
<1>10. CASE Truncate(t)
  BY <1>10 DEF Truncate, Goto
<1>11. CASE WriteRecord(t)
  BY <1>11 DEF WriteRecord, Goto
<1>12. CASE Fsync(t)
  BY <1>12 DEF Fsync, Goto
<1>13. CASE Relock(t)
  BY <1>13 DEF Relock, Goto
<1>14. CASE LockShared(t)
  BY <1>14 DEF LockShared, Goto
<1>15. CASE Scan(t)
  BY <1>15 DEF Scan, Goto
<1>16. CASE Unlock(t)
  BY <1>16 DEF Unlock, Goto
<1>17. CASE Return(t)
  BY <1>17 DEF Return, Goto
<1>18. QED
  BY Step(t), <1>1, <1>2, <1>3, <1>4, <1>5, <1>6, <1>7, <1>8, <1>9, <1>10, <1>11, <1>12, <1>13, <1>14, <1>15, <1>16, <1>17 DEF Step

LEMMA Emptied == <<>> \in Files /\ TornLast(<<>>) /\ AllWhole(<<>>)
  BY EmptySeq DEF Files, TornLast, AllWhole

LEMMA WholeTornLast ==
  ASSUME NEW f \in Files, AllWhole(f)
  PROVE  TornLast(f)
  BY FileType DEF AllWhole, TornLast

LEMMA ProcessOf ==
  ASSUME NEW t \in Threads
  PROVE  Of[t] \in Procs
  BY OfAssumption

(* The buffer is written behind whole records. *)
LEMMA FlushSound ==
  ASSUME TypeOK, FileSound, NEW p \in Procs
  PROVE  /\ Flushed(p) \in Files /\ TornLast(Flushed(p))
         /\ Len(file) <= Len(Flushed(p))
         /\ AllWhole(file) => AllWhole(Flushed(p))
<1>1. CASE buffer[p] = NULL
  BY <1>1, FileType DEF Flushed, TypeOK, FileSound
<1>2. CASE buffer[p] # NULL
  <2>1. /\ file \in Files /\ AllWhole(file)
        /\ buffer[p] \in Records /\ at[p] \in Nat /\ at[p] <= Len(file)
    BY <1>2 DEF TypeOK, FileSound
  <2>2. at[p] \in 0 .. Len(file)
    BY <2>1, FileType
  <2>3. QED
    BY <1>2, <2>1, <2>2, WriteWhole, WholeTornLast DEF Flushed
<1>3. QED
  BY <1>1, <1>2

(* A step that does not touch the file, nor what there is to write. *)
LEMMA FileLeft ==
  ASSUME FileSound, UNCHANGED <<file, synced, buffer, at>>,
         NEW t \in Threads, NEW label, Goto(t, label), TypeOK,
         label \in {"write", "fsync", "relock", "sh", "scan"} =>
           pc[t] \in {"write", "fsync", "relock", "sh", "scan"}
  PROVE  FileSound'
  BY DEF FileSound, Goto, TypeOK

LEMMA FileSoundKept ==
  ASSUME KvInv, Preexisting \/ OneProcess, NEW t \in Threads, Step(t)
  PROVE  FileSound'
<1> DEFINE Checked == {"write", "fsync", "relock", "sh", "scan"}
<1> USE DEF KvInv, Control
<1>1. CASE Create(t)
  <2>1. file' = <<>> /\ UNCHANGED <<synced, buffer, at>>
    BY <1>1 DEF Create, procVars
  <2>2. Of[t] \notin up /\ OneProcess
    BY <1>1 DEF Create, Calling, Creation
  <2>3. \A p \in Procs : buffer'[p] = NULL
    BY <2>1, <2>2, ProcessOf DEF OneProcess, Buffers
  <2>4. QED
    BY <2>1, <2>3, Emptied DEF FileSound
<1>2. CASE SeekEnd(t)
  <2>1. /\ file' = Flushed(Of[t]) /\ synced' = synced
        /\ buffer' = [buffer EXCEPT ![Of[t]] = NULL]
        /\ at' = [at EXCEPT ![Of[t]] = 0]
        /\ pc' = [pc EXCEPT ![t] = "truncate"]
    BY <1>2 DEF SeekEnd, Goto
  <2>2. /\ Len(file) <= Len(file') /\ TornLast(file')
        /\ AllWhole(file) => AllWhole(file')
        /\ Len(file) \in Nat /\ Len(file') \in Nat
    BY <2>1, FlushSound, ProcessOf, FileType DEF TypeOK
  <2>3. \A u \in Threads : pc'[u] \in Checked => pc[u] \in Checked
    BY <2>1 DEF TypeOK
  <2>4. \A p \in Procs : buffer'[p] # NULL => buffer[p] # NULL /\ at'[p] = at[p] /\ at[p] \in Nat
    BY <2>1 DEF TypeOK
  <2>5. QED
    BY <2>1, <2>2, <2>3, <2>4 DEF FileSound
<1>3. CASE Truncate(t)
  <2>1. file' = SubSeq(file, 1, Kept(file)) /\ UNCHANGED <<synced, buffer, at>>
    BY <1>3 DEF Truncate, procVars
  <2>2. file' \in Files /\ AllWhole(file') /\ (AllWhole(file) => file' = file)
    BY <2>1, CutWhole DEF TypeOK, FileSound
  <2>3. QED
    BY <2>1, <2>2, WholeTornLast DEF FileSound
<1>4. CASE WriteRecord(t)
  <2>1. /\ pc[t] = "write" /\ pc' = [pc EXCEPT ![t] = "fsync"]
        /\ UNCHANGED <<file, synced>>
        /\ at' = [at EXCEPT ![Of[t]] = Len(file)]
        /\ buffer' = [buffer EXCEPT ![Of[t]] = [key |-> key[t], value |-> value[t]]]
    BY <1>4 DEF WriteRecord, Goto, fileVars
  <2>2. AllWhole(file) /\ Len(file) \in Nat
    BY <2>1, FileType DEF FileSound, TypeOK
  <2>3. \A p \in Procs : buffer'[p] # NULL => at'[p] <= Len(file)
    BY <2>1, <2>2 DEF FileSound, TypeOK
  <2>4. QED
    BY <2>1, <2>2, <2>3 DEF FileSound
<1>5. CASE Fsync(t)
  <2>1. synced' = file /\ UNCHANGED <<file, buffer, at>> /\ pc' = [pc EXCEPT ![t] = "unlock"]
    BY <1>5 DEF Fsync, Goto, procVars
  <2>2. QED
    BY <2>1 DEF FileSound, TypeOK
<1>6. ASSUME ~Create(t), ~SeekEnd(t), ~Truncate(t), ~WriteRecord(t), ~Fsync(t)
      PROVE  FileSound'
  <2> DEFINE Left(label) ==
        /\ UNCHANGED <<file, synced, buffer, at>> /\ Goto(t, label)
        /\ label \in Checked => pc[t] \in Checked
  <2>1. \E label : Left(label)
    <3> USE DEF fileVars, procVars
    <3>1. CASE CallOpen(t)
      BY <3>1 DEF CallOpen, Call
    <3>2. CASE CallClose(t)
      BY <3>2 DEF CallClose, Call
    <3>3. ASSUME NEW k \in Keys, NEW v \in Values, CallPut(t, k, v) PROVE \E label : Left(label)
      BY <3>3 DEF CallPut, Call
    <3>4. ASSUME NEW k \in Keys, CallGet(t, k) PROVE \E label : Left(label)
      BY <3>4 DEF CallGet, Call
    <3>5. CASE Access(t)
      BY <3>5 DEF Access
    <3>6. CASE LockMutex(t)
      BY <3>6 DEF LockMutex
    <3>7. CASE LockExclusive(t)
      BY <3>7 DEF LockExclusive
    <3>8. CASE Relock(t)
      BY <3>8 DEF Relock
    <3>9. CASE LockShared(t)
      BY <3>9 DEF LockShared
    <3>10. CASE Scan(t)
      BY <3>10 DEF Scan
    <3>11. CASE Unlock(t)
      BY <3>11 DEF Unlock
    <3>12. CASE Return(t)
      BY <3>12 DEF Return
    <3>13. QED
      BY Step(t), <1>6, <3>1, <3>2, <3>3, <3>4, <3>5, <3>6, <3>7, <3>8, <3>9, <3>10, <3>11, <3>12
         DEF Step
  <2>2. QED
    BY <2>1, FileLeft
<1>7. QED
  BY <1>1, <1>2, <1>3, <1>4, <1>5, <1>6

(* Where there are records of a key there is a latest one, and Max finds it. *)
LEMMA LatestFound ==
  ASSUME NEW f \in Files, NEW Found, Found \subseteq 1 .. Len(f), Found # {}
  PROVE  Latest(Found) \in Found /\ \A i \in Found : i <= Latest(Found)
<1>1. Found \subseteq 0 .. Len(f) /\ Len(f) \in Nat /\ Found \subseteq Int
  BY FileType
<1>2. PICK m \in Found : \A j \in Found : j <= m
  BY <1>1, GreatestNumber
<1>3. Latest(Found) = m
  BY <1>1, <1>2, MaxIs DEF Latest
<1>4. QED
  BY <1>2, <1>3

LEMMA LookupType ==
  ASSUME file \in Files, AllWhole(file), NEW k \in Keys
  PROVE  Lookup(k) \in Values \cup {NULL}
<1> DEFINE Found == {i \in DOMAIN file : file[i].key = k}
<1>1. Found \subseteq 1 .. Len(file) /\ DOMAIN file = 1 .. Len(file)
  BY FileType
<1>2. Lookup(k) = IF Found = {} THEN NULL ELSE file[Latest(Found)].value
  BY DEF Lookup
<1>3. ASSUME Found # {} PROVE file[Latest(Found)].value \in Values
  <2>1. Latest(Found) \in 1 .. Len(file)
    BY <1>1, <1>3, LatestFound
  <2>2. file[Latest(Found)] \in Records
    BY <2>1, FileType DEF AllWhole, Entries
  <2>3. QED
    BY <2>2 DEF Records
<1>4. QED
  BY <1>2, <1>3

LEMMA TypeKept ==
  ASSUME KvInv, NEW t \in Threads, Step(t)
  PROVE  TypeOK'
<1> USE OfAssumption DEF KvInv, Control, TypeOK, Labels, Calls, fileVars, procVars, callVars
<1> USE ProcessOf
<1>1. CASE CallOpen(t)
  BY <1>1 DEF CallOpen, Call, Alone, Goto
<1>2. CASE CallClose(t)
  BY <1>2 DEF CallClose, Call, Alone, Goto
<1>3. ASSUME NEW k \in Keys, NEW v \in Values, CallPut(t, k, v) PROVE TypeOK'
  BY <1>3 DEF CallPut, Call, NotClosing, Goto
<1>4. ASSUME NEW k \in Keys, CallGet(t, k) PROVE TypeOK'
  BY <1>4 DEF CallGet, Call, NotClosing, Goto
<1>5. CASE Access(t)
  BY <1>5 DEF Access, Goto
<1>6. CASE Create(t)
  <2>1. file' \in Files
    BY <1>6, Emptied DEF Create
  <2>2. QED
    BY <1>6, <2>1 DEF Create, Goto
<1>7. CASE LockMutex(t)
  BY <1>7 DEF LockMutex, Goto
<1>8. CASE LockExclusive(t)
  BY <1>8 DEF LockExclusive, Goto
<1>9. CASE SeekEnd(t)
  <2>1. file' \in Files
    BY <1>9, FlushSound DEF SeekEnd
  <2>2. QED
    BY <1>9, <2>1 DEF SeekEnd, Goto
<1>10. CASE Truncate(t)
  <2>1. file' \in Files
    BY <1>10, CutWhole DEF Truncate, FileSound
  <2>2. QED
    BY <1>10, <2>1 DEF Truncate, Goto
<1>11. CASE WriteRecord(t)
  <2>1. key[t] \in Keys /\ value[t] \in Values
    BY <1>11 DEF WriteRecord, Calling
  <2>2. [key |-> key[t], value |-> value[t]] \in Records /\ Len(file) \in Nat
    BY <2>1, FileType DEF Records
  <2>3. QED
    BY <1>11, <2>2 DEF WriteRecord, Goto
<1>12. CASE Fsync(t)
  BY <1>12 DEF Fsync, Goto
<1>13. CASE Relock(t)
  BY <1>13 DEF Relock, Goto
<1>14. CASE LockShared(t)
  BY <1>14 DEF LockShared, Goto
<1>15. CASE Scan(t)
  <2>1. key[t] \in Keys /\ AllWhole(file)
    BY <1>15 DEF Scan, Calling, FileSound
  <2>2. Lookup(key[t]) \in Values \cup {NULL}
    BY <2>1, LookupType
  <2>3. QED
    BY <1>15, <2>2 DEF Scan, Goto
<1>16. CASE Unlock(t)
  BY <1>16 DEF Unlock, Goto
<1>17. CASE Return(t)
  <2>1. op[t] = "put" => [key |-> key[t], value |-> value[t]] \in Records
    BY <1>17 DEF Calling, Records
  <2>2. acked' \subseteq Records
    BY <1>17, <2>1 DEF Return
  <2>3. QED
    BY <1>17, <2>2 DEF Return, Goto
<1>18. QED
  BY Step(t), <1>1, <1>2, <1>3, <1>4, <1>5, <1>6, <1>7, <1>8, <1>9, <1>10, <1>11, <1>12, <1>13, <1>14, <1>15, <1>16, <1>17 DEF Step

-----------------------------------------------------------------------------
(* Crashes *)

LEMMA LostControl ==
  ASSUME KvInv, NEW ps \in SUBSET Procs, Lost(ps), exists' = exists
  PROVE  Control'
<1> USE OfAssumption DEF Lost, KvInv, Control, TypeOK
<1>1. Calling'
  BY DEF Calling
<1>2. Turns'
  BY DEF Turns, InCall
<1>3. Flocks'
  BY DEF Flocks, Exclusive
<1>4. Buffers'
  BY DEF Buffers
<1>5. Creation'
  BY DEF Creation
<1>6. QED
  BY <1>1, <1>2, <1>3, <1>4, <1>5

LEMMA LostType ==
  ASSUME TypeOK, NEW ps \in SUBSET Procs, Lost(ps),
         exists' \in BOOLEAN, file' \in Files, synced' \in Files, acked' = acked
  PROVE  TypeOK'
  BY OfAssumption, BoundsAssumption DEF Lost, TypeOK, Labels, Calls

LEMMA KillKeeps ==
  ASSUME KvInv, NEW p \in Procs, Kill(p)
  PROVE  KvInv'
<1>1. {p} \in SUBSET Procs /\ Lost({p}) /\ UNCHANGED <<exists, file, synced, acked>>
  BY DEF Kill, fileVars
<1>2. TypeOK'
  BY <1>1, LostType DEF KvInv, TypeOK
<1>3. Control'
  BY <1>1, LostControl
<1>4. FileSound'
  BY <1>1 DEF Lost, FileSound, KvInv, TypeOK
<1>5. QED
  BY <1>2, <1>3, <1>4 DEF KvInv

(* What a power failure leaves begins as the file did, and may end torn. *)
LEMMA TornEnd ==
  ASSUME NEW f \in Files, TornLast(f), NEW n \in 0 .. Len(f)
  PROVE  /\ SubSeq(f, 1, n) \in Files /\ TornLast(SubSeq(f, 1, n))
         /\ Append(SubSeq(f, 1, n), Torn) \in Files
         /\ TornLast(Append(SubSeq(f, 1, n), Torn))
<1> DEFINE g == SubSeq(f, 1, n)
           h == Append(g, Torn)
<1>1. g \in Files /\ Len(g) = n /\ \A i \in 1 .. n : g[i] = f[i]
  BY Beginning
<1>2. TornLast(g)
  BY <1>1, FileType DEF TornLast
<1> HIDE DEF g
<1>3. h \in Files /\ Len(h) = n + 1 /\ \A i \in 1 .. n + 1 : h[i] = IF i <= n THEN g[i] ELSE Torn
  BY <1>1, AppendProperties DEF Files, Entries
<1> HIDE DEF h
<1>4. DOMAIN g = 1 .. n /\ DOMAIN h = 1 .. n + 1 /\ n \in Nat
  BY <1>1, <1>3, FileType
<1>5. TornLast(h)
  BY <1>2, <1>3, <1>4 DEF TornLast
<1>6. QED
  BY <1>1, <1>2, <1>3, <1>5 DEF g, h

LEMMA CommonFound ==
  ASSUME TypeOK
  PROVE  Common \in 0 .. Len(file)
<1> DEFINE S == {n \in 0 .. Len(synced) : n <= Len(file) /\ SubSeq(file, 1, n) = SubSeq(synced, 1, n)}
<1>1. file \in Files /\ synced \in Files
  BY DEF TypeOK
<1>2. Len(file) \in Nat /\ Len(synced) \in Nat
  BY <1>1, FileType
<1>3. SubSeq(file, 1, 0) = <<>> /\ SubSeq(synced, 1, 0) = <<>>
  BY <1>1, SubSeqEmpty
<1>4. S \subseteq 0 .. Len(synced) /\ S # {}
  BY <1>2, <1>3
<1>5. PICK m \in S : \A j \in S : j <= m
  BY <1>2, <1>4, GreatestNumber
<1>6. S \subseteq Int /\ m \in 0 .. Len(file)
  BY <1>2
<1>7. Common = Max(S)
  BY DEF Common
<1> HIDE DEF S
<1>8. Max(S) = m
  BY <1>5, <1>6, MaxIs
<1>9. QED
  BY <1>6, <1>7, <1>8

LEMMA PowerFailureKeeps ==
  ASSUME KvInv, PowerFailure
  PROVE  KvInv'
<1> USE DEF KvInv
<1>1. Procs \in SUBSET Procs /\ Lost(Procs) /\ synced' = file' /\ UNCHANGED <<exists, acked>>
  BY DEF PowerFailure
<1>2. file \in Files /\ synced \in Files /\ TornLast(file) /\ TornLast(synced)
  BY DEF TypeOK, FileSound
<1>3. file' \in Files /\ TornLast(file')
  <2>1. \A n \in Common .. Len(file) : n \in 0 .. Len(file)
    BY CommonFound, <1>2, FileType
  <2>2. CASE \E n \in Common .. Len(file) : file' = SubSeq(file, 1, n)
    BY <1>2, <2>1, <2>2, TornEnd
  <2>3. CASE \E n \in Common .. Len(file) - 1 : file' = Append(SubSeq(file, 1, n), Torn)
    <3>1. PICK n \in Common .. Len(file) - 1 : file' = Append(SubSeq(file, 1, n), Torn)
      BY <2>3
    <3>2. n \in 0 .. Len(file)
      BY CommonFound, <1>2, FileType
    <3>3. QED
      BY <1>2, <3>1, <3>2, TornEnd
  <2>4. CASE file' = synced
    BY <1>2, <2>4
  <2>5. QED
    BY <2>2, <2>3, <2>4 DEF PowerFailure
<1>4. TypeOK'
  BY <1>1, <1>3, LostType DEF TypeOK
<1>5. Control'
  BY <1>1, LostControl
<1>6. FileSound'
  <2>1. (\A p \in Procs : buffer'[p] = NULL) /\ \A t \in Threads : pc'[t] = "idle"
    BY <1>1, ProcessOf DEF Lost
  <2>2. QED
    BY <1>1, <1>3, <2>1 DEF FileSound
<1>7. QED
  BY <1>4, <1>5, <1>6

-----------------------------------------------------------------------------
(* The theorems *)

LEMMA KvInit == Init => KvInv
<1> SUFFICES ASSUME Init PROVE KvInv
  OBVIOUS
<1>1. TypeOK
  BY Emptied, BoundsAssumption DEF Init, TypeOK, Labels, Calls
<1>2. Control
  BY OfAssumption DEF Init, Control, Calling, Turns, InCall, Flocks, Exclusive, Buffers, Creation
<1>3. FileSound
  BY Emptied DEF Init, FileSound
<1>4. QED
  BY <1>1, <1>2, <1>3 DEF KvInv

LEMMA KvNext ==
  ASSUME Preexisting \/ OneProcess, KvInv, [Next]_vars
  PROVE  KvInv'
<1>1. ASSUME NEW t \in Threads, Step(t) PROVE KvInv'
  <2>1. TypeOK' /\ FileSound'
    BY <1>1, TypeKept, FileSoundKept
  <2>2. Calling' /\ Turns' /\ Flocks' /\ Buffers' /\ Creation'
    BY <1>1, CallingKept, TurnsKept, FlocksKept, BuffersKept, CreationKept DEF KvInv, Control
  <2>3. QED
    BY <2>1, <2>2 DEF KvInv, Control
<1>2. ASSUME NEW p \in Procs, Kill(p) PROVE KvInv'
  BY <1>2, KillKeeps
<1>3. CASE PowerFailure
  BY <1>3, PowerFailureKeeps
<1>4. CASE UNCHANGED vars
  BY <1>4 DEF vars, fileVars, procVars, callVars, KvInv, TypeOK, Control, Calling, Turns, InCall,
              Flocks, Exclusive, Buffers, Creation, FileSound
<1>5. QED
  BY <1>1, <1>2, <1>3, <1>4 DEF Next

(* The invariant of kvdb_open, kvdb_put, kvdb_get and kvdb_close: the steps of each
   call, the turns under the mutex and flock, and the file between check_journal and
   the write. *)
THEOREM Invariant ==
  ASSUME Preexisting \/ OneProcess
  PROVE  Spec => []KvInv
<1>1. Init => KvInv
  BY KvInit
<1>2. KvInv /\ [Next]_vars => KvInv'
  BY KvNext
<1>3. QED
  BY <1>1, <1>2, PTL DEF Spec

(* Every variable keeps its type; kvdb_get answers with a value or none. *)
THEOREM TypeCorrect ==
  ASSUME Preexisting \/ OneProcess
  PROVE  Spec => []TypeOK
<1>1. KvInv => TypeOK
  BY DEF KvInv
<1>2. QED
  BY <1>1, Invariant, PTL

(* kvdb_put writes behind whole records and kvdb_get reads nothing but whole records,
   whatever a crash has left at the end of the file before check_journal. *)
THEOREM Checked ==
  ASSUME Preexisting \/ OneProcess
  PROVE  Spec => []CheckedWhole
<1>1. KvInv => CheckedWhole
  BY DEF KvInv, FileSound, AllWhole, CheckedWhole
<1>2. QED
  BY <1>1, Invariant, PTL

-----------------------------------------------------------------------------
(* One process *)

(* Before the file is there, nobody has got past kvdb_open's first step; a record is
   written at the end of the file; what is synced of the file begins as the file does. *)
OneFile ==
  /\ ~exists => /\ up = {} /\ file = <<>> /\ synced = <<>>
                /\ \A t \in Threads : pc[t] \in {"idle", "access", "create"}
  /\ \A t \in Threads : pc[t] = "create" => ~exists
  /\ \A p \in Procs : buffer[p] # NULL => at[p] = Len(file)
  /\ Kept(synced) <= Kept(file)
  /\ \A i \in 1 .. Kept(synced) : synced[i] = file[i]

OneInv == KvInv /\ OneFile

LEMMA OneInit == Init => OneFile
<1> SUFFICES ASSUME Init PROVE OneFile
  OBVIOUS
<1>1. Kept(<<>>) = 0
  BY Emptied, KeptOfWhole
<1>2. QED
  BY <1>1 DEF Init, OneFile

(* With a record to write, the file grows by it. *)
LEMMA FlushAppends ==
  ASSUME OneInv, NEW p \in Procs, buffer[p] # NULL
  PROVE  /\ Flushed(p) = Append(file, buffer[p])
         /\ file \in Files /\ AllWhole(file) /\ buffer[p] \in Records
         /\ Flushed(p) \in Files /\ AllWhole(Flushed(p)) /\ Len(Flushed(p)) = Len(file) + 1
         /\ \A i \in 1 .. Len(file) : Flushed(p)[i] = file[i]
<1>1. /\ file \in Files /\ AllWhole(file) /\ buffer[p] \in Records /\ at[p] = Len(file)
  BY DEF OneInv, KvInv, TypeOK, FileSound, OneFile
<1>2. Len(file) \in 0 .. Len(file)
  BY <1>1, FileType
<1>3. /\ Flushed(p) = Append(file, buffer[p]) /\ Flushed(p) \in Files
      /\ AllWhole(Flushed(p))
  BY <1>1, <1>2, WriteWhole DEF Flushed
<1>4. /\ Len(Append(file, buffer[p])) = Len(file) + 1
      /\ \A i \in 1 .. Len(file) : Append(file, buffer[p])[i] = file[i]
  BY <1>1, <1>2, AppendProperties DEF Files, Entries
<1>5. QED
  BY <1>1, <1>3, <1>4

(* Nobody else is in a call while a thread is in kvdb_open. *)
LEMMA OpenAlone ==
  ASSUME OneProcess, KvInv, NEW t \in Threads, op[t] = "open"
  PROVE  \A u \in Threads : u # t => pc[u] = "idle"
  BY ProcessOf DEF OneProcess, KvInv, Control, Turns

LEMMA OneFileKept ==
  ASSUME OneProcess, OneInv, NEW t \in Threads, Step(t)
  PROVE  OneFile'
<1> USE DEF OneInv, KvInv, Control
<1> USE DEF fileVars, procVars
<1>0. file \in Files /\ synced \in Files /\ Kept(file) \in 0 .. Len(file) /\ Kept(synced) \in 0 .. Len(synced)
  BY KeptFound DEF TypeOK
<1>1. CASE Access(t)
  BY <1>1 DEF Access, Goto, OneFile, TypeOK
<1>2. CASE Create(t)
  <2>1. ~exists /\ op[t] = "open"
    BY <1>2 DEF Create, OneFile, Calling
  <2>2. file' = <<>> /\ exists' /\ UNCHANGED <<synced, buffer, at>> /\ pc' = [pc EXCEPT ![t] = "return"]
    BY <1>2 DEF Create, Goto
  <2>3. \A u \in Threads : pc'[u] # "create"
    BY <2>1, <2>2, OpenAlone DEF TypeOK
  <2>4. file' = file
    BY <2>1, <2>2 DEF OneFile
  <2>5. QED
    BY <2>2, <2>3, <2>4 DEF OneFile
<1>3. CASE SeekEnd(t)
  <2>1. /\ file' = Flushed(Of[t]) /\ UNCHANGED <<exists, synced, up>>
        /\ buffer' = [buffer EXCEPT ![Of[t]] = NULL] /\ pc' = [pc EXCEPT ![t] = "truncate"]
    BY <1>3 DEF SeekEnd, Goto
  <2>2. exists
    BY <1>3 DEF SeekEnd, OneFile
  <2>3. \A u \in Threads : pc'[u] = "create" => pc[u] = "create"
    BY <2>1 DEF TypeOK
  <2>4. \A p \in Procs : buffer'[p] = NULL
    BY <2>1, ProcessOf DEF OneProcess, TypeOK
  <2>5. Kept(synced) <= Kept(file') /\ \A i \in 1 .. Kept(synced) : synced[i] = file'[i]
    <3>1. CASE buffer[Of[t]] = NULL
      BY <2>1, <3>1 DEF Flushed, OneFile
    <3>2. CASE buffer[Of[t]] # NULL
      <4>1. /\ AllWhole(file) /\ file' \in Files /\ AllWhole(file') /\ Len(file') = Len(file) + 1
            /\ \A i \in 1 .. Len(file) : file'[i] = file[i]
        BY <2>1, <3>2, FlushAppends, ProcessOf
      <4>2. Kept(file) = Len(file) /\ Kept(file') = Len(file) + 1 /\ Len(file) \in Nat
        BY <1>0, <4>1, KeptOfWhole, FileType
      <4>3. QED
        BY <1>0, <4>1, <4>2 DEF OneFile
    <3>3. QED
      BY <3>1, <3>2
  <2>6. QED
    BY <2>1, <2>2, <2>3, <2>4, <2>5 DEF OneFile
<1>4. CASE Truncate(t)
  <2>1. /\ pc[t] = "truncate" /\ file' = SubSeq(file, 1, Kept(file)) /\ UNCHANGED <<exists, synced, buffer, at, up>>
    BY <1>4 DEF Truncate
  <2>2. file' \in Files /\ Kept(file') = Kept(file) /\ \A i \in 1 .. Kept(file) : file'[i] = file[i]
    <3>1. file' \in Files /\ AllWhole(file') /\ Len(file') = Kept(file)
          /\ \A i \in 1 .. Kept(file) : file'[i] = file[i]
      BY <1>0, <2>1, CutWhole, Beginning DEF FileSound
    <3>2. QED
      BY <3>1, KeptOfWhole
  <2>3. exists
    BY <2>1 DEF OneFile
  <2>4. \A p \in Procs : buffer'[p] = NULL
    BY <2>1, ProcessOf DEF OneProcess, Buffers
  <2>5. \A u \in Threads : pc'[u] = "create" => pc[u] = "create"
    BY <1>4 DEF Truncate, Goto, TypeOK
  <2>6. QED
    BY <1>0, <2>1, <2>2, <2>3, <2>4, <2>5 DEF OneFile
<1>5. CASE WriteRecord(t)
  <2>1. /\ pc[t] = "write" /\ pc' = [pc EXCEPT ![t] = "fsync"] /\ UNCHANGED <<exists, file, synced, up>>
        /\ at' = [at EXCEPT ![Of[t]] = Len(file)]
    BY <1>5 DEF WriteRecord, Goto
  <2>2. \A p \in Procs : at'[p] = Len(file)
    BY <2>1, ProcessOf DEF OneProcess, TypeOK
  <2>3. QED
    BY <2>1, <2>2 DEF OneFile, TypeOK
<1>6. CASE Fsync(t)
  <2>1. /\ pc[t] = "fsync" /\ pc' = [pc EXCEPT ![t] = "unlock"] /\ UNCHANGED <<exists, file, buffer, at, up>>
        /\ synced' = file
    BY <1>6 DEF Fsync, Goto
  <2>2. Kept(synced') = Kept(file')
    BY <2>1
  <2>3. QED
    BY <1>0, <2>1, <2>2 DEF OneFile, TypeOK
<1>7. CASE Return(t)
  <2>1. /\ pc[t] = "return" /\ pc' = [pc EXCEPT ![t] = "idle"]
        /\ UNCHANGED <<exists, file, synced, buffer, at>>
    BY <1>7 DEF Return, Goto
  <2>2. QED
    BY <2>1 DEF OneFile, TypeOK
<1>8. ASSUME ~Access(t), ~Create(t), ~SeekEnd(t), ~Truncate(t), ~WriteRecord(t), ~Fsync(t), ~Return(t)
      PROVE  OneFile'
  <2> DEFINE Left(label) ==
        /\ UNCHANGED <<exists, file, synced, buffer, at, up>> /\ Goto(t, label)
        /\ label # "create" /\ (exists \/ label = "access")
  <2>1. \E label : Left(label)
    <3>1. CASE CallOpen(t)
      BY <3>1 DEF CallOpen, Call
    <3>2. CASE CallClose(t)
      BY <3>2 DEF CallClose, Call, OneFile
    <3>3. ASSUME NEW k \in Keys, NEW v \in Values, CallPut(t, k, v) PROVE \E label : Left(label)
      BY <3>3 DEF CallPut, Call, OneFile
    <3>4. ASSUME NEW k \in Keys, CallGet(t, k) PROVE \E label : Left(label)
      BY <3>4 DEF CallGet, Call, OneFile
    <3>5. CASE LockMutex(t)
      BY <3>5 DEF LockMutex, OneFile
    <3>6. CASE LockExclusive(t)
      BY <3>6 DEF LockExclusive, OneFile
    <3>7. CASE Relock(t)
      BY <3>7 DEF Relock, OneFile
    <3>8. CASE LockShared(t)
      BY <3>8 DEF LockShared, OneFile
    <3>9. CASE Scan(t)
      BY <3>9 DEF Scan, OneFile
    <3>10. CASE Unlock(t)
      BY <3>10 DEF Unlock, OneFile
    <3>11. QED
      BY Step(t), <1>8, <3>1, <3>2, <3>3, <3>4, <3>5, <3>6, <3>7, <3>8, <3>9, <3>10 DEF Step
  <2>2. PICK label : Left(label)
    BY <2>1
  <2>3. QED
    BY <2>2 DEF OneFile, Goto, TypeOK
<1>9. QED
  BY <1>1, <1>2, <1>3, <1>4, <1>5, <1>6, <1>7, <1>8

LEMMA OneFileCrash ==
  ASSUME OneInv, (\E p \in Procs : Kill(p)) \/ PowerFailure
  PROVE  OneFile'
<1>1. ASSUME NEW p \in Procs, Kill(p) PROVE OneFile'
  <2>1. exists /\ Lost({p}) /\ UNCHANGED <<exists, file, synced>>
    BY <1>1 DEF Kill, fileVars, OneInv, OneFile
  <2>2. QED
    BY <2>1 DEF Lost, OneInv, OneFile, KvInv, TypeOK
<1>2. CASE PowerFailure
  <2>1. exists /\ Lost(Procs) /\ exists' = exists /\ synced' = file'
    BY <1>2 DEF PowerFailure
  <2>2. (\A p \in Procs : buffer'[p] = NULL) /\ \A t \in Threads : pc'[t] = "idle"
    BY <2>1, ProcessOf DEF Lost
  <2>3. file' \in Files
    BY <1>2, PowerFailureKeeps DEF OneInv, KvInv, TypeOK
  <2>4. Kept(file') \in Int /\ Kept(synced') = Kept(file')
    BY <2>1, <2>3, KeptFound
  <2>5. QED
    BY <2>1, <2>2, <2>4 DEF OneFile
<1>3. QED
  BY <1>1, <1>2

-----------------------------------------------------------------------------
(* The log that KvAbs sees *)

LEMMA WholeRecords ==
  ASSUME NEW f \in Files, TornLast(f)
  PROVE  SubSeq(f, 1, Kept(f)) \in Seq(Records)
<1> DEFINE g == SubSeq(f, 1, Kept(f))
<1>1. g \in Files /\ AllWhole(g)
  BY CutWhole
<1>2. DOMAIN g = 1 .. Len(g) /\ Len(g) \in Nat /\ g \in [1 .. Len(g) -> Entries]
  BY <1>1, LenProperties DEF Files, Entries
<1>3. g \in [1 .. Len(g) -> Records]
  BY <1>1, <1>2 DEF AllWhole, Entries
<1>4. QED
  BY <1>2, <1>3, SeqDef

LEMMA LogOf ==
  ASSUME OneProcess, NEW p \in Procs
  PROVE  Log = IF buffer[p] = NULL THEN Whole ELSE Append(Whole, buffer[p])
<1>1. \A q \in Procs : q = p
  BY DEF OneProcess
<1>2. CASE buffer[p] = NULL
  BY <1>1, <1>2 DEF Log
<1>3. CASE buffer[p] # NULL
  <2>1. (CHOOSE q \in Procs : buffer[q] # NULL) = p
    BY <1>1, <1>3
  <2>2. QED
    BY <1>3, <2>1 DEF Log
<1>4. QED
  BY <1>2, <1>3

LEMMA LogUnchanged ==
  ASSUME file' = file, buffer' = buffer
  PROVE  Log' = Log
  BY DEF Log, Whole, Kept

LEMMA WholeIsFile ==
  ASSUME file \in Files, AllWhole(file)
  PROVE  Whole = file
  BY KeptOfWhole, SubSeqFull DEF Whole, Files

(* A get, as KvAbs states it. *)
LEMMA SameLookup ==
  ASSUME NEW k \in Keys, file \in Files, AllWhole(file), Log = file
  PROVE  Lookup(k) = Promise!Lookup(k)
<1> DEFINE Found == {i \in DOMAIN file : file[i].key = k}
<1>1. CASE Found = {}
  BY <1>1 DEF Lookup, Promise!Lookup
<1>2. CASE Found # {}
  <2>1. Found \subseteq 1 .. Len(file) /\ Found \subseteq Int
    BY FileType
  <2> DEFINE x == CHOOSE i \in Found : \A j \in Found : j <= i
  <2>2. Lookup(k) = file[Latest(Found)].value
    BY <1>2 DEF Lookup
  <2>3. Promise!Lookup(k) = file[x].value
    BY <1>2 DEF Promise!Lookup
  <2> HIDE DEF Found
  <2>4. Latest(Found) \in Found /\ \A i \in Found : i <= Latest(Found)
    BY <1>2, <2>1, LatestFound
  <2>5. x \in Found /\ \A j \in Found : j <= x
    BY <2>4, Zenon
  <2>6. x = Latest(Found)
    <3>1. PICK y : y = Latest(Found)
      OBVIOUS
    <3> HIDE DEF x
    <3>2. x \in Int /\ y \in Int /\ x <= y /\ y <= x
      BY <2>1, <2>4, <2>5, <3>1
    <3>3. QED
      BY <3>1, <3>2
  <2>7. QED
    BY <2>2, <2>3, <2>6
<1>3. QED
  BY <1>1, <1>2

-----------------------------------------------------------------------------
(* Each step is one of KvAbs or changes nothing that it shows. *)

LEMMA StepImplements ==
  ASSUME OneProcess, OneInv, NEW t \in Threads, Step(t)
  PROVE  Promise!Next \/ UNCHANGED <<Log, answer>>
<1> USE DEF OneInv, KvInv, Control
<1> USE DEF fileVars, procVars
<1> DEFINE p == Of[t]
<1>0. file \in Files /\ p \in Procs
  BY ProcessOf DEF TypeOK
<1>1. ASSUME NEW o, NEW k, NEW v, NEW label, Call(t, o, k, v, label)
      PROVE  Promise!Next
  <2>1. Log' = Log /\ answer' = [answer EXCEPT ![t] = NULL]
    BY <1>1, LogUnchanged DEF Call
  <2>2. QED
    BY <2>1 DEF Promise!Next, Promise!Forget
<1>2. CASE Create(t)
  <2>1. file' = file /\ UNCHANGED <<buffer, answer>>
    BY <1>2 DEF Create, OneFile
  <2>2. QED
    BY <2>1, LogUnchanged
<1>3. CASE SeekEnd(t)
  <2>1. /\ file' = Flushed(p) /\ buffer' = [buffer EXCEPT ![p] = NULL] /\ answer' = answer
        /\ buffer'[p] = NULL
    BY <1>0, <1>3 DEF SeekEnd, TypeOK
  <2>2. Log' = Whole'
    <3>1. \A q \in Procs : q = p
      BY <1>0 DEF OneProcess
    <3>2. QED
      BY <2>1, <3>1 DEF Log
  <2>3. CASE buffer[p] = NULL
    <3>1. file' = file
      BY <2>1, <2>3 DEF Flushed
    <3>2. Whole' = Whole
      BY <3>1 DEF Whole, Kept
    <3>3. QED
      BY <1>0, <2>1, <2>2, <2>3, <3>2, LogOf
  <2>4. CASE buffer[p] # NULL
    <3>1. /\ file' = Append(file, buffer[p]) /\ AllWhole(file)
          /\ file' \in Files /\ AllWhole(file')
      BY <1>0, <2>1, <2>4, FlushAppends
    <3>2. Whole = file
      BY <1>0, <3>1, WholeIsFile
    <3>3. SubSeq(file', 1, Kept(file')) = file'
      BY <3>1, KeptOfWhole, SubSeqFull DEF Files
    <3>4. Log = Append(file, buffer[p])
      BY <1>0, <2>4, <3>2, LogOf
    <3>5. Log' = file'
      BY <2>2, <3>3 DEF Whole
    <3>6. QED
      BY <2>1, <3>1, <3>4, <3>5
  <2>5. QED
    BY <2>3, <2>4
<1>4. CASE Truncate(t)
  <2>1. file' = SubSeq(file, 1, Kept(file)) /\ UNCHANGED <<buffer, answer>> /\ buffer[p] = NULL
    BY <1>4 DEF Truncate, Buffers
  <2>2. file' \in Files /\ AllWhole(file')
    BY <1>0, <2>1, CutWhole DEF FileSound
  <2>3. SubSeq(file', 1, Kept(file')) = file'
    BY <2>2, KeptOfWhole, SubSeqFull DEF Files
  <2>4. Whole' = Whole
    BY <2>1, <2>3 DEF Whole
  <2>5. Log = Whole
    BY <1>0, <2>1, LogOf
  <2>6. Log' = Whole'
    <3>1. \A q \in Procs : q = p
      BY <1>0 DEF OneProcess
    <3>2. QED
      BY <2>1, <3>1 DEF Log
  <2>7. QED
    BY <2>1, <2>4, <2>5, <2>6
<1>5. CASE WriteRecord(t)
  <2> DEFINE r == [key |-> key[t], value |-> value[t]]
  <2>1. /\ pc[t] = "write" /\ UNCHANGED <<file, answer>>
        /\ buffer' = [buffer EXCEPT ![p] = r]
    BY <1>5 DEF WriteRecord
  <2>2. /\ AllWhole(file) /\ buffer[p] = NULL
        /\ key[t] \in Keys /\ value[t] \in Values
    BY <2>1 DEF FileSound, Buffers, Calling
  <2>3. Whole = file /\ Whole' = file
    BY <1>0, <2>1, <2>2, WholeIsFile DEF Whole, Kept
  <2>4. Log = file
    BY <1>0, <2>2, <2>3, LogOf
  <2>5. r \in Records /\ r # NULL
    BY <2>2, MarksAssumption DEF Records
  <2>6. Log' = Append(file, r)
    <3>1. \A q \in Procs : q = p
      BY <1>0 DEF OneProcess
    <3>2. buffer'[p] = r
      BY <1>0, <2>1 DEF TypeOK
    <3> HIDE DEF r
    <3>3. (CHOOSE q \in Procs : buffer'[q] # NULL) = p
      BY <1>0, <2>5, <3>1, <3>2
    <3>4. ~ \A q \in Procs : buffer'[q] = NULL
      BY <1>0, <2>5, <3>2
    <3>5. Log' = Append(Whole', buffer'[CHOOSE q \in Procs : buffer'[q] # NULL])
      BY <3>4 DEF Log
    <3>6. QED
      BY <2>3, <3>2, <3>3, <3>5
  <2>7. Promise!Put(key[t], value[t])
    BY <2>1, <2>4, <2>6 DEF Promise!Put
  <2>8. QED
    BY <2>2, <2>7 DEF Promise!Next
<1>6. CASE Scan(t)
  <2>1. /\ pc[t] = "scan" /\ UNCHANGED <<file, buffer>>
        /\ answer' = [answer EXCEPT ![t] = Lookup(key[t])]
    BY <1>6 DEF Scan
  <2>2. AllWhole(file) /\ buffer[p] = NULL /\ key[t] \in Keys
    BY <2>1 DEF FileSound, Buffers, Calling
  <2>3. Log = file
    BY <1>0, <2>2, WholeIsFile, LogOf
  <2>4. Lookup(key[t]) = Promise!Lookup(key[t])
    BY <1>0, <2>2, <2>3, SameLookup
  <2>5. Promise!Get(t, key[t])
    BY <2>1, <2>4, LogUnchanged DEF Promise!Get
  <2>6. QED
    BY <2>2, <2>5 DEF Promise!Next
<1>7. CASE \/ Access(t) \/ LockMutex(t) \/ LockExclusive(t) \/ Fsync(t) \/ Relock(t)
           \/ LockShared(t) \/ Unlock(t) \/ Return(t)
  <2>1. file' = file /\ buffer' = buffer /\ answer' = answer
    BY <1>7 DEF Access, LockMutex, LockExclusive, Fsync, Relock, LockShared, Unlock, Return
  <2>2. QED
    BY <2>1, LogUnchanged
<1>8. CASE \/ CallOpen(t) \/ CallClose(t)
           \/ (\E k \in Keys, v \in Values : CallPut(t, k, v)) \/ (\E k \in Keys : CallGet(t, k))
  BY <1>1, <1>8 DEF CallOpen, CallClose, CallPut, CallGet
<1>9. QED
  BY Step(t), <1>2, <1>3, <1>4, <1>5, <1>6, <1>7, <1>8 DEF Step

(* A crash leaves a beginning of the log. *)
LEMMA CutLog ==
  ASSUME OneProcess, OneInv, NEW p \in Procs, NEW f \in Files,
         NEW n \in 0 .. Kept(file), Kept(f) = n, \A i \in 1 .. n : f[i] = file[i]
  PROVE  \E m \in 0 .. Len(Log) : SubSeq(f, 1, Kept(f)) = SubSeq(Log, 1, m)
<1>1. /\ file \in Files /\ TornLast(file)
      /\ buffer[p] # NULL => buffer[p] \in Records
  BY DEF OneInv, KvInv, TypeOK, FileSound
<1>2. Whole \in Seq(Records) /\ Len(Whole) = Kept(file) /\ Kept(file) \in Nat
      /\ \A i \in 1 .. Kept(file) : Whole[i] = file[i]
  BY <1>1, WholeRecords, KeptFound, Beginning, FileType DEF Whole
<1>3. Log \in Seq(Records) /\ Kept(file) <= Len(Log) /\ Len(Log) \in Nat
      /\ \A i \in 1 .. Kept(file) : Log[i] = file[i]
  <2>1. CASE buffer[p] = NULL
    BY <1>2, <2>1, LogOf
  <2>2. CASE buffer[p] # NULL
    <3>1. Log = Append(Whole, buffer[p]) /\ buffer[p] \in Records
      BY <1>1, <2>2, LogOf
    <3>2. /\ Append(Whole, buffer[p]) \in Seq(Records)
          /\ Len(Append(Whole, buffer[p])) = Len(Whole) + 1
          /\ \A i \in 1 .. Len(Whole) : Append(Whole, buffer[p])[i] = Whole[i]
      BY <1>2, <3>1, AppendProperties
    <3>3. QED
      BY <1>2, <3>1, <3>2
  <2>3. QED
    BY <2>1, <2>2
<1>4. n \in 0 .. Len(Log) /\ n \in 0 .. Len(f)
  BY <1>2, <1>3, KeptFound
<1>5. /\ SubSeq(f, 1, n) \in Files /\ Len(SubSeq(f, 1, n)) = n
      /\ \A i \in 1 .. n : SubSeq(f, 1, n)[i] = f[i]
  BY <1>4, Beginning
<1>6. Log \in Files
  BY <1>3, SeqMonotonic DEF Files
<1>7. /\ SubSeq(Log, 1, n) \in Files /\ Len(SubSeq(Log, 1, n)) = n
      /\ \A i \in 1 .. n : SubSeq(Log, 1, n)[i] = Log[i]
  BY <1>4, <1>6, Beginning
<1>8. \A i \in 1 .. n : f[i] = Log[i]
  BY <1>2, <1>3
<1>9. SubSeq(f, 1, n) = SubSeq(Log, 1, n)
  BY <1>5, <1>7, <1>8, SeqEqual DEF Files
<1>10. QED
  BY <1>4, <1>9

LEMMA CrashImplements ==
  ASSUME OneProcess, OneInv, NEW p \in Procs, NEW ps \in SUBSET Procs, p \in ps, Lost(ps),
         file' \in Files, Kept(file') <= Kept(file),
         \A i \in 1 .. Kept(file') : file'[i] = file[i]
  PROVE  Promise!Next
<1>1. \A q \in Procs : q = p
  BY DEF OneProcess
<1>2. (\A q \in Procs : buffer'[q] = NULL) /\ answer' = [t \in Threads |-> NULL]
  BY <1>1, ProcessOf DEF Lost
<1>3. Log' = SubSeq(file', 1, Kept(file'))
  BY <1>2 DEF Log, Whole
<1>4. Kept(file') \in 0 .. Kept(file)
  BY KeptFound DEF OneInv, KvInv, TypeOK
<1>5. \E m \in 0 .. Len(Log) : Log' = SubSeq(Log, 1, m)
  BY <1>3, <1>4, CutLog
<1>6. QED
  BY <1>2, <1>5 DEF Promise!Next, Promise!Crash

(* What is left of a file whose end is lost, and perhaps torn. *)
LEMMA KeptOfBeginning ==
  ASSUME NEW f \in Files, NEW g \in Files, NEW n \in 0 .. Len(f), n <= Len(g),
         \A i \in 1 .. n : g[i] = f[i], \A i \in 1 .. Len(g) : n < i => g[i] = Torn
  PROVE  Kept(g) <= Kept(f) /\ \A i \in 1 .. Kept(g) : g[i] = f[i]
<1>1. /\ Kept(g) \in 0 .. Len(g) /\ (Kept(g) # 0 => g[Kept(g)] # Torn)
      /\ Kept(f) \in 0 .. Len(f) /\ \A i \in 1 .. Len(f) : Kept(f) < i => f[i] = Torn
      /\ Len(f) \in Nat /\ Len(g) \in Nat
  BY KeptFound, FileType
<1>2. Kept(g) <= n
  BY <1>1
<1>3. Kept(g) <= Kept(f)
  BY <1>1, <1>2
<1>4. QED
  BY <1>1, <1>2, <1>3

LEMMA LossImplements ==
  ASSUME OneProcess, OneInv, PowerFailure
  PROVE  Promise!Next
<1>1. PICK p \in Procs : Lost(Procs)
  BY DEF OneProcess, PowerFailure
<1>2. /\ file \in Files /\ TornLast(file) /\ Len(file) \in Nat
      /\ Kept(synced) <= Kept(file) /\ \A i \in 1 .. Kept(synced) : synced[i] = file[i]
  BY FileType DEF OneInv, KvInv, TypeOK, FileSound, OneFile
<1>3. file' \in Files
  BY PowerFailureKeeps DEF OneInv, KvInv, TypeOK
<1>4. Common \in 0 .. Len(file)
  BY CommonFound DEF OneInv, KvInv
<1>5. Kept(file') <= Kept(file) /\ \A i \in 1 .. Kept(file') : file'[i] = file[i]
  <2>1. ASSUME NEW n \in Common .. Len(file), file' = SubSeq(file, 1, n)
        PROVE  Kept(file') <= Kept(file) /\ \A i \in 1 .. Kept(file') : file'[i] = file[i]
    <3>1. n \in 0 .. Len(file)
      BY <1>2, <1>4
    <3>2. Len(file') = n /\ \A i \in 1 .. n : file'[i] = file[i]
      BY <1>2, <2>1, <3>1, Beginning
    <3>3. QED
      BY <1>2, <1>3, <3>1, <3>2, KeptOfBeginning
  <2>2. ASSUME NEW n \in Common .. Len(file) - 1, file' = Append(SubSeq(file, 1, n), Torn)
        PROVE  Kept(file') <= Kept(file) /\ \A i \in 1 .. Kept(file') : file'[i] = file[i]
    <3>1. n \in 0 .. Len(file)
      BY <1>2, <1>4
    <3> DEFINE g == SubSeq(file, 1, n)
    <3>2. g \in Files /\ Len(g) = n /\ \A i \in 1 .. n : g[i] = file[i]
      BY <1>2, <3>1, Beginning
    <3> HIDE DEF g
    <3>3. Len(Append(g, Torn)) = n + 1
          /\ \A i \in 1 .. n + 1 : Append(g, Torn)[i] = IF i <= n THEN g[i] ELSE Torn
      BY <3>2, AppendProperties DEF Files, Entries
    <3>4. Len(file') = n + 1 /\ (\A i \in 1 .. n : file'[i] = file[i]) /\ file'[n + 1] = Torn
      BY <2>2, <3>1, <3>2, <3>3 DEF g
    <3>5. QED
      BY <1>2, <1>3, <3>1, <3>4, KeptOfBeginning
  <2>3. CASE file' = synced
    BY <1>2, <2>3
  <2>4. QED
    BY <2>1, <2>2, <2>3 DEF PowerFailure
<1>6. QED
  BY <1>1, <1>3, <1>5, CrashImplements

LEMMA KillImplements ==
  ASSUME OneProcess, OneInv, NEW p \in Procs, Kill(p)
  PROVE  Promise!Next
<1>1. Lost({p}) /\ file' = file /\ {p} \in SUBSET Procs
  BY DEF Kill, fileVars
<1>2. file \in Files /\ Kept(file) \in Nat
  BY KeptFound, FileType DEF OneInv, KvInv, TypeOK
<1>3. Kept(file') = Kept(file)
  BY <1>1
<1>4. QED
  BY <1>1, <1>2, <1>3, CrashImplements

LEMMA NextImplements ==
  ASSUME OneProcess, OneInv, [Next]_vars
  PROVE  [Promise!Next]_<<Log, answer>>
<1>1. ASSUME NEW t \in Threads, Step(t) PROVE Promise!Next \/ UNCHANGED <<Log, answer>>
  BY <1>1, StepImplements
<1>2. ASSUME NEW p \in Procs, Kill(p) PROVE Promise!Next
  BY <1>2, KillImplements
<1>3. CASE PowerFailure
  BY <1>3, LossImplements
<1>4. CASE UNCHANGED vars
  BY <1>4, LogUnchanged DEF vars, fileVars, procVars
<1>5. QED
  BY <1>1, <1>2, <1>3, <1>4 DEF Next

LEMMA OneNext ==
  ASSUME OneProcess, OneInv, [Next]_vars
  PROVE  OneInv'
<1>1. KvInv'
  BY KvNext DEF OneInv
<1>2. OneFile'
  <2>1. CASE UNCHANGED vars
    BY <2>1 DEF vars, fileVars, procVars, OneInv, OneFile, Kept
  <2>2. QED
    BY <2>1, OneFileKept, OneFileCrash DEF Next
<1>3. QED
  BY <1>1, <1>2 DEF OneInv

(* A process with any number of threads, killed or cut off from power at any moment,
   shows a store from which a crash takes the latest puts at most; gets answer from
   the puts in effect. *)
THEOREM Implements ==
  ASSUME OneProcess
  PROVE  Spec => CrashConsistent
<1>1. Init => OneInv
  BY KvInit, OneInit DEF OneInv
<1>2. OneInv /\ [Next]_vars => OneInv'
  BY OneNext
<1>3. Init => Promise!Init
  <2> SUFFICES ASSUME Init PROVE Promise!Init
    OBVIOUS
  <2>1. file = <<>> /\ (\A p \in Procs : buffer[p] = NULL) /\ answer = [t \in Threads |-> NULL]
    BY DEF Init
  <2>2. Kept(<<>>) = 0 /\ SubSeq(<<>>, 1, 0) = <<>>
    BY Emptied, KeptOfWhole, SubSeqEmpty
  <2>3. Log = <<>>
    BY <2>1, <2>2 DEF Log, Whole
  <2>4. QED
    BY <2>1, <2>3 DEF Promise!Init
<1>4. OneInv /\ [Next]_vars => [Promise!Next]_<<Log, answer>>
  BY NextImplements
<1>5. QED
  BY <1>1, <1>2, <1>3, <1>4, PTL DEF Spec, CrashConsistent, Promise!Spec

=============================================================================
