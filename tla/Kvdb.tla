-------------------------------- MODULE Kvdb --------------------------------
(***************************************************************************)
(* The key-value store libkvdb/kvdb.c: a file of records "\nkey value\n"   *)
(* that processes share under flock, each with a FILE and a mutex for its  *)
(* threads.                                                                *)
(*                                                                         *)
(* The file is opened "r+", so what fprintf leaves in the FILE's buffer is *)
(* written where the end of the file was at the fseek before it.  fsync is *)
(* a call on the descriptor: the buffer is written by the next fseek.      *)
(*                                                                         *)
(* The file is a sequence of records, all of the same length; Torn stands  *)
(* for the beginning of one whose newline at the end is missing.  Keys and *)
(* values have no blanks.  A FILE sees the file as it is after             *)
(* fseek(SEEK_END).  flock and the pthread calls do not fail.  A process   *)
(* may be killed; the machine may stop, after which any part of what was   *)
(* not synced is missing at the end of the file.                           *)
(*                                                                         *)
(* A definition whose name begins with Faulty is a variant of the one that *)
(* follows it with a slip in it, which no action uses.                     *)
(***************************************************************************)
EXTENDS Integers, Sequences, FiniteSetsExt

CONSTANTS
  Procs,
  Threads,
  Of,          \* the process of each thread
  Keys, Values,
  Preexisting, \* is there an (empty) file to begin with?
  MaxFile,     \* bound: no put starts on a file of that length
  MaxCrashes,  \* bound: crashes
  NULL, Torn

ASSUME OfAssumption == Of \in [Threads -> Procs]
ASSUME BoundsAssumption == MaxFile \in Nat /\ MaxCrashes \in Nat /\ Preexisting \in BOOLEAN

VARIABLES
  exists, file,  \* the file in the file system
  synced,        \* what it was when last synced
  excl, shared,  \* who holds LOCK_EX, and who LOCK_SH
  up,            \* processes whose kvdb_t is open
  mutex,         \* db->mutex of each process: the thread that holds it
  buffer, at,    \* what the FILE of each process has to write, and where
  pc, op, key, value,  \* each thread: where it is, in which call, with which arguments
  answer,        \* what kvdb_get returned last
  acked,         \* records whose kvdb_put returned 0
  crashes

fileVars == <<exists, file, synced>>
procVars == <<up, buffer, at>>
callVars == <<op, key, value>>
vars == <<fileVars, excl, shared, procVars, mutex, pc, callVars, answer, acked, crashes>>

Records == [key : Keys, value : Values]
Files == Seq(Records \cup {Torn})

ASSUME MarksAssumption == Torn \notin Records /\ NULL \notin Records \cup Procs \cup Threads

Labels == {"idle", "access", "create", "mutex", "ex", "seek", "truncate", "write", "fsync",
           "relock", "sh", "scan", "unlock", "return"}
Calls == {"none", "open", "close", "put", "get"}

(* The file consists of records and torn ends of records, a FILE has at most one record
   to write, and kvdb_get answers with a value or NULL. *)
TypeOK ==
  /\ exists \in BOOLEAN
  /\ file \in Files /\ synced \in Files
  /\ excl \in Procs \cup {NULL} /\ shared \subseteq Procs
  /\ up \subseteq Procs
  /\ mutex \in [Procs -> Threads \cup {NULL}]
  /\ buffer \in [Procs -> Records \cup {NULL}]
  /\ at \in [Procs -> Nat]
  /\ pc \in [Threads -> Labels] /\ op \in [Threads -> Calls]
  /\ key \in [Threads -> Keys \cup {NULL}] /\ value \in [Threads -> Values \cup {NULL}]
  /\ answer \in [Threads -> Values \cup {NULL}]
  /\ acked \subseteq Records
  /\ crashes \in 0 .. MaxCrashes

Init ==
  /\ exists = Preexisting /\ file = <<>> /\ synced = <<>>
  /\ excl = NULL /\ shared = {}
  /\ up = {}
  /\ mutex = [p \in Procs |-> NULL]
  /\ buffer = [p \in Procs |-> NULL]
  /\ at = [p \in Procs |-> 0]
  /\ pc = [t \in Threads |-> "idle"]
  /\ op = [t \in Threads |-> "none"]
  /\ key = [t \in Threads |-> NULL]
  /\ value = [t \in Threads |-> NULL]
  /\ answer = [t \in Threads |-> NULL]
  /\ acked = {}
  /\ crashes = 0

Goto(t, label) == pc' = [pc EXCEPT ![t] = label]

-----------------------------------------------------------------------------
(* Calls *)

Call(t, o, k, v, label) ==
  /\ pc[t] = "idle"
  /\ op' = [op EXCEPT ![t] = o]
  /\ key' = [key EXCEPT ![t] = k]
  /\ value' = [value EXCEPT ![t] = v]
  /\ answer' = [answer EXCEPT ![t] = NULL]
  /\ Goto(t, label)
  /\ UNCHANGED <<fileVars, excl, shared, procVars, mutex, acked, crashes>>

(* One thread opens and closes the process's kvdb_t, when the others are idle. *)
Alone(t) == \A u \in Threads : Of[u] = Of[t] => pc[u] = "idle"

CallOpen(t) == Of[t] \notin up /\ Alone(t) /\ Call(t, "open", NULL, NULL, "access")
CallClose(t) == Of[t] \in up /\ Alone(t) /\ Call(t, "close", NULL, NULL, "mutex")
NotClosing(t) == \A u \in Threads : Of[u] = Of[t] => op[u] \notin {"open", "close"}

CallPut(t, k, v) ==
  /\ Of[t] \in up /\ NotClosing(t)
  /\ Len(file) < MaxFile
  /\ Call(t, "put", k, v, "mutex")

CallGet(t, k) == Of[t] \in up /\ NotClosing(t) /\ Call(t, "get", k, NULL, "mutex")

-----------------------------------------------------------------------------
(* kvdb_open: a file that is there is checked under LOCK_EX, the mutex being
   the caller's own; one that is not is created, or emptied, without a lock. *)

Access(t) ==
  /\ pc[t] = "access"
  /\ Goto(t, IF exists THEN "ex" ELSE "create")
  /\ UNCHANGED <<fileVars, excl, shared, procVars, mutex, callVars, answer, acked, crashes>>

Create(t) ==
  /\ pc[t] = "create"
  /\ exists' = TRUE
  /\ file' = <<>>
  /\ Goto(t, "return")
  /\ UNCHANGED <<synced, excl, shared, procVars, mutex, callVars, answer, acked, crashes>>

-----------------------------------------------------------------------------
(* The steps of kvdb_put, kvdb_get and kvdb_close *)

LockMutex(t) ==
  /\ pc[t] = "mutex"
  /\ mutex[Of[t]] = NULL
  /\ mutex' = [mutex EXCEPT ![Of[t]] = t]
  /\ Goto(t, "ex")
  /\ UNCHANGED <<fileVars, excl, shared, procVars, callVars, answer, acked, crashes>>

LockExclusive(t) ==
  /\ pc[t] = "ex"
  /\ excl = NULL /\ shared = {}
  /\ excl' = Of[t]
  /\ Goto(t, "seek")
  /\ UNCHANGED <<fileVars, shared, procVars, mutex, callVars, answer, acked, crashes>>

(* A write of record r behind the first n: it replaces what is there. *)
Written(f, n, r) ==
  [i \in 1 .. Max({Len(f), n + 1}) |->
     IF i = n + 1 THEN r ELSE IF i <= Len(f) THEN f[i] ELSE Torn]

Flushed(p) == IF buffer[p] = NULL THEN file ELSE Written(file, at[p], buffer[p])

(* check_journal's first fseek: the buffer is written. *)
SeekEnd(t) ==
  /\ pc[t] = "seek"
  /\ file' = Flushed(Of[t])
  /\ buffer' = [buffer EXCEPT ![Of[t]] = NULL]
  /\ at' = [at EXCEPT ![Of[t]] = 0]
  /\ Goto(t, "truncate")
  /\ UNCHANGED <<exists, synced, excl, shared, up, mutex, callVars, answer, acked, crashes>>

(* check_journal: the length to which it cuts the file.  It looks from the end
   for a line with one blank; the newline a torn record begins with follows on
   the one before it and ends no such line. *)
FaultyKept(f) == Len(f)

Kept(f) == Max({i \in DOMAIN f : f[i] # Torn} \cup {0})

Truncate(t) ==
  /\ pc[t] = "truncate"
  /\ file' = SubSeq(file, 1, Kept(file))
  /\ Goto(t, CASE op[t] = "put" -> "write"
               [] op[t] = "get" -> "relock"
               [] OTHER -> "unlock")
  /\ UNCHANGED <<exists, synced, excl, shared, procVars, mutex, callVars, answer, acked, crashes>>

WriteRecord(t) ==
  /\ pc[t] = "write"
  /\ buffer' = [buffer EXCEPT ![Of[t]] = [key |-> key[t], value |-> value[t]]]
  /\ at' = [at EXCEPT ![Of[t]] = Len(file)]
  /\ Goto(t, "fsync")
  /\ UNCHANGED <<fileVars, excl, shared, up, mutex, callVars, answer, acked, crashes>>

Fsync(t) ==
  /\ pc[t] = "fsync"
  /\ synced' = file
  /\ Goto(t, "unlock")
  /\ UNCHANGED <<exists, file, excl, shared, procVars, mutex, callVars, answer, acked, crashes>>

(* kvdb_get gives LOCK_EX up before it takes LOCK_SH. *)
Relock(t) ==
  /\ pc[t] = "relock"
  /\ excl' = NULL
  /\ Goto(t, "sh")
  /\ UNCHANGED <<fileVars, shared, procVars, mutex, callVars, answer, acked, crashes>>

LockShared(t) ==
  /\ pc[t] = "sh"
  /\ excl = NULL
  /\ shared' = shared \cup {Of[t]}
  /\ Goto(t, "scan")
  /\ UNCHANGED <<fileVars, excl, procVars, mutex, callVars, answer, acked, crashes>>

(* The last record with a key: the scan goes from the end to the beginning. *)
FaultyLatest(Found) == Min(Found)

Latest(Found) == Max(Found)

Lookup(k) ==
  LET Found == {i \in DOMAIN file : file[i].key = k}
  IN IF Found = {} THEN NULL ELSE file[Latest(Found)].value

Scan(t) ==
  /\ pc[t] = "scan"
  /\ answer' = [answer EXCEPT ![t] = Lookup(key[t])]
  /\ Goto(t, "unlock")
  /\ UNCHANGED <<fileVars, excl, shared, procVars, mutex, callVars, acked, crashes>>

Unlock(t) ==
  /\ pc[t] = "unlock"
  /\ excl' = IF excl = Of[t] THEN NULL ELSE excl
  /\ shared' = shared \ {Of[t]}
  /\ Goto(t, "return")
  /\ UNCHANGED <<fileVars, procVars, mutex, callVars, answer, acked, crashes>>

Return(t) ==
  /\ pc[t] = "return"
  /\ mutex' = [mutex EXCEPT ![Of[t]] = NULL]
  /\ up' = CASE op[t] = "open" -> up \cup {Of[t]}
             [] op[t] = "close" -> up \ {Of[t]}
             [] OTHER -> up
  /\ acked' = acked \cup {[key |-> key[t], value |-> value[t]] : o \in {op[t]} \cap {"put"}}
  /\ op' = [op EXCEPT ![t] = "none"]
  /\ key' = [key EXCEPT ![t] = NULL]
  /\ value' = [value EXCEPT ![t] = NULL]
  /\ Goto(t, "idle")
  /\ UNCHANGED <<fileVars, excl, shared, buffer, at, answer, crashes>>

-----------------------------------------------------------------------------
(* Crashes *)

(* What a crash leaves of processes ps. *)
Lost(ps) ==
  /\ crashes < MaxCrashes
  /\ crashes' = crashes + 1
  /\ excl' = IF excl \in ps THEN NULL ELSE excl
  /\ shared' = shared \ ps
  /\ up' = up \ ps
  /\ mutex' = [p \in Procs |-> IF p \in ps THEN NULL ELSE mutex[p]]
  /\ buffer' = [p \in Procs |-> IF p \in ps THEN NULL ELSE buffer[p]]
  /\ at' = [p \in Procs |-> IF p \in ps THEN 0 ELSE at[p]]
  /\ pc' = [t \in Threads |-> IF Of[t] \in ps THEN "idle" ELSE pc[t]]
  /\ op' = [t \in Threads |-> IF Of[t] \in ps THEN "none" ELSE op[t]]
  /\ key' = [t \in Threads |-> IF Of[t] \in ps THEN NULL ELSE key[t]]
  /\ value' = [t \in Threads |-> IF Of[t] \in ps THEN NULL ELSE value[t]]
  /\ answer' = [t \in Threads |-> IF Of[t] \in ps THEN NULL ELSE answer[t]]

Kill(p) ==
  /\ p \in up
  /\ Lost({p})
  /\ UNCHANGED <<fileVars, acked>>

(* The records that the file and what was synced of it begin with. *)
Common == Max({n \in 0 .. Len(synced) : n <= Len(file) /\ SubSeq(file, 1, n) = SubSeq(synced, 1, n)})

PowerFailure ==
  /\ exists
  /\ Lost(Procs)
  /\ \/ \E n \in Common .. Len(file) : file' = SubSeq(file, 1, n)
     \/ \E n \in Common .. Len(file) - 1 : file' = Append(SubSeq(file, 1, n), Torn)
     \/ file' = synced
  /\ synced' = file'
  /\ UNCHANGED <<exists, acked>>

-----------------------------------------------------------------------------

Step(t) ==
  \/ CallOpen(t)
  \/ CallClose(t)
  \/ \E k \in Keys, v \in Values : CallPut(t, k, v)
  \/ \E k \in Keys : CallGet(t, k)
  \/ Access(t)
  \/ Create(t)
  \/ LockMutex(t)
  \/ LockExclusive(t)
  \/ SeekEnd(t)
  \/ Truncate(t)
  \/ WriteRecord(t)
  \/ Fsync(t)
  \/ Relock(t)
  \/ LockShared(t)
  \/ Scan(t)
  \/ Unlock(t)
  \/ Return(t)

Next ==
  \/ \E t \in Threads : Step(t)
  \/ \E p \in Procs : Kill(p)
  \/ PowerFailure

Spec == Init /\ [][Next]_vars

-----------------------------------------------------------------------------
(* Properties *)

(* The puts in effect, for one process: the whole records of the file, and the
   one its FILE has still to write. *)
Whole == SubSeq(file, 1, Kept(file))
Log ==
  IF \A p \in Procs : buffer[p] = NULL THEN Whole
  ELSE Append(Whole, buffer[CHOOSE p \in Procs : buffer[p] # NULL])

(* Once check_journal is through, the file consists of whole records: nothing
   of a torn one is left in front of the next. *)
CheckedWhole ==
  \A t \in Threads : pc[t] \in {"write", "relock", "sh", "scan"} =>
    \A i \in DOMAIN file : file[i] # Torn

(* A put that has returned stays in effect: its record is in the file, or about
   to be written. *)
PutsStay ==
  \A r \in acked : (\E i \in DOMAIN file : file[i] = r) \/ \E p \in Procs : buffer[p] = r

Promise == INSTANCE KvAbs WITH log <- Log

(* One process: its threads see a store of which a crash takes away at most the
   latest puts. *)
CrashConsistent == Promise!Spec

=============================================================================
