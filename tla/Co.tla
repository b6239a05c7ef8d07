--------------------------------- MODULE Co ---------------------------------
(***************************************************************************)
(* Coroutines: libco/co.c.  There is one thread.  It runs one coroutine at *)
(* a time until that calls co_yield, or co_start, or co_wait, which calls  *)
(* co_yield in a loop.                                                     *)
(*                                                                         *)
(* A place on a stack is the chain of library calls whose frames are on    *)
(* it, "user" when there are none.  setjmp puts the place it is called at  *)
(* into env, and that is good until the function that called it returns.   *)
(* co_wait and the co_yield that it calls both have a setjmp, for one env. *)
(* changeframe puts the place into stackptr; longjmp goes to the place in  *)
(* env and restoreframe takes the stack pointer from stackptr.             *)
(*                                                                         *)
(* The programs that use the library start coroutines, wait for those they *)
(* were given a handle of, yield, and return.  Slot 0 is main.             *)
(*                                                                         *)
(* A definition whose name begins with Faulty is a variant of the one that *)
(* follows it with a slip in it, which no action uses.                     *)
(***************************************************************************)
EXTENDS Integers

CONSTANTS
  MAX_CO,  \* entries of crs[]; a caller's bound, the code does not check it
  NOCO

ASSUME CoAssumption == MAX_CO \in Nat \ {0} /\ NOCO \notin Nat

CoSlots == 0 .. MAX_CO - 1

VARIABLES
  co_num, cur,
  pre,       \* the coroutine in co_yield that has set cur and not jumped yet, or NOCO
  done,      \* crs[c].done
  env,       \* crs[c].env: the place it names, "gone" if that is no more
  stackptr,  \* crs[c].stackptr: the place it points to
  at,        \* where the stack of coroutine c is
  waitfor,   \* the argument of co_wait, when it is in one
  child,     \* the coroutine that its last co_start made
  handle     \* what that co_start returned

co_vars == <<co_num, cur, pre, done, env, stackptr, at, waitfor, child, handle>>

Places == {"user", "start", "yield", "wait", "wait.yield"}

(* Whoever runs is one of the coroutines, and a place is a place. *)
CoTypeOK ==
  /\ co_num \in CoSlots /\ cur \in 0 .. co_num /\ pre \in 0 .. co_num \cup {NOCO}
  /\ done \in [CoSlots -> BOOLEAN]
  /\ env \in [CoSlots -> Places \cup {"gone"}]
  /\ stackptr \in [CoSlots -> Places] /\ at \in [CoSlots -> Places]
  /\ waitfor \in [CoSlots -> CoSlots \cup {NOCO}]
  /\ child \in [CoSlots -> CoSlots \cup {NOCO}] /\ handle \in [CoSlots -> CoSlots \cup {NOCO}]

(* co_init *)
co_init ==
  /\ co_num = 0 /\ cur = 0 /\ pre = NOCO
  /\ done = [c \in CoSlots |-> FALSE]
  /\ env = [c \in CoSlots |-> "gone"] /\ stackptr = [c \in CoSlots |-> "user"]
  /\ at = [c \in CoSlots |-> "user"]
  /\ waitfor = [c \in CoSlots |-> NOCO]
  /\ child = [c \in CoSlots |-> NOCO] /\ handle = [c \in CoSlots |-> NOCO]

-----------------------------------------------------------------------------

(* The coroutine that runs is at that place. *)
Runs(place) == pre = NOCO /\ at[cur] = place

FaultyReturned == cur

Returned == co_num

(* co_start up to the call of the function: the new coroutine runs at once, on its
   own stack. *)
Start ==
  /\ Runs("user")
  /\ co_num + 1 \in CoSlots
  /\ co_num' = co_num + 1
  /\ done' = [done EXCEPT ![co_num + 1] = FALSE]
  /\ at' = [at EXCEPT ![cur] = "start"]
  /\ env' = [env EXCEPT ![cur] = "start"]
  /\ stackptr' = [stackptr EXCEPT ![cur] = "start", ![co_num + 1] = "user"]
  /\ child' = [child EXCEPT ![cur] = co_num + 1]
  /\ cur' = co_num + 1
  /\ UNCHANGED <<pre, waitfor, handle>>

(* rand() % (co_num + 1) *)
FaultyPicks == 0 .. co_num - 1

Picks == 0 .. co_num

(* co_yield is called, for a frame at that place.  Its loop picks until a coroutine
   is not done, possibly the caller itself. *)
Yield(n, place) ==
  /\ n \in Picks
  /\ ~done'[n]
  /\ at' = [at EXCEPT ![cur] = place]
  /\ pre' = cur
  /\ cur' = n
  /\ UNCHANGED <<co_num, stackptr, child, handle>>

co_yield(n) ==
  /\ Runs("user")
  /\ UNCHANGED <<done, env, waitfor>>
  /\ Yield(n, "yield")

(* The function of a coroutine returns, into co_start on its own stack, which
   marks it as done and yields. *)
Finish(n) ==
  /\ Runs("user")
  /\ cur # 0
  /\ done' = [done EXCEPT ![cur] = TRUE]
  /\ UNCHANGED <<env, waitfor>>
  /\ Yield(n, "yield")

FaultySaved == [env EXCEPT ![cur] = at[pre]]

(* The setjmp of co_yield, called when cur is somebody else already. *)
Saved == [env EXCEPT ![pre] = at[pre]]

(* The rest of co_yield in the coroutine that leaves: setjmp, changeframe, longjmp. *)
Switch ==
  /\ pre # NOCO
  /\ env' = Saved
  /\ stackptr' = [stackptr EXCEPT ![pre] = at[pre]]
  /\ at' = [at EXCEPT ![cur] = Saved[cur]]
  /\ pre' = NOCO
  /\ UNCHANGED <<co_num, cur, done, waitfor, child, handle>>

(* In the one that goes on: restoreframe, and co_yield or co_start returns. *)
Return ==
  /\ \/ Runs("yield") /\ at' = [at EXCEPT ![cur] = "user"] /\ UNCHANGED handle
     \/ Runs("wait.yield") /\ at' = [at EXCEPT ![cur] = "wait"] /\ UNCHANGED handle
     \/ /\ Runs("start")
        /\ at' = [at EXCEPT ![cur] = "user"]
        /\ handle' = [handle EXCEPT ![cur] = Returned]
  /\ env' = [env EXCEPT ![cur] = "gone"]
  /\ UNCHANGED <<co_num, cur, pre, done, stackptr, waitfor, child>>

(* co_wait is called, and goes round its loop: setjmp, then co_yield. *)
WaitCall ==
  /\ Runs("user")
  /\ handle[cur] # NOCO
  /\ waitfor' = [waitfor EXCEPT ![cur] = handle[cur]]
  /\ at' = [at EXCEPT ![cur] = "wait"]
  /\ UNCHANGED <<co_num, cur, pre, done, env, stackptr, child, handle>>

WaitYield(n) ==
  /\ Runs("wait")
  /\ ~done[waitfor[cur]]
  /\ env' = [env EXCEPT ![cur] = "wait"]
  /\ UNCHANGED <<done, waitfor>>
  /\ Yield(n, "wait.yield")

WaitReturn ==
  /\ Runs("wait")
  /\ done[waitfor[cur]]
  /\ waitfor' = [waitfor EXCEPT ![cur] = NOCO]
  /\ at' = [at EXCEPT ![cur] = "user"]
  /\ env' = [env EXCEPT ![cur] = "gone"]
  /\ UNCHANGED <<co_num, cur, pre, done, stackptr, child, handle>>

CoNext ==
  \/ Start \/ Switch \/ Return
  \/ WaitCall \/ WaitReturn
  \/ \E n \in CoSlots : co_yield(n) \/ Finish(n) \/ WaitYield(n)

CoSpec == co_init /\ [][CoNext]_co_vars

(* The thread goes on.  rand() answers every number again and again, and the
   functions return: a coroutine that is run again and again ends. *)
CoFairness ==
  /\ WF_co_vars(Switch \/ Return \/ WaitReturn
                \/ \E n \in CoSlots : co_yield(n) \/ Finish(n) \/ WaitYield(n))
  /\ \A n \in CoSlots : SF_co_vars(co_yield(n) \/ Finish(n) \/ WaitYield(n))
  /\ \A c \in CoSlots : SF_co_vars(cur = c /\ \E n \in CoSlots : Finish(n))

CoFairSpec == CoSpec /\ CoFairness

-----------------------------------------------------------------------------
(* Properties *)

Known == 0 .. co_num

(* The coroutine whose code the thread is in: not yet cur while co_yield leaves. *)
Runner == IF pre = NOCO THEN cur ELSE pre

(* A jump lands in a coroutine whose function has not returned, and in the frame it
   left: whoever does not run has the registers and the stack pointer of the
   innermost call it is in, not those of the co_wait around it nor of a call that has
   returned since. *)
JumpsLand ==
  /\ ~done[cur]
  /\ \A c \in Known \ {Runner} : ~done[c] => env[c] = at[c] /\ stackptr[c] = at[c]

(* co_start returns the coroutine it made, unless somebody else started another
   one before its caller was resumed: what it returns is the one made last. *)
HandleIsChild ==
  \A c \in Known : at[c] # "start" =>
    \/ handle[c] = child[c]
    \/ \E d \in Known \ {c} : child[d] # NOCO /\ child[d] > child[c]

(* co_wait returns. *)
WaitEnds == \A c \in CoSlots : waitfor[c] # NOCO ~> waitfor[c] = NOCO

=============================================================================
