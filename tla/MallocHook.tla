------------------------------ MODULE MallocHook ------------------------------
(***************************************************************************)
(* threadsafety_test: hooks that count the calls of malloc and free.  A    *)
(* hook takes its spin lock, puts the library's hook back for the call it  *)
(* makes itself, counts with atomic_inc of util.h and hooks in again.      *)
(***************************************************************************)
EXTENDS Integers, FiniteSets

CONSTANTS
  Threads,
  CALLS    \* bound on the calls of a thread, for TLC

ASSUME CallsAssumption == CALLS \in Nat

Sides == {"malloc", "free"} \* each has a lock, a counter and two hooks

VARIABLES
  started,  \* my_init_hook has run
  lock,     \* malloc_lock, free_lock: 1 when nobody has it
  hook,     \* __malloc_hook, __free_hook
  old_hook, \* old_malloc_hook, old_free_hook
  counter,  \* malloc_counter, free_counter
  pc, side, null, old, \* of a call: where it is, the function, free(NULL), atomic_inc's old
  calls,    \* history: calls made by a thread
  real,     \* history: calls that reached the library
  bypassed  \* history: calls that reached it past the hook

vars == <<started, lock, hook, old_hook, counter, pc, side, null, old, calls, real, bypassed>>

Goto(t, label) == pc' = [pc EXCEPT ![t] = label]

Init ==
  /\ started = FALSE
  /\ lock = [s \in Sides |-> 0] /\ counter = [s \in Sides |-> 0]
  /\ hook = [s \in Sides |-> "library"] /\ old_hook = [s \in Sides |-> "library"]
  /\ pc = [t \in Threads |-> "idle"] /\ side = [t \in Threads |-> "malloc"]
  /\ null = [t \in Threads |-> FALSE] /\ old = [t \in Threads |-> 0]
  /\ calls = [t \in Threads |-> 0]
  /\ real = [s \in Sides |-> 0] /\ bypassed = [s \in Sides |-> 0]

(* my_init_hook, at the process's first call of malloc.                    *)
my_init_hook ==
  /\ ~started /\ started' = TRUE
  /\ old_hook' = hook /\ hook' = [s \in Sides |-> "mine"]
  /\ lock' = [s \in Sides |-> 1] /\ counter' = [s \in Sides |-> 0]
  /\ UNCHANGED <<pc, side, null, old, calls, real, bypassed>>

-----------------------------------------------------------------------------
(* A thread calls malloc or free; the library looks for a hook.            *)
Hooked(t, s, n) ==
  /\ hook[s] = "mine" /\ Goto(t, "lock")
  /\ side' = [side EXCEPT ![t] = s] /\ null' = [null EXCEPT ![t] = n]
  /\ UNCHANGED <<real, bypassed>>

PastHook(s) ==
  /\ hook[s] # "mine"
  /\ real' = [real EXCEPT ![s] = @ + 1] /\ bypassed' = [bypassed EXCEPT ![s] = @ + 1]
  /\ UNCHANGED <<pc, side, null>>

Call(t, s, n) ==
  /\ started /\ pc[t] = "idle" /\ calls[t] < CALLS
  /\ n => s = "free"
  /\ Hooked(t, s, n) \/ PastHook(s)
  /\ calls' = [calls EXCEPT ![t] = @ + 1]
  /\ UNCHANGED <<started, lock, hook, old_hook, counter, old>>

(* Mutants: the lock is taken without a look at it, or counted down.       *)
LockUnchecked(t) ==
  /\ pc[t] = "lock"
  /\ lock' = [lock EXCEPT ![side[t]] = 0]
  /\ Goto(t, "restore")
  /\ UNCHANGED <<started, hook, old_hook, counter, side, null, old, calls, real, bypassed>>
LockDown(t) ==
  /\ pc[t] = "lock"
  /\ lock' = [lock EXCEPT ![side[t]] = @ - 1]
  /\ Goto(t, "restore")
  /\ UNCHANGED <<started, hook, old_hook, counter, side, null, old, calls, real, bypassed>>

(* The spin lock: atomic_cas from 1 to 0.                                  *)
Lock(t) ==
  /\ pc[t] = "lock" /\ lock[side[t]] = 1
  /\ lock' = [lock EXCEPT ![side[t]] = 0]
  /\ Goto(t, "restore")
  /\ UNCHANGED <<started, hook, old_hook, counter, side, null, old, calls, real, bypassed>>

(* Mutant: free(NULL) is counted.                                          *)
RestoreCountNull(t) ==
  /\ pc[t] = "restore"
  /\ hook' = [hook EXCEPT ![side[t]] = old_hook[side[t]]]
  /\ Goto(t, IF null[t] THEN "read" ELSE "call")
  /\ UNCHANGED <<started, lock, old_hook, counter, side, null, old, calls, real, bypassed>>

Restore(t) ==
  /\ pc[t] = "restore"
  /\ hook' = [hook EXCEPT ![side[t]] = old_hook[side[t]]]
  /\ Goto(t, IF null[t] THEN "save" ELSE "call")
  /\ UNCHANGED <<started, lock, old_hook, counter, side, null, old, calls, real, bypassed>>

(* The hook's own call: were it hooked, it would wait for its own lock.    *)
Inner(t) ==
  /\ pc[t] = "call"
  /\ IF hook[side[t]] = "mine"
     THEN Goto(t, "lock") /\ UNCHANGED real
     ELSE Goto(t, IF side[t] = "malloc" THEN "save" ELSE "read")
            /\ real' = [real EXCEPT ![side[t]] = @ + 1]
  /\ UNCHANGED <<started, lock, hook, old_hook, counter, side, null, old, calls, bypassed>>

(* malloc saves the hook before it counts, free afterwards.                *)
Save(t) ==
  /\ pc[t] = "save"
  /\ old_hook' = [old_hook EXCEPT ![side[t]] = hook[side[t]]]
  /\ Goto(t, IF side[t] = "malloc" THEN "read" ELSE "rehook")
  /\ UNCHANGED <<started, lock, hook, counter, side, null, old, calls, real, bypassed>>

(* atomic_inc reads the counter once ...                                   *)
ReadCounter(t) ==
  /\ pc[t] = "read"
  /\ old' = [old EXCEPT ![t] = counter[side[t]]]
  /\ Goto(t, "inc")
  /\ UNCHANGED <<started, lock, hook, old_hook, counter, side, null, calls, real, bypassed>>

(* ... and swaps until the counter is what it read.                        *)
atomic_inc(t) ==
  /\ pc[t] = "inc" /\ counter[side[t]] = old[t]
  /\ counter' = [counter EXCEPT ![side[t]] = old[t] + 1]
  /\ Goto(t, IF side[t] = "malloc" THEN "rehook" ELSE "save")
  /\ UNCHANGED <<started, lock, hook, old_hook, side, null, old, calls, real, bypassed>>

(* Mutant: the lock is given back before the hook is in place again.       *)
RehookLate(t) ==
  /\ pc[t] = "rehook"
  /\ lock' = [lock EXCEPT ![side[t]] = 1]
  /\ Goto(t, "unlock")
  /\ UNCHANGED <<started, hook, old_hook, counter, side, null, old, calls, real, bypassed>>

Rehook(t) ==
  /\ pc[t] = "rehook"
  /\ hook' = [hook EXCEPT ![side[t]] = "mine"]
  /\ Goto(t, "unlock")
  /\ UNCHANGED <<started, lock, old_hook, counter, side, null, old, calls, real, bypassed>>

Unlock(t) ==
  /\ pc[t] = "unlock"
  /\ lock' = [lock EXCEPT ![side[t]] = 1]
  /\ Goto(t, "idle")
  /\ old' = [old EXCEPT ![t] = 0] /\ null' = [null EXCEPT ![t] = FALSE]
  /\ side' = [side EXCEPT ![t] = "malloc"]
  /\ UNCHANGED <<started, hook, old_hook, counter, calls, real, bypassed>>

Step(t) ==
  \/ Lock(t) \/ Restore(t) \/ Inner(t) \/ Save(t) \/ ReadCounter(t)
  \/ atomic_inc(t) \/ Rehook(t) \/ Unlock(t)

Next ==
  \/ my_init_hook
  \/ \E t \in Threads :
       Step(t) \/ \E s \in Sides, n \in BOOLEAN : Call(t, s, n)

Spec == Init /\ [][Next]_vars /\ \A t \in Threads : WF_vars(Step(t))

-----------------------------------------------------------------------------
Inside == {"restore", "call", "save", "read", "inc", "rehook", "unlock"}
Holders(s) == {t \in Threads : side[t] = s /\ pc[t] \in Inside}

TypeOK ==
  /\ started \in BOOLEAN
  /\ lock \in [Sides -> {0, 1}] /\ counter \in [Sides -> Nat]
  /\ hook \in [Sides -> {"library", "mine"}] /\ old_hook \in [Sides -> {"library", "mine"}]
  /\ pc \in [Threads -> Inside \cup {"idle", "lock"}]
  /\ side \in [Threads -> Sides] /\ null \in [Threads -> BOOLEAN]
  /\ old \in [Threads -> Nat] /\ calls \in [Threads -> Nat]
  /\ real \in [Sides -> Nat] /\ bypassed \in [Sides -> Nat]

(* thrsafe.c:56, 63: the hook saved as the library's is never the program's*)
(* own, and whenever the lock is free the program's hook is in place.      *)
HookKept ==
  \A s \in Sides :
    /\ old_hook[s] = "library"
    /\ lock[s] = 1 => hook[s] = "mine"

(* The calls that reached the library and are not yet counted.             *)
Counting(s) ==
  {t \in Holders(s) : pc[t] \in {"read", "inc"} \cup {l \in {"save"} : s = "malloc"}}

(* thrsafe.c:65: the counters are exact for the calls that went through    *)
(* the hook; those made while another thread was inside are not counted.   *)
CountedOnce ==
  \A s \in Sides : real[s] = counter[s] + bypassed[s] + Cardinality(Counting(s))

(* thrsafe.c:53, util.h:75: no call waits for ever, neither for the lock   *)
(* nor in atomic_inc, which compares with what it read before its loop.    *)
CallsReturn == \A t \in Threads : pc[t] # "idle" ~> pc[t] = "idle"

=============================================================================
