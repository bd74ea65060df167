------------------------------ MODULE HookProofs ------------------------------
(***************************************************************************)
(* The counting hooks of threadsafety_test for any threads and any number  *)
(* of calls: a hook's lock is held by one thread, so the library's hook is *)
(* never mistaken for the program's, and the counters are exact.           *)
(***************************************************************************)
EXTENDS MallocHook, FiniteSetTheorems, TLAPS

USE CallsAssumption

IsCounting(t, s) ==
  /\ side[t] = s
  /\ pc[t] \in {"read", "inc"} \/ (pc[t] = "save" /\ s = "malloc")

(* One thread is between the lock and the unlock of a side.                *)
OneInside ==
  \A t, u \in Threads :
    pc[t] \in Inside /\ pc[u] \in Inside /\ side[t] = side[u] => t = u

(* Where that thread is tells which hook is in place.                      *)
HookOf(t) == IF pc[t] \in {"restore", "unlock"} THEN "mine" ELSE "library"
InsideHas ==
  \A t \in Threads :
    /\ pc[t] \in Inside => lock[side[t]] = 0 /\ hook[side[t]] = HookOf(t)
    /\ null[t] => side[t] = "free"

(* Before the first call nothing is hooked and nobody is inside.           *)
NotStarted ==
  ~started => /\ \A s \in Sides : hook[s] = "library" /\ counter[s] = 0
              /\ \A t \in Threads : pc[t] = "idle"

Safe == TypeOK /\ NotStarted /\ OneInside /\ InsideHas /\ HookKept
Inv == Safe /\ CountedOnce

LEMMA InitSafe == Init => Safe
<1>. SUFFICES ASSUME Init PROVE Safe
  OBVIOUS
<1>1. TypeOK
  BY DEF Init, TypeOK, Sides
<1>2. \A t \in Threads : pc[t] = "idle" /\ pc[t] \notin Inside /\ ~null[t]
  BY DEF Init, Inside
<1>3. NotStarted /\ OneInside /\ InsideHas
  BY <1>2 DEF Init, NotStarted, OneInside, InsideHas
<1>4. HookKept
  BY DEF Init, HookKept
<1>. QED BY <1>1, <1>3, <1>4 DEF Safe

LEMMA MyInitHookSafe ==
  ASSUME Safe, my_init_hook
  PROVE  Safe'
BY DEF my_init_hook, Safe, TypeOK, NotStarted, OneInside, InsideHas, HookKept, HookOf, Inside, Sides

LEMMA CallSafe ==
  ASSUME Safe, NEW t \in Threads, NEW s \in Sides, NEW n \in BOOLEAN, Call(t, s, n)
  PROVE  Safe'
<1>1. CASE Hooked(t, s, n)
  BY <1>1 DEF Call, Hooked, Goto, Safe, TypeOK, NotStarted, OneInside, InsideHas, HookKept,
     HookOf, Inside, Sides
<1>2. CASE PastHook(s)
  BY <1>2 DEF Call, PastHook, Safe, TypeOK, NotStarted, OneInside, InsideHas, HookKept,
     HookOf, Inside, Sides
<1>. QED BY <1>1, <1>2 DEF Call

LEMMA LockSafe ==
  ASSUME Safe, NEW t \in Threads, Lock(t)
  PROVE  Safe'
BY DEF Lock, Goto, Safe, TypeOK, NotStarted, OneInside, InsideHas, HookKept, HookOf, Inside, Sides

LEMMA RestoreSafe ==
  ASSUME Safe, NEW t \in Threads, Restore(t)
  PROVE  Safe'
BY DEF Restore, Goto, Safe, TypeOK, NotStarted, OneInside, InsideHas, HookKept, HookOf, Inside, Sides

LEMMA InnerSafe ==
  ASSUME Safe, NEW t \in Threads, Inner(t)
  PROVE  Safe'
BY DEF Inner, Goto, Safe, TypeOK, NotStarted, OneInside, InsideHas, HookKept, HookOf, Inside, Sides

LEMMA SaveSafe ==
  ASSUME Safe, NEW t \in Threads, Save(t)
  PROVE  Safe'
BY DEF Save, Goto, Safe, TypeOK, NotStarted, OneInside, InsideHas, HookKept, HookOf, Inside, Sides

LEMMA ReadCounterSafe ==
  ASSUME Safe, NEW t \in Threads, ReadCounter(t)
  PROVE  Safe'
BY DEF ReadCounter, Goto, Safe, TypeOK, NotStarted, OneInside, InsideHas, HookKept, HookOf, Inside, Sides

LEMMA AtomicIncSafe ==
  ASSUME Safe, NEW t \in Threads, atomic_inc(t)
  PROVE  Safe'
BY DEF atomic_inc, Goto, Safe, TypeOK, NotStarted, OneInside, InsideHas, HookKept, HookOf, Inside, Sides

LEMMA RehookSafe ==
  ASSUME Safe, NEW t \in Threads, Rehook(t)
  PROVE  Safe'
BY DEF Rehook, Goto, Safe, TypeOK, NotStarted, OneInside, InsideHas, HookKept, HookOf, Inside, Sides

LEMMA UnlockSafe ==
  ASSUME Safe, NEW t \in Threads, Unlock(t)
  PROVE  Safe'
BY DEF Unlock, Goto, Safe, TypeOK, NotStarted, OneInside, InsideHas, HookKept, HookOf, Inside, Sides

-----------------------------------------------------------------------------
(* The set of calls that are not yet counted has at most one element.      *)
LEMMA CountingSet ==
  ASSUME Safe, NEW s \in Sides
  PROVE  Counting(s) = {t \in Threads : IsCounting(t, s)}
BY DEF Counting, Holders, IsCounting, Inside, Sides

LEMMA NobodyCounts ==
  ASSUME Safe, NEW s \in Sides, \A t \in Threads : ~IsCounting(t, s)
  PROVE  Cardinality(Counting(s)) = 0
<1>1. Counting(s) = {}
  BY CountingSet
<1>. QED BY <1>1, FS_EmptySet

LEMMA OneCounts ==
  ASSUME Safe, NEW s \in Sides, NEW t \in Threads, IsCounting(t, s)
  PROVE  Cardinality(Counting(s)) = 1
<1>1. \A u \in Threads : IsCounting(u, s) => u = t
  BY DEF Safe, OneInside, IsCounting, Inside
<1>2. Counting(s) = {t}
  BY <1>1, CountingSet
<1>. QED BY <1>2, FS_Singleton

LEMMA CountOf ==
  ASSUME Safe, NEW s \in Sides
  PROVE  Cardinality(Counting(s)) = IF \E t \in Threads : IsCounting(t, s) THEN 1 ELSE 0
BY NobodyCounts, OneCounts

(* A step that neither counts nor reaches the library.                     *)
LEMMA SameCount ==
  ASSUME Inv, Safe', UNCHANGED <<counter>>,
         \A s \in Sides : real'[s] - bypassed'[s] = real[s] - bypassed[s],
         \A t \in Threads, s \in Sides : IsCounting(t, s)' <=> IsCounting(t, s)
  PROVE  CountedOnce'
<1>. SUFFICES ASSUME NEW s \in Sides
              PROVE  real'[s] = counter'[s] + bypassed'[s] + Cardinality(Counting(s)')
  BY DEF CountedOnce
<1>1. (Counting(s))' = Counting(s)
  <2>1. Counting(s) = {t \in Threads : IsCounting(t, s)}
    BY CountingSet DEF Inv
  <2>2. (Counting(s))' = {t \in Threads : IsCounting(t, s)'}
    BY DEF Safe, Counting, Holders, IsCounting, Inside, Sides
  <2>. QED BY <2>1, <2>2
<1>2. real[s] = counter[s] + bypassed[s] + Cardinality(Counting(s))
  BY DEF Inv, CountedOnce
<1>3. Cardinality(Counting(s)) \in {0, 1}
  BY CountOf DEF Inv
<1>4. real[s] \in Nat /\ real'[s] \in Nat /\ counter[s] \in Nat /\ bypassed[s] \in Nat
      /\ bypassed'[s] \in Nat
  BY DEF Inv, Safe, TypeOK
<1>. QED BY <1>1, <1>2, <1>3, <1>4

LEMMA InitCounted == Init => CountedOnce
<1>. SUFFICES ASSUME Init, NEW s \in Sides
              PROVE  real[s] = counter[s] + bypassed[s] + Cardinality(Counting(s))
  BY DEF CountedOnce
<1>1. Safe
  BY InitSafe
<1>2. \A t \in Threads : ~IsCounting(t, s)
  BY DEF Init, IsCounting
<1>. QED BY <1>1, <1>2, NobodyCounts DEF Init

LEMMA CallCounted ==
  ASSUME Inv, NEW t \in Threads, NEW s \in Sides, NEW n \in BOOLEAN, Call(t, s, n)
  PROVE  CountedOnce'
<1>1. Safe' /\ UNCHANGED counter
  BY CallSafe DEF Inv, Call
<1>2. \A u \in Threads, r \in Sides : IsCounting(u, r)' <=> IsCounting(u, r)
  BY DEF Inv, Safe, TypeOK, Call, Hooked, PastHook, Goto, IsCounting
<1>3. \A r \in Sides : real'[r] - bypassed'[r] = real[r] - bypassed[r]
  BY DEF Inv, Safe, TypeOK, Call, Hooked, PastHook
<1>. QED BY <1>1, <1>2, <1>3, SameCount

LEMMA QuietCounted ==
  ASSUME Inv, NEW t \in Threads,
         my_init_hook \/ Lock(t) \/ Restore(t) \/ Save(t) \/ ReadCounter(t)
           \/ Rehook(t) \/ Unlock(t)
  PROVE  CountedOnce'
<1>1. Safe'
  BY MyInitHookSafe, LockSafe, RestoreSafe, SaveSafe, ReadCounterSafe, RehookSafe, UnlockSafe
     DEF Inv
<1>2. UNCHANGED <<real, bypassed>>
  BY DEF my_init_hook, Lock, Restore, Save, ReadCounter, Rehook, Unlock
<1>3. counter' = counter
  BY DEF Inv, Safe, TypeOK, NotStarted, my_init_hook, Lock, Restore, Save, ReadCounter,
     Rehook, Unlock
<1>4. \A u \in Threads, r \in Sides : IsCounting(u, r)' <=> IsCounting(u, r)
  BY DEF Inv, Safe, TypeOK, InsideHas, IsCounting, Goto, Sides,
     my_init_hook, Lock, Restore, Save, ReadCounter, Rehook, Unlock
<1>. QED BY <1>1, <1>2, <1>3, <1>4, SameCount

(* The call a hook makes itself reaches the library and waits to be        *)
(* counted: nobody else does, for nobody else is inside.                   *)
LEMMA InnerCounted ==
  ASSUME Inv, NEW t \in Threads, Inner(t)
  PROVE  CountedOnce'
<1>1. Safe' /\ Safe
  BY InnerSafe DEF Inv
<1>2. PICK s \in Sides : s = side[t] /\ hook[s] = "library" /\ pc[t] = "call"
  BY <1>1 DEF Safe, TypeOK, InsideHas, HookOf, Inner, Inside
<1>3. /\ real' = [real EXCEPT ![s] = @ + 1] /\ UNCHANGED <<counter, bypassed, side>>
      /\ pc' = [pc EXCEPT ![t] = IF s = "malloc" THEN "save" ELSE "read"]
  BY <1>2 DEF Inner, Goto
<1>4. \A u \in Threads : ~IsCounting(u, s)
  BY <1>1, <1>2 DEF Safe, OneInside, IsCounting, Inside
<1>5. IsCounting(t, s)'
  BY <1>1, <1>2, <1>3 DEF Safe, TypeOK, IsCounting
<1>6. \A u \in Threads, r \in Sides : r # s => (IsCounting(u, r)' <=> IsCounting(u, r))
  BY <1>1, <1>2, <1>3 DEF Safe, TypeOK, IsCounting
<1>. SUFFICES ASSUME NEW r \in Sides
              PROVE  real'[r] = counter'[r] + bypassed'[r] + Cardinality(Counting(r)')
  BY DEF CountedOnce
<1>7. real[r] = counter[r] + bypassed[r] + Cardinality(Counting(r))
  BY DEF Inv, CountedOnce
<1>8. real[r] \in Nat /\ counter[r] \in Nat /\ bypassed[r] \in Nat
  BY <1>1 DEF Safe, TypeOK
<1>9. CASE r = s
  <2>1. Cardinality(Counting(r)) = 0
    BY <1>1, <1>4, <1>9, NobodyCounts
  <2>2. Cardinality(Counting(r)') = 1
    <3>1. \A u \in Threads : IsCounting(u, r)' <=> u = t
      BY <1>1, <1>3, <1>4, <1>5, <1>9 DEF Safe, TypeOK, IsCounting
    <3>2. (Counting(r))' = {u \in Threads : IsCounting(u, r)'}
      BY DEF Counting, Holders, IsCounting, Inside, Sides
    <3>3. (Counting(r))' = {t}
      BY <3>1, <3>2
    <3>. QED BY <3>3, FS_Singleton
  <2>3. real'[r] = real[r] + 1
    BY <1>1, <1>2, <1>3, <1>9 DEF Safe, TypeOK
  <2>. QED BY <1>3, <1>7, <1>8, <2>1, <2>2, <2>3
<1>10. CASE r # s
  <2>1. (Counting(r))' = Counting(r)
    <3>1. Counting(r) = {u \in Threads : IsCounting(u, r)}
      BY <1>1, CountingSet
    <3>2. (Counting(r))' = {u \in Threads : IsCounting(u, r)'}
      BY DEF Counting, Holders, IsCounting, Inside, Sides
    <3>. QED BY <1>6, <1>10, <3>1, <3>2
  <2>2. real'[r] = real[r]
    BY <1>1, <1>3, <1>10 DEF Safe, TypeOK
  <2>. QED BY <1>3, <1>7, <2>1, <2>2
<1>. QED BY <1>9, <1>10

(* Whoever counts adds what it read: nobody else has counted since.        *)
LEMMA AtomicIncCounted ==
  ASSUME Inv, NEW t \in Threads, atomic_inc(t)
  PROVE  CountedOnce'
<1>1. Safe' /\ Safe
  BY AtomicIncSafe DEF Inv
<1>2. PICK s \in Sides : s = side[t] /\ pc[t] = "inc" /\ counter[s] = old[t]
  BY <1>1 DEF Safe, TypeOK, atomic_inc
<1>3. /\ counter' = [counter EXCEPT ![s] = counter[s] + 1]
      /\ UNCHANGED <<real, bypassed, side>>
      /\ pc' = [pc EXCEPT ![t] = IF s = "malloc" THEN "rehook" ELSE "save"]
  BY <1>2 DEF atomic_inc, Goto
<1>4. IsCounting(t, s)
  BY <1>2 DEF IsCounting
<1>5. \A u \in Threads : ~IsCounting(u, s)'
  <2>1. \A u \in Threads : IsCounting(u, s) => u = t
    BY <1>1, <1>2 DEF Safe, OneInside, IsCounting, Inside
  <2>2. ~IsCounting(t, s)'
    BY <1>1, <1>2, <1>3 DEF Safe, TypeOK, IsCounting
  <2>3. \A u \in Threads : u # t => (IsCounting(u, s)' <=> IsCounting(u, s))
    BY <1>1, <1>3 DEF Safe, TypeOK, IsCounting
  <2>. QED BY <2>1, <2>2, <2>3
<1>6. \A u \in Threads, r \in Sides : r # s => (IsCounting(u, r)' <=> IsCounting(u, r))
  BY <1>1, <1>2, <1>3 DEF Safe, TypeOK, IsCounting
<1>. SUFFICES ASSUME NEW r \in Sides
              PROVE  real'[r] = counter'[r] + bypassed'[r] + Cardinality(Counting(r)')
  BY DEF CountedOnce
<1>7. real[r] = counter[r] + bypassed[r] + Cardinality(Counting(r))
  BY DEF Inv, CountedOnce
<1>8. real[r] \in Nat /\ counter[r] \in Nat /\ bypassed[r] \in Nat
  BY <1>1 DEF Safe, TypeOK
<1>9. (Counting(r))' = {u \in Threads : IsCounting(u, r)'}
  BY DEF Counting, Holders, IsCounting, Inside, Sides
<1>10. CASE r = s
  <2>1. Cardinality(Counting(r)) = 1
    BY <1>1, <1>4, <1>10, OneCounts
  <2>2. (Counting(r))' = {}
    BY <1>5, <1>9, <1>10
  <2>3. counter'[r] = counter[r] + 1
    BY <1>1, <1>2, <1>3, <1>10 DEF Safe, TypeOK
  <2>. QED BY <1>3, <1>7, <1>8, <2>1, <2>2, <2>3, FS_EmptySet
<1>11. CASE r # s
  <2>1. (Counting(r))' = Counting(r)
    BY <1>1, <1>6, <1>9, <1>11, CountingSet
  <2>2. counter'[r] = counter[r]
    BY <1>1, <1>3, <1>11 DEF Safe, TypeOK
  <2>. QED BY <1>3, <1>7, <2>1, <2>2
<1>. QED BY <1>10, <1>11

-----------------------------------------------------------------------------
LEMMA NextKeeps ==
  ASSUME Inv, Next
  PROVE  Inv'
<1>1. ASSUME NEW t \in Threads, Step(t)
      PROVE  Inv'
  <2>1. Safe'
    BY <1>1, LockSafe, RestoreSafe, InnerSafe, SaveSafe, ReadCounterSafe, AtomicIncSafe,
       RehookSafe, UnlockSafe DEF Inv, Step
  <2>2. CountedOnce'
    BY <1>1, QuietCounted, InnerCounted, AtomicIncCounted DEF Step
  <2>. QED BY <2>1, <2>2 DEF Inv
<1>2. ASSUME NEW t \in Threads, NEW s \in Sides, NEW n \in BOOLEAN, Call(t, s, n)
      PROVE  Inv'
  BY <1>2, CallSafe, CallCounted DEF Inv
<1>3. CASE my_init_hook
  <2>1. Safe'
    BY <1>3, MyInitHookSafe DEF Inv
  <2>2. CASE Threads = {}
    <3>1. \A s \in Sides : counter'[s] = counter[s] /\ real'[s] = real[s]
                             /\ bypassed'[s] = bypassed[s]
      BY <1>3 DEF Inv, Safe, NotStarted, my_init_hook
    <3>2. \A s \in Sides : Counting(s) = {} /\ (Counting(s))' = {}
      BY <2>2 DEF Counting, Holders
    <3>3. CountedOnce'
      BY <3>1, <3>2 DEF Inv, CountedOnce
    <3>. QED BY <2>1, <3>3 DEF Inv
  <2>3. CASE Threads # {}
    BY <1>3, <2>1, <2>3, QuietCounted DEF Inv
  <2>. QED BY <2>2, <2>3
<1>. QED BY <1>1, <1>2, <1>3 DEF Next

LEMMA Stutter ==
  ASSUME Inv, UNCHANGED vars
  PROVE  Inv'
BY DEF vars, Inv, Safe, TypeOK, NotStarted, OneInside, InsideHas, HookOf, HookKept, CountedOnce,
   Counting, Holders

LEMMA InvHolds == Spec => []Inv
<1>1. Init => Inv
  BY InitSafe, InitCounted DEF Inv
<1>2. Inv /\ [Next]_vars => Inv'
  BY NextKeeps, Stutter
<1>. QED BY <1>1, <1>2, PTL DEF Spec

(* thrsafe.c:56, 63, 74: for any threads and calls, what a hook takes for  *)
(* the library's hook is the library's, and with the lock free the         *)
(* program's own is in place.                                              *)
THEOREM HookStaysKept == Spec => []HookKept
<1>1. Inv => HookKept
  BY DEF Inv, Safe
<1>. QED BY <1>1, InvHolds, PTL

(* thrsafe.c:65, 97: for any threads and calls, malloc_counter and         *)
(* free_counter are what reached the library through the hooks.            *)
THEOREM CountsAreExact == Spec => []CountedOnce
<1>1. Inv => CountedOnce
  BY DEF Inv
<1>. QED BY <1>1, InvHolds, PTL

(* thrsafe.c:53: the spin locks exclude: one thread at a time is between   *)
(* the lock and the unlock of a hook.                                      *)
THEOREM HooksExclude == Spec => []OneInside
<1>1. Inv => OneInside
  BY DEF Inv, Safe
<1>. QED BY <1>1, InvHolds, PTL

==============================================================================
