---------------------------- MODULE LockfreeProofs ----------------------------
(***************************************************************************)
(* The lock-free allocator for any threads, descriptors, block numbers and *)
(* field widths, with clients that write no further than the first word of *)
(* a block.  Blocks never come back, so the list of free blocks is, until  *)
(* it has run out, every block from the anchor's on, in order; a stale     *)
(* anchor is behind it, and cannot be taken for it.                        *)
(***************************************************************************)
EXTENDS LockfreeAlloc, FiniteSetTheorems, TLAPS

USE BlocksAssumption, FieldsAssumption, DataAssumption, NoneAssumption

LEMMA ModFacts ==
  ASSUME NEW m \in Nat \ {0}, NEW n \in Nat
  PROVE  n % m \in 0..(m - 1) /\ (n < m => n % m = n)
OBVIOUS

LEMMA MinFacts ==
  ASSUME NEW m \in Nat, NEW n \in Nat
  PROVE  MIN(m, n) \in Nat /\ MIN(m, n) <= m /\ MIN(m, n) <= n /\ MIN(m, n) \in {m, n}
BY DEF MIN

LEMMA ActiveType ==
  ASSUME NEW d \in Descs \cup {NONE}, NEW n \in Nat
  PROVE  /\ make_active([desc |-> d, credits |-> n]) \in ActiveWords
         /\ make_active([desc |-> d, credits |-> n]).desc = d
         /\ n < CREDITS => make_active([desc |-> d, credits |-> n]).credits = n
<1>1. n % CREDITS \in 0..(CREDITS - 1) /\ (n < CREDITS => n % CREDITS = n)
  BY ModFacts
<1>. QED BY <1>1 DEF make_active, ActiveWords

LEMMA AnchorType ==
  ASSUME NEW av \in Nat, NEW co \in Nat, NEW st \in {"ACTIVE", "FULL"}, NEW tag \in Nat
  PROVE  LET w == make_anchor([avail |-> av, counter |-> co, state |-> st, tag |-> tag])
         IN  /\ w \in AnchorWords
             /\ av < AVAILS => w.avail = av
             /\ co < COUNTERS => w.counter = co
<1>1. /\ av % AVAILS \in 0..(AVAILS - 1) /\ (av < AVAILS => av % AVAILS = av)
      /\ co % COUNTERS \in 0..(COUNTERS - 1) /\ (co < COUNTERS => co % COUNTERS = co)
      /\ tag % TAGS \in 0..(TAGS - 1)
  BY ModFacts
<1>. QED BY <1>1 DEF make_anchor, AnchorWords

LEMMA ZeroTypes == ZERO_ACTIVE \in ActiveWords /\ ZERO_ANCHOR \in AnchorWords
BY DEF ZERO_ACTIVE, ActiveWords, ZERO_ANCHOR, AnchorWords

LEMMA ReservedFacts ==
  ASSUME NEW old \in ActiveWords
  PROVE  /\ Reserved(old) \in ActiveWords /\ Reserved(old).desc = old.desc
         /\ Reserved(old).credits = IF old.credits = 0 THEN 0 ELSE old.credits - 1
<1>. DEFINE n == IF old.credits = 0 THEN 0 ELSE old.credits - 1
<1>1. old.desc \in Descs \cup {NONE} /\ old.credits \in 0..(CREDITS - 1)
  BY DEF ActiveWords
<1>2. n \in Nat /\ n < CREDITS
  BY <1>1
<1>3. Reserved(old) = make_active([desc |-> old.desc, credits |-> n])
  BY DEF Reserved, make_active, ActiveWords
<1>. HIDE DEF n
<1>4. /\ Reserved(old) \in ActiveWords /\ Reserved(old).desc = old.desc
      /\ Reserved(old).credits = n
  BY <1>1, <1>2, <1>3, ActiveType
<1>. QED BY <1>4 DEF n

LEMMA NewCreditsFacts ==
  /\ NewCredits \in Nat /\ NewCredits < CREDITS /\ NewCredits < BLOCKS
  /\ BLOCKS - NewCredits - 1 \in Nat
BY DEF NewCredits, MIN

LEMMA NewAnchorFacts ==
  ASSUME NEW tag \in Nat
  PROVE  /\ NewAnchor(tag) \in AnchorWords /\ NewAnchor(tag).avail = 1
         /\ NewAnchor(tag).counter = BLOCKS - NewCredits - 1
<1>1. BLOCKS - NewCredits - 1 \in Nat /\ BLOCKS - NewCredits - 1 < COUNTERS /\ 1 < AVAILS
  BY NewCreditsFacts
<1>. QED BY <1>1, AnchorType DEF NewAnchor

LEMMA SetupType == setup_sb \in [Blocks -> Nat]
BY DEF setup_sb, Blocks

(* Popped, of what a thread has read.                                      *)
LEMMA PoppedFacts ==
  ASSUME NEW t \in Threads, old_anchor[t] \in AnchorWords, old_active[t] \in ActiveWords,
         next_index[t] \in Nat
  PROVE  /\ Popped(t) \in AnchorWords
         /\ next_index[t] < AVAILS => Popped(t).avail = next_index[t]
         /\ Popped(t).counter = IF old_active[t].credits = 0
                                THEN old_anchor[t].counter - MIN(old_anchor[t].counter, MAXCREDITS)
                                ELSE old_anchor[t].counter
<1>. DEFINE old == old_anchor[t]
            last == old_active[t].credits = 0
            co == IF last THEN old.counter - MIN(old.counter, MAXCREDITS) ELSE old.counter
            st == IF last /\ old.counter = 0 THEN "FULL" ELSE old.state
<1>1. /\ old.counter \in 0..(COUNTERS - 1) /\ old.tag \in Nat /\ old.state \in {"ACTIVE", "FULL"}
  BY DEF AnchorWords
<1>2. co \in Nat /\ co < COUNTERS
  <2>1. old.counter \in Nat /\ MAXCREDITS \in Nat
    BY <1>1
  <2>2. MIN(old.counter, MAXCREDITS) \in Nat /\ MIN(old.counter, MAXCREDITS) <= old.counter
    BY <2>1, MinFacts
  <2>. QED BY <1>1, <2>2
<1>3. st \in {"ACTIVE", "FULL"}
  BY <1>1
<1>4. Popped(t) = make_anchor([avail |-> next_index[t], counter |-> co, state |-> st,
                               tag |-> old.tag + 1])
  BY DEF Popped
<1>. HIDE DEF co, st
<1>5. /\ Popped(t) \in AnchorWords
      /\ next_index[t] < AVAILS => Popped(t).avail = next_index[t]
      /\ Popped(t).counter = co
  BY <1>1, <1>2, <1>3, <1>4, AnchorType
<1>. QED BY <1>5 DEF co

-----------------------------------------------------------------------------
LEMMA InitType == Init => TypeOK
<1>1. ZERO_ACTIVE \in ActiveWords /\ ZERO_ANCHOR \in AnchorWords /\ setup_sb \in [Blocks -> Nat]
  BY ZeroTypes, SetupType
<1>. QED BY <1>1 DEF Init, TypeOK, Parts

LEMMA ReturnType ==
  ASSUME TypeOK, NEW t \in Threads, NEW v \in {"block", "NULL"}, Return(t, v)
  PROVE  /\ pc' \in [Threads -> {"idle", "read_active", "cas_active", "read_anchor", "read_next",
                                 "cas_anchor", "get_desc", "cas_new", "write_owner"}]
         /\ old_active' \in [Threads -> ActiveWords] /\ old_anchor' \in [Threads -> AnchorWords]
         /\ next_index' \in [Threads -> Nat]
         /\ new_desc' \in [Threads -> Descs \cup {NONE}]
         /\ answer' \in [Threads -> {"none", "block", "NULL"}]
<1>1. ZERO_ACTIVE \in ActiveWords /\ ZERO_ANCHOR \in AnchorWords
  BY ZeroTypes
<1>. QED BY <1>1 DEF Return, Goto, TypeOK

LEMMA GiveType ==
  ASSUME TypeOK, NEW d \in Descs, NEW i \in Nat, Give(d, i)
  PROVE  /\ given' \in [Descs -> [0..BLOCKS -> Nat]]
         /\ MIN(i, BLOCKS) \in 0..BLOCKS
         /\ \A e \in Descs, j \in 0..BLOCKS :
              given'[e][j] = IF e = d /\ j = MIN(i, BLOCKS) THEN given[e][j] + 1 ELSE given[e][j]
<1>. DEFINE k == MIN(i, BLOCKS)
<1>1. k \in 0..BLOCKS
  BY MinFacts
<1>2. given' = [given EXCEPT ![d] = [given[d] EXCEPT ![k] = given[d][k] + 1]]
  BY DEF Give
<1>3. given \in [Descs -> [0..BLOCKS -> Nat]] /\ given[d] \in [0..BLOCKS -> Nat]
  BY DEF TypeOK
<1>. HIDE DEF k
<1>4. given[d][k] + 1 \in Nat
  BY <1>1, <1>3
<1>5. [given[d] EXCEPT ![k] = given[d][k] + 1] \in [0..BLOCKS -> Nat]
  BY <1>1, <1>3, <1>4
<1>6. given' \in [Descs -> [0..BLOCKS -> Nat]]
  BY <1>2, <1>3, <1>5
<1>7. \A e \in Descs, j \in 0..BLOCKS :
        given'[e][j] = IF e = d /\ j = k THEN given[e][j] + 1 ELSE given[e][j]
  BY <1>1, <1>2, <1>3
<1>. QED BY <1>1, <1>6, <1>7 DEF k

-----------------------------------------------------------------------------
(* Once a superblock is installed it stays; no other has given a block.    *)
Heap ==
  /\ active.desc = NONE => active = ZERO_ACTIVE
  /\ active.desc # NONE => active.desc \in taken
  /\ \A d \in Descs, i \in 0..BLOCKS : d # active.desc => given[d][i] = 0

(* What the callers know of it, and of superblocks nobody else sees.       *)
Popping == {"cas_active", "read_anchor", "read_next", "cas_anchor"}

Caller(t) ==
  /\ pc[t] \in Popping => active.desc # NONE /\ old_active[t].desc = active.desc
  /\ pc[t] = "cas_new" =>
       /\ new_desc[t] \in taken \ {active.desc}
       /\ anchor[new_desc[t]].avail = 1 /\ anchor[new_desc[t]].counter = BLOCKS - NewCredits - 1
       /\ word[new_desc[t]] = setup_sb
  /\ pc[t] = "write_owner" =>
       /\ active.desc # NONE /\ new_desc[t] = active.desc
       /\ ~Overrun(active.desc) => given[active.desc][0] = 0
  /\ answer[t] = "NULL" => active.desc # NONE /\ pc[t] # "get_desc"

Apart(t, u) ==
  /\ pc[t] = "cas_new" /\ pc[u] = "cas_new" => new_desc[t] # new_desc[u]
  /\ pc[t] # "write_owner" \/ pc[u] # "write_owner"

(* The free blocks of the superblock, until they have run out.             *)
FreeList(d, a) ==
  /\ Overrun(d) => \A i \in Blocks \ {0} : given[d][i] > 0
  /\ ~Overrun(d) =>
       /\ a \in 1..BLOCKS /\ given[d][0] <= 1
       /\ \A i \in Blocks \ {0} :
            /\ i < a => given[d][i] = 1
            /\ i >= a => given[d][i] = 0 /\ word[d][i] = i + 1

(* What a thread has read of the anchor is behind it, or still true.       *)
Behind(t, a) ==
  /\ pc[t] \in {"read_next", "cas_anchor"} => old_anchor[t].avail \in 1..a
  /\ pc[t] = "cas_anchor" /\ old_anchor[t].avail = a /\ a < BLOCKS => next_index[t] = a + 1

Kept ==
  /\ start \in {"failed", "final"} => objects = {}
  /\ \A d \in taken : d = active.desc \/ \E t \in Threads : pc[t] = "cas_new" /\ new_desc[t] = d

IInv ==
  /\ TypeOK /\ Heap /\ Kept
  /\ \A t \in Threads : Caller(t)
  /\ \A t, u \in Threads : t # u => Apart(t, u)
  /\ active.desc # NONE => FreeList(active.desc, anchor[active.desc].avail)
  /\ active.desc # NONE /\ ~Overrun(active.desc) =>
       \A t \in Threads : Behind(t, anchor[active.desc].avail)

locals == <<pc, old_active, old_anchor, next_index, new_desc, answer>>

Same(u) ==
  /\ pc'[u] = pc[u] /\ old_active'[u] = old_active[u] /\ old_anchor'[u] = old_anchor[u]
  /\ next_index'[u] = next_index[u] /\ new_desc'[u] = new_desc[u] /\ answer'[u] = answer[u]

Steps == {"idle", "read_active", "cas_active", "read_anchor", "read_next",
          "cas_anchor", "get_desc", "cas_new", "write_owner"}

LEMMA InitIInv == Init => IInv
<1>. SUFFICES ASSUME Init PROVE IInv
  OBVIOUS
<1>1. TypeOK
  BY InitType
<1>2. active.desc = NONE
  BY DEF Init, ZERO_ACTIVE
<1>3. Heap /\ Kept
  BY <1>2 DEF Heap, Kept, Init
<1>4. \A t \in Threads : Caller(t)
  BY DEF Caller, Init, Popping
<1>5. \A t, u \in Threads : t # u => Apart(t, u)
  BY DEF Apart, Init
<1>. QED BY <1>1, <1>2, <1>3, <1>4, <1>5 DEF IInv

(* A step that leaves the superblocks, and the one that is installed, as   *)
(* they are.                                                               *)
LEMMA LocalStep ==
  ASSUME IInv, TypeOK', NEW t \in Threads,
         UNCHANGED <<manVars, anchor, word, taken, given>>,
         active'.desc = active.desc, active.desc = NONE => active' = active,
         \A u \in Threads \ {t} : Same(u),
         pc[t] # "cas_new", pc'[t] \notin {"cas_new", "write_owner"},
         Caller(t)',
         active.desc # NONE /\ ~Overrun(active.desc) => Behind(t, anchor[active.desc].avail)'
  PROVE  IInv'
<1>1. Heap'
  BY DEF Heap, IInv
<1>2. Kept'
  <2>1. start' \in {"failed", "final"} => objects' = {}
    BY DEF Kept, IInv, manVars
  <2>2. ASSUME NEW d \in taken, d # active.desc
        PROVE  \E u \in Threads : pc'[u] = "cas_new" /\ new_desc'[u] = d
    <3>1. PICK u \in Threads : pc[u] = "cas_new" /\ new_desc[u] = d
      BY <2>2 DEF Kept, IInv
    <3>. QED BY <3>1 DEF Same
  <2>. QED BY <2>1, <2>2 DEF Kept
<1>3. ASSUME NEW u \in Threads PROVE Caller(u)'
  <2>1. CASE u = t
    BY <2>1
  <2>2. CASE u # t
    BY <2>2 DEF Caller, Same, IInv, Overrun
  <2>. QED BY <2>1, <2>2
<1>4. ASSUME NEW u \in Threads, NEW v \in Threads, u # v PROVE Apart(u, v)'
  BY <1>4 DEF Apart, Same, IInv
<1>5. Overrun(active.desc)' <=> Overrun(active.desc)
  BY DEF Overrun
<1>6. active'.desc # NONE => FreeList(active.desc, anchor[active.desc].avail)'
  BY <1>5 DEF FreeList, IInv
<1>7. ASSUME active'.desc # NONE, ~Overrun(active.desc)', NEW u \in Threads
      PROVE  Behind(u, anchor[active.desc].avail)'
  <2>1. CASE u = t
    BY <2>1, <1>5, <1>7
  <2>2. CASE u # t
    BY <2>2, <1>5, <1>7 DEF Behind, Same, IInv
  <2>. QED BY <2>1, <2>2
<1>. QED BY <1>1, <1>2, <1>3, <1>4, <1>6, <1>7 DEF IInv

-----------------------------------------------------------------------------
LEMMA ManagerStep ==
  ASSUME IInv, InitPart \/ InitFails \/ FinalManager
  PROVE  IInv'
<1>1. /\ UNCHANGED <<active, anchor, word, taken, given, calls, threadVars>>
      /\ start' \in {"heap", "size", "ready", "failed", "final"} /\ objects' \subseteq DOMAIN Parts
      /\ start' \in {"failed", "final"} => objects' = {}
  BY DEF InitPart, InitFails, Failed, FinalManager, Parts, IInv, TypeOK
<1>2. TypeOK'
  BY <1>1 DEF TypeOK, IInv, Parts, threadVars
<1>3. Heap' /\ Kept'
  BY <1>1 DEF Heap, Kept, IInv, threadVars
<1>4. \A t \in Threads : Caller(t)'
  BY <1>1 DEF Caller, IInv, threadVars, Overrun
<1>5. \A t, u \in Threads : t # u => Apart(t, u)'
  BY <1>1 DEF Apart, IInv, threadVars
<1>6. active'.desc # NONE => FreeList(active.desc, anchor[active.desc].avail)'
  BY <1>1 DEF FreeList, Overrun, IInv
<1>7. active'.desc # NONE /\ ~Overrun(active.desc)' =>
        \A t \in Threads : Behind(t, anchor[active.desc].avail)'
  BY <1>1 DEF Behind, Overrun, IInv, threadVars
<1>. QED BY <1>2, <1>3, <1>4, <1>5, <1>6, <1>7 DEF IInv

LEMMA CallSafe == ASSUME IInv, NEW t \in Threads, Call(t) PROVE IInv'
<1>1. /\ UNCHANGED <<manVars, active, anchor, word, taken, given>> /\ pc[t] = "idle"
      /\ pc'[t] = "read_active" /\ \A u \in Threads \ {t} : Same(u)
      /\ answer'[t] = answer[t]
  BY DEF Call, Goto, heapVars, manVars, Same, IInv, TypeOK
<1>2. TypeOK'
  BY DEF Call, Goto, TypeOK, heapVars, Parts, IInv
<1>3. Caller(t)' /\ Behind(t, anchor[active.desc].avail)'
  BY <1>1 DEF Caller, Behind, Popping, IInv
<1>. QED BY <1>1, <1>2, <1>3, LocalStep

LEMMA ReadActiveSafe == ASSUME IInv, NEW t \in Threads, ReadActive(t) PROVE IInv'
<1>1. /\ UNCHANGED <<manVars, active, anchor, word, taken, given>> /\ pc[t] = "read_active"
      /\ pc'[t] = IF active = ZERO_ACTIVE THEN "get_desc" ELSE "cas_active"
      /\ old_active'[t] = active /\ answer'[t] = answer[t]
      /\ \A u \in Threads \ {t} : Same(u)
  BY DEF ReadActive, Goto, heapVars, manVars, Same, IInv, TypeOK
<1>2. TypeOK'
  <2>1. old_active' \in [Threads -> ActiveWords] /\ pc' \in [Threads -> Steps]
    BY DEF ReadActive, Goto, TypeOK, IInv, Steps
  <2>. QED BY <2>1 DEF ReadActive, TypeOK, heapVars, Parts, IInv, Steps
<1>3. active = ZERO_ACTIVE <=> active.desc = NONE
  BY DEF IInv, Heap, ZERO_ACTIVE
<1>4. Caller(t)' /\ Behind(t, anchor[active.desc].avail)'
  BY <1>1, <1>3 DEF Caller, Behind, Popping, IInv
<1>. QED BY <1>1, <1>2, <1>4, LocalStep

LEMMA CasActiveSafe == ASSUME IInv, NEW t \in Threads, CasActive(t) PROVE IInv'
<1>1. /\ UNCHANGED <<manVars, anchor, word, taken, given>> /\ pc[t] = "cas_active"
      /\ pc'[t] \in {"read_anchor", "read_active"}
      /\ old_active'[t] = old_active[t] /\ answer'[t] = answer[t]
      /\ \A u \in Threads \ {t} : Same(u)
      /\ active' = active \/ active' = Reserved(active)
  BY DEF CasActive, Goto, Same, IInv, TypeOK
<1>2. active \in ActiveWords
  BY DEF IInv, TypeOK
<1>3. active' \in ActiveWords /\ active'.desc = active.desc /\ active.desc # NONE
  BY <1>1, <1>2, ReservedFacts DEF IInv, Caller, Popping
<1>4. TypeOK'
  <2>1. pc' \in [Threads -> Steps]
    BY DEF CasActive, Goto, TypeOK, IInv, Steps
  <2>. QED BY <2>1, <1>3 DEF CasActive, manVars, TypeOK, Parts, IInv, Steps
<1>5. Caller(t)' /\ Behind(t, anchor[active.desc].avail)'
  BY <1>1, <1>3 DEF Caller, Behind, Popping, IInv
<1>. QED BY <1>1, <1>3, <1>4, <1>5, LocalStep

LEMMA ReadAnchorSafe == ASSUME IInv, NEW t \in Threads, ReadAnchor(t) PROVE IInv'
<1>1. /\ UNCHANGED <<manVars, active, anchor, word, taken, given>> /\ pc[t] = "read_anchor"
      /\ pc'[t] = "read_next" /\ old_anchor'[t] = anchor[old_active[t].desc]
      /\ old_active'[t] = old_active[t] /\ answer'[t] = answer[t]
      /\ \A u \in Threads \ {t} : Same(u)
  BY DEF ReadAnchor, Goto, heapVars, manVars, Same, IInv, TypeOK
<1>2. active.desc # NONE /\ old_active[t].desc = active.desc
  BY <1>1 DEF IInv, Caller, Popping
<1>3. anchor[active.desc] \in AnchorWords
  BY <1>2 DEF IInv, TypeOK, Heap
<1>4. TypeOK'
  <2>1. old_anchor' \in [Threads -> AnchorWords] /\ pc' \in [Threads -> Steps]
    BY <1>2, <1>3 DEF ReadAnchor, Goto, TypeOK, IInv, Steps
  <2>. QED BY <2>1 DEF ReadAnchor, TypeOK, heapVars, Parts, IInv, Steps
<1>5. Caller(t)'
  BY <1>1, <1>2 DEF Caller, Popping, IInv
<1>6. ~Overrun(active.desc) => Behind(t, anchor[active.desc].avail)'
  <2>1. ~Overrun(active.desc) => anchor[active.desc].avail \in 1..BLOCKS
    BY <1>2 DEF IInv, FreeList
  <2>. QED BY <2>1, <1>1, <1>2 DEF Behind
<1>. QED BY <1>1, <1>4, <1>5, <1>6, LocalStep

LEMMA CasAnchorFailsSafe == ASSUME IInv, NEW t \in Threads, CasAnchorFails(t) PROVE IInv'
<1>1. /\ UNCHANGED <<manVars, active, anchor, word, taken, given>> /\ pc[t] = "cas_anchor"
      /\ pc'[t] = "read_anchor" /\ old_active'[t] = old_active[t] /\ answer'[t] = answer[t]
      /\ \A u \in Threads \ {t} : Same(u)
  BY DEF CasAnchorFails, Goto, heapVars, manVars, Same, IInv, TypeOK
<1>2. TypeOK'
  <2>1. pc' \in [Threads -> Steps]
    BY DEF CasAnchorFails, Goto, TypeOK, IInv, Steps
  <2>. QED BY <2>1 DEF CasAnchorFails, TypeOK, heapVars, Parts, IInv, Steps
<1>3. Caller(t)' /\ Behind(t, anchor[active.desc].avail)'
  BY <1>1 DEF Caller, Behind, Popping, IInv
<1>. QED BY <1>1, <1>2, <1>3, LocalStep

LEMMA ReadNextSafe == ASSUME IInv, NEW t \in Threads, ReadNext(t) PROVE IInv'
<1>1. PICK w \in WordAt(old_active[t].desc, old_anchor[t].avail) :
        next_index' = [next_index EXCEPT ![t] = w]
  BY DEF ReadNext
<1>2. /\ UNCHANGED <<manVars, active, anchor, word, taken, given>> /\ pc[t] = "read_next"
      /\ pc'[t] = "cas_anchor" /\ old_active'[t] = old_active[t] /\ answer'[t] = answer[t]
      /\ old_anchor'[t] = old_anchor[t] /\ next_index'[t] = w
      /\ \A u \in Threads \ {t} : Same(u)
  BY <1>1 DEF ReadNext, Goto, heapVars, manVars, Same, IInv, TypeOK
<1>3. active.desc \in Descs /\ active.desc # NONE /\ old_active[t].desc = active.desc
  BY <1>2 DEF IInv, Caller, Popping, Heap, TypeOK
<1>4. /\ old_anchor[t].avail \in Blocks => w = word[active.desc][old_anchor[t].avail]
      /\ w \in Nat
  <2>1. word[active.desc] \in [Blocks -> Nat]
    BY <1>3 DEF IInv, TypeOK
  <2>. QED BY <1>1, <1>3, <2>1 DEF WordAt
<1>5. TypeOK'
  <2>1. pc' \in [Threads -> Steps] /\ next_index' \in [Threads -> Nat]
    BY <1>1, <1>4 DEF ReadNext, Goto, TypeOK, IInv, Steps
  <2>. QED BY <2>1 DEF ReadNext, TypeOK, heapVars, Parts, IInv, Steps
<1>6. Caller(t)'
  BY <1>2, <1>3 DEF Caller, Popping, IInv
<1>7. ~Overrun(active.desc) => Behind(t, anchor[active.desc].avail)'
  <2>. DEFINE d == active.desc
              a == anchor[d].avail
  <2>1. SUFFICES ASSUME ~Overrun(d) PROVE Behind(t, anchor[active.desc].avail)'
    OBVIOUS
  <2>2. /\ a \in 1..BLOCKS /\ old_anchor[t].avail \in 1..a
        /\ \A i \in Blocks \ {0} : i >= a => word[d][i] = i + 1
    BY <1>2, <1>3, <2>1 DEF IInv, FreeList, Behind
  <2>3. old_anchor[t].avail = a /\ a < BLOCKS => w = a + 1
    BY <1>4, <2>2 DEF Blocks
  <2>. QED BY <1>2, <2>2, <2>3 DEF Behind
<1>. QED BY <1>2, <1>3, <1>5, <1>6, <1>7, LocalStep

-----------------------------------------------------------------------------
(* A client that keeps to the first word writes what it was given.         *)
LEMMA ClientSafe == ASSUME IInv, SPAN = 1, ClientWrite PROVE IInv'
<1>1. PICK d \in Descs, i \in Blocks, w \in Data :
        /\ given[d][i] > 0
        /\ word' = [word EXCEPT ![d] = [j \in Blocks |->
                       IF j \in Reached(i) THEN w ELSE word[d][j]]]
  BY DEF ClientWrite
<1>2. UNCHANGED <<manVars, active, anchor, taken, given, calls, threadVars>>
  BY DEF ClientWrite
<1>3. word \in [Descs -> [Blocks -> Nat]] /\ w \in Nat /\ Blocks \subseteq 0..BLOCKS
  BY DEF IInv, TypeOK, Blocks
<1>4. d = active.desc /\ active.desc # NONE
  BY <1>1, <1>3 DEF IInv, Heap
<1>5. /\ \A e \in Descs \ {d} : word'[e] = word[e]
      /\ \A j \in Blocks : ~(j = i /\ i > 0) => word'[d][j] = word[d][j]
  <2>1. Reached(i) = IF i > 0 THEN {i} ELSE {}
    BY DEF Reached
  <2>. QED BY <1>1, <1>3, <2>1
<1>6. TypeOK'
  <2>1. [j \in Blocks |-> IF j \in Reached(i) THEN w ELSE word[d][j]] \in [Blocks -> Nat]
    BY <1>3
  <2>2. word' \in [Descs -> [Blocks -> Nat]]
    BY <1>1, <1>3, <2>1
  <2>. QED BY <1>2, <2>2 DEF TypeOK, IInv, manVars, threadVars, Parts
<1>7. Heap' /\ Kept'
  BY <1>2 DEF Heap, Kept, IInv, threadVars, manVars
<1>8. ASSUME NEW t \in Threads PROVE Caller(t)'
  <2>1. pc[t] = "cas_new" => new_desc[t] \in Descs \ {d}
    BY <1>4 DEF IInv, Caller, TypeOK
  <2>. QED BY <1>2, <1>5, <2>1 DEF Caller, IInv, threadVars, Overrun
<1>9. \A t, u \in Threads : t # u => Apart(t, u)'
  BY <1>2 DEF Apart, IInv, threadVars
<1>10. FreeList(active.desc, anchor[active.desc].avail)'
  <2>1. FreeList(d, anchor[d].avail) /\ (Overrun(d)' <=> Overrun(d))
    BY <1>2, <1>4 DEF IInv, Overrun
  <2>2. ASSUME ~Overrun(d), NEW j \in Blocks \ {0}, j >= anchor[d].avail
        PROVE  word'[d][j] = j + 1
    <3>1. given[d][j] = 0 /\ word[d][j] = j + 1
      BY <2>1, <2>2 DEF FreeList
    <3>. QED BY <3>1, <1>1, <1>5
  <2>. QED BY <2>1, <2>2, <1>2, <1>4 DEF FreeList
<1>11. active'.desc # NONE /\ ~Overrun(active.desc)' =>
         \A t \in Threads : Behind(t, anchor[active.desc].avail)'
  BY <1>2 DEF Behind, Overrun, IInv, threadVars
<1>. QED BY <1>6, <1>7, <1>8, <1>9, <1>4, <1>2, <1>10, <1>11 DEF IInv

(* A superblock nobody else knows is set up.                               *)
LEMMA GetDescSafe == ASSUME IInv, NEW t \in Threads, GetDesc(t) PROVE IInv'
<1>1. PICK d \in Descs \ taken, tag \in 0..(TAGS - 1) :
        /\ taken' = taken \cup {d}
        /\ new_desc' = [new_desc EXCEPT ![t] = d]
        /\ word' = [word EXCEPT ![d] = setup_sb]
        /\ anchor' = [anchor EXCEPT ![d] = NewAnchor(tag)]
  BY DEF GetDesc
<1>2. /\ UNCHANGED <<manVars, active, given, calls, old_active, old_anchor, next_index, answer>>
      /\ pc[t] = "get_desc" /\ pc' = [pc EXCEPT ![t] = "cas_new"]
  BY DEF GetDesc, Goto
<1>3. tag \in Nat /\ NewAnchor(tag) \in AnchorWords /\ NewAnchor(tag).avail = 1
      /\ NewAnchor(tag).counter = BLOCKS - NewCredits - 1
  BY NewAnchorFacts
<1>4. /\ pc'[t] = "cas_new" /\ new_desc'[t] = d
      /\ \A u \in Threads \ {t} : Same(u)
      /\ word'[d] = setup_sb /\ anchor'[d] = NewAnchor(tag)
      /\ \A e \in Descs \ {d} : word'[e] = word[e] /\ anchor'[e] = anchor[e]
  BY <1>1, <1>2 DEF IInv, TypeOK, Same
<1>5. d # active.desc /\ d # NONE /\ (active.desc # NONE => active.desc \in Descs \ {d})
  BY DEF IInv, Heap, TypeOK
<1>6. TypeOK'
  <2>1. word' \in [Descs -> [Blocks -> Nat]]
    BY <1>1, SetupType DEF IInv, TypeOK
  <2>2. anchor' \in [Descs -> AnchorWords]
    BY <1>1, <1>3 DEF IInv, TypeOK
  <2>3. pc' \in [Threads -> Steps] /\ new_desc' \in [Threads -> Descs \cup {NONE}] /\ taken' \subseteq Descs
    BY <1>1, <1>2 DEF IInv, TypeOK, Steps
  <2>. QED BY <1>2, <2>1, <2>2, <2>3 DEF TypeOK, IInv, manVars, Parts, Steps
<1>7. Heap'
  BY <1>1, <1>2 DEF Heap, IInv
<1>8. Kept'
  <2>1. start' \in {"failed", "final"} => objects' = {}
    BY <1>2 DEF Kept, IInv, manVars
  <2>2. ASSUME NEW e \in taken, e # active.desc
        PROVE  \E u \in Threads : pc'[u] = "cas_new" /\ new_desc'[u] = e
    <3>1. PICK u \in Threads : pc[u] = "cas_new" /\ new_desc[u] = e
      BY <2>2 DEF Kept, IInv
    <3>. QED BY <3>1, <1>2, <1>4 DEF Same
  <2>. QED BY <1>1, <1>2, <1>4, <2>1, <2>2 DEF Kept
<1>9. ASSUME NEW u \in Threads PROVE Caller(u)'
  <2>1. CASE u = t
    BY <2>1, <1>1, <1>2, <1>3, <1>4, <1>5 DEF Caller, Popping, IInv
  <2>2. CASE u # t
    <3>1. pc[u] = "cas_new" => new_desc[u] \in Descs \ {d} /\ new_desc[u] \in taken'
      BY <1>1 DEF IInv, Caller, TypeOK
    <3>. QED BY <2>2, <3>1, <1>2, <1>4 DEF Caller, Same, IInv, Overrun
  <2>. QED BY <2>1, <2>2
<1>10. ASSUME NEW u \in Threads, NEW v \in Threads, u # v PROVE Apart(u, v)'
  <2>1. \A w \in Threads : pc[w] = "cas_new" => new_desc[w] # d
    BY DEF IInv, Caller
  <2>. QED BY <1>10, <2>1, <1>2, <1>4 DEF Apart, Same, IInv
<1>11. Overrun(active.desc)' <=> Overrun(active.desc)
  BY <1>2 DEF Overrun
<1>12. active'.desc # NONE => FreeList(active.desc, anchor[active.desc].avail)'
  BY <1>2, <1>4, <1>5, <1>11 DEF FreeList, IInv
<1>13. ASSUME active'.desc # NONE, ~Overrun(active.desc)', NEW u \in Threads
       PROVE  Behind(u, anchor[active.desc].avail)'
  BY <1>2, <1>4, <1>5, <1>11, <1>13 DEF Behind, Same, IInv
<1>. QED BY <1>6, <1>7, <1>8, <1>9, <1>10, <1>12, <1>13 DEF IInv

(* The swap was won by another.                                            *)
LEMMA RollBackSafe == ASSUME IInv, NEW t \in Threads, RollBack(t) PROVE IInv'
<1>1. /\ UNCHANGED <<manVars, active, anchor, word, given, calls>>
      /\ pc[t] = "cas_new" /\ active # ZERO_ACTIVE /\ Return(t, "NULL")
      /\ taken' = taken \ {new_desc[t]}
  BY DEF RollBack
<1>2. /\ pc'[t] = "idle" /\ answer'[t] = "NULL" /\ \A u \in Threads \ {t} : Same(u)
  BY <1>1 DEF Return, Goto, Same, IInv, TypeOK
<1>3. /\ active.desc # NONE /\ active.desc \in taken /\ new_desc[t] # active.desc
  BY <1>1 DEF IInv, Heap, Caller
<1>4. TypeOK'
  <2>1. /\ pc' \in [Threads -> Steps]
        /\ old_active' \in [Threads -> ActiveWords] /\ old_anchor' \in [Threads -> AnchorWords]
        /\ next_index' \in [Threads -> Nat] /\ new_desc' \in [Threads -> Descs \cup {NONE}]
        /\ answer' \in [Threads -> {"none", "block", "NULL"}]
    BY <1>1, ReturnType DEF IInv, Steps
  <2>. QED BY <1>1, <2>1 DEF TypeOK, IInv, manVars, Parts, Steps
<1>5. Heap'
  BY <1>1, <1>3 DEF Heap, IInv
<1>6. Kept'
  <2>1. start' \in {"failed", "final"} => objects' = {}
    BY <1>1 DEF Kept, IInv, manVars
  <2>2. ASSUME NEW e \in taken \ {new_desc[t]}, e # active.desc
        PROVE  \E u \in Threads : pc'[u] = "cas_new" /\ new_desc'[u] = e
    <3>1. PICK u \in Threads : pc[u] = "cas_new" /\ new_desc[u] = e
      BY <2>2 DEF Kept, IInv
    <3>. QED BY <3>1, <2>2, <1>2 DEF Same
  <2>. QED BY <1>1, <2>1, <2>2 DEF Kept
<1>7. ASSUME NEW u \in Threads PROVE Caller(u)'
  <2>1. CASE u = t
    BY <2>1, <1>1, <1>2, <1>3 DEF Caller, Popping
  <2>2. CASE u # t
    <3>1. pc[u] = "cas_new" => new_desc[u] # new_desc[t]
      BY <2>2, <1>1 DEF IInv, Apart
    <3>. QED BY <2>2, <3>1, <1>1, <1>2 DEF Caller, Same, IInv, Overrun
  <2>. QED BY <2>1, <2>2
<1>8. ASSUME NEW u \in Threads, NEW v \in Threads, u # v PROVE Apart(u, v)'
  BY <1>8, <1>2 DEF Apart, Same, IInv
<1>9. active'.desc # NONE => FreeList(active.desc, anchor[active.desc].avail)'
  BY <1>1 DEF FreeList, Overrun, IInv
<1>10. ASSUME active'.desc # NONE, ~Overrun(active.desc)', NEW u \in Threads
       PROVE  Behind(u, anchor[active.desc].avail)'
  BY <1>1, <1>2, <1>10 DEF Behind, Overrun, Same, IInv
<1>. QED BY <1>4, <1>5, <1>6, <1>7, <1>8, <1>9, <1>10 DEF IInv

(* The swap is won: every block but block 0 is free.                       *)
LEMMA InstallSafe == ASSUME IInv, NEW t \in Threads, InstallActive(t) PROVE IInv'
<1>. DEFINE d == new_desc[t]
<1>1. /\ UNCHANGED <<manVars, anchor, word, taken, given, calls,
                     old_active, old_anchor, next_index, new_desc, answer>>
      /\ pc[t] = "cas_new" /\ active = ZERO_ACTIVE /\ pc' = [pc EXCEPT ![t] = "write_owner"]
      /\ active' = make_active([desc |-> d, credits |-> NewCredits])
  BY DEF InstallActive, Goto
<1>2. /\ d \in taken /\ d \in Descs /\ active.desc = NONE /\ d # NONE
      /\ anchor[d].avail = 1 /\ word[d] = setup_sb
  BY <1>1 DEF IInv, Caller, TypeOK, ZERO_ACTIVE
<1>3. active' \in ActiveWords /\ active'.desc = d
  BY <1>1, <1>2, ActiveType, NewCreditsFacts
<1>4. pc'[t] = "write_owner" /\ \A u \in Threads \ {t} : Same(u)
  BY <1>1 DEF IInv, TypeOK, Same
<1>5. /\ \A i \in 0..BLOCKS : given[d][i] = 0
      /\ \A e \in Descs, i \in 0..BLOCKS : given[e][i] = 0
  BY <1>2 DEF IInv, Heap
<1>6. \A u \in Threads : pc[u] \notin Popping /\ pc[u] # "write_owner" /\ answer[u] # "NULL"
  BY <1>2 DEF IInv, Caller
<1>7. TypeOK'
  <2>1. pc' \in [Threads -> Steps]
    BY <1>1 DEF IInv, TypeOK, Steps
  <2>. QED BY <1>1, <1>3, <2>1 DEF TypeOK, IInv, manVars, Parts, Steps
<1>8. Heap'
  BY <1>1, <1>2, <1>3, <1>5 DEF Heap
<1>9. Kept'
  <2>1. start' \in {"failed", "final"} => objects' = {}
    BY <1>1 DEF Kept, IInv, manVars
  <2>2. ASSUME NEW e \in taken, e # d
        PROVE  \E u \in Threads : pc'[u] = "cas_new" /\ new_desc'[u] = e
    <3>0. e # NONE
      BY DEF IInv, TypeOK
    <3>1. PICK u \in Threads : pc[u] = "cas_new" /\ new_desc[u] = e
      BY <2>2, <1>2, <3>0 DEF Kept, IInv
    <3>. QED BY <3>1, <2>2, <1>1, <1>4 DEF Same
  <2>. QED BY <1>1, <1>3, <2>1, <2>2 DEF Kept
<1>10. ASSUME NEW u \in Threads PROVE Caller(u)'
  <2>1. CASE u = t
    <3>1. given'[active'.desc][0] = 0
      BY <1>1, <1>3, <1>5
    <3>. QED BY <2>1, <3>1, <1>1, <1>2, <1>3, <1>4, <1>6 DEF Caller, Popping
  <2>2. CASE u # t
    <3>1. pc[u] = "cas_new" => new_desc[u] # d
      BY <2>2, <1>1 DEF IInv, Apart
    <3>. QED BY <2>2, <3>1, <1>1, <1>3, <1>4, <1>6 DEF Caller, Same, IInv
  <2>. QED BY <2>1, <2>2
<1>11. ASSUME NEW u \in Threads, NEW v \in Threads, u # v PROVE Apart(u, v)'
  BY <1>11, <1>1, <1>4, <1>6 DEF Apart, Same, IInv
<1>12. FreeList(active.desc, anchor[active.desc].avail)'
  <2>2. \A i \in Blocks \ {0} : i >= 1 /\ given[d][i] = 0 /\ word[d][i] = i + 1
    BY <1>2, <1>5 DEF Blocks, setup_sb
  <2>3. given[d][0] = 0 /\ 1 \in 1..BLOCKS
    BY <1>5
  <2>4. /\ active'.desc = d /\ anchor'[active'.desc].avail = 1
        /\ given' = given /\ word' = word
    BY <1>1, <1>2, <1>3
  <2>5. /\ given'[active'.desc][0] <= 1
        /\ \A i \in Blocks \ {0} : /\ ~(i < 1)
                                   /\ given'[active'.desc][i] = 0 /\ word'[active'.desc][i] = i + 1
    BY <2>2, <2>3, <2>4 DEF Blocks
  <2>6. ~Overrun(active.desc)'
    BY <1>5, <2>4 DEF Overrun
  <2>. HIDE DEF d
  <2>. QED BY <2>3, <2>4, <2>5, <2>6 DEF FreeList
<1>13. ASSUME NEW u \in Threads
       PROVE  Behind(u, anchor[active.desc].avail)'
  BY <1>1, <1>4, <1>6 DEF Behind, Same, Popping
<1>. QED BY <1>7, <1>8, <1>9, <1>10, <1>11, <1>12, <1>13 DEF IInv

(* A call that returns leaves the knowledge of the others, and the heap,   *)
(* as they are.                                                            *)
LEMMA ReturnKeeps ==
  ASSUME IInv, NEW t \in Threads, Return(t, "block"), pc[t] # "cas_new",
         UNCHANGED <<manVars, active, taken>>, active.desc # NONE
  PROVE  /\ pc'[t] = "idle" /\ \A u \in Threads \ {t} : Same(u)
         /\ Kept'
         /\ Caller(t)' /\ Behind(t, anchor[active.desc].avail)'
         /\ \A u, v \in Threads : u # v => Apart(u, v)'
<1>1. pc'[t] = "idle" /\ answer'[t] = "block" /\ \A u \in Threads \ {t} : Same(u)
  BY DEF Return, Goto, Same, IInv, TypeOK
<1>2. Kept'
  <2>1. start' \in {"failed", "final"} => objects' = {}
    BY DEF Kept, IInv, manVars
  <2>2. ASSUME NEW e \in taken, e # active.desc
        PROVE  \E u \in Threads : pc'[u] = "cas_new" /\ new_desc'[u] = e
    <3>1. PICK u \in Threads : pc[u] = "cas_new" /\ new_desc[u] = e
      BY <2>2 DEF Kept, IInv
    <3>. QED BY <3>1, <1>1 DEF Same
  <2>. QED BY <2>1, <2>2 DEF Kept
<1>3. Caller(t)' /\ Behind(t, anchor[active.desc].avail)'
  BY <1>1 DEF Caller, Behind, Popping
<1>4. ASSUME NEW u \in Threads, NEW v \in Threads, u # v PROVE Apart(u, v)'
  BY <1>1, <1>4 DEF Apart, Same, IInv
<1>. QED BY <1>1, <1>2, <1>3, <1>4

(* Block 0 is for the one who installed the superblock.                    *)
LEMMA WriteOwnerSafe == ASSUME IInv, NEW t \in Threads, WriteOwner(t) PROVE IInv'
<1>1. /\ UNCHANGED <<manVars, active, anchor, taken, calls>> /\ pc[t] = "write_owner"
      /\ Give(new_desc[t], 0) /\ Return(t, "block")
  BY DEF WriteOwner
<1>2. PICK w \in Data : word' = [word EXCEPT ![new_desc[t]] = [word[new_desc[t]] EXCEPT ![0] = w]]
  BY DEF WriteOwner
<1>3. PICK d \in Descs : d = active.desc /\ d = new_desc[t] /\ d # NONE /\ d \in taken
                     /\ (~Overrun(d) => given[d][0] = 0)
  BY <1>1 DEF IInv, Caller, Heap, TypeOK
<1>4. /\ pc'[t] = "idle" /\ (\A u \in Threads \ {t} : Same(u)) /\ Kept'
      /\ Caller(t)' /\ Behind(t, anchor[active.desc].avail)'
      /\ \A u, v \in Threads : u # v => Apart(u, v)'
  BY <1>1, <1>3, ReturnKeeps
<1>5. /\ given' \in [Descs -> [0..BLOCKS -> Nat]] /\ MIN(0, BLOCKS) = 0
      /\ \A e \in Descs, j \in 0..BLOCKS :
           given'[e][j] = IF e = d /\ j = 0 THEN given[e][j] + 1 ELSE given[e][j]
  <2>1. MIN(0, BLOCKS) = 0
    BY DEF MIN
  <2>2. Give(d, 0) /\ TypeOK
    BY <1>1, <1>3 DEF IInv
  <2>. QED BY <2>1, <2>2, GiveType
<1>6. /\ word' \in [Descs -> [Blocks -> Nat]]
      /\ \A e \in Descs \ {d} : word'[e] = word[e]
      /\ \A j \in Blocks \ {0} : word'[d][j] = word[d][j]
  <2>1. word \in [Descs -> [Blocks -> Nat]] /\ w \in Nat /\ word[d] \in [Blocks -> Nat]
    BY DEF IInv, TypeOK
  <2>2. [word[d] EXCEPT ![0] = w] \in [Blocks -> Nat]
        /\ \A j \in Blocks \ {0} : [word[d] EXCEPT ![0] = w][j] = word[d][j]
    BY <2>1
  <2>. QED BY <1>2, <1>3, <2>1, <2>2
<1>7. TypeOK'
  <2>1. /\ pc' \in [Threads -> Steps]
        /\ old_active' \in [Threads -> ActiveWords] /\ old_anchor' \in [Threads -> AnchorWords]
        /\ next_index' \in [Threads -> Nat] /\ new_desc' \in [Threads -> Descs \cup {NONE}]
        /\ answer' \in [Threads -> {"none", "block", "NULL"}]
    BY <1>1, ReturnType DEF IInv, Steps
  <2>. QED BY <1>1, <1>5, <1>6, <2>1 DEF TypeOK, IInv, manVars, Parts, Steps
<1>8. Heap'
  <2>1. \A e \in Descs, i \in 0..BLOCKS : e # d => given'[e][i] = 0
    <3>1. \A e \in Descs, i \in 0..BLOCKS : e # active.desc => given[e][i] = 0
      BY DEF Heap, IInv
    <3>2. \A e \in Descs, i \in 0..BLOCKS : e # d => given'[e][i] = given[e][i]
      BY <1>5
    <3>. QED BY <3>1, <3>2, <1>3
  <2>. QED BY <2>1, <1>1, <1>3 DEF Heap
<1>9. ASSUME NEW u \in Threads \ {t} PROVE Caller(u)'
  <2>1. pc[u] # "write_owner"
    BY <1>1 DEF IInv, Apart
  <2>2. pc[u] = "cas_new" => new_desc[u] \in Descs \ {d}
    BY <1>3 DEF IInv, Caller, TypeOK
  <2>. QED BY <2>1, <2>2, <1>1, <1>4, <1>6 DEF Caller, Same, IInv
<1>10. Overrun(active.desc)' <=> Overrun(active.desc)
  BY <1>1, <1>3, <1>5 DEF Overrun
<1>11. FreeList(active.desc, anchor[active.desc].avail)'
  <2>1. FreeList(d, anchor[d].avail) /\ Blocks \subseteq 0..BLOCKS
    BY <1>3 DEF IInv, Blocks
  <2>2. /\ ~Overrun(d) => given'[d][0] = 1
        /\ \A j \in Blocks \ {0} : given'[d][j] = given[d][j]
    <3>1. given'[d][0] = given[d][0] + 1
      BY <1>5
    <3>2. \A j \in Blocks \ {0} : given'[d][j] = given[d][j]
      BY <1>5, <2>1
    <3>. QED BY <3>1, <3>2, <1>3
  <2>3. PICK a \in Nat : a = anchor[d].avail
    BY DEF IInv, TypeOK, AnchorWords
  <2>4. active'.desc = d /\ anchor'[active'.desc].avail = a
    BY <1>1, <1>3, <2>3
  <2>5. Overrun(d) => \A i \in Blocks \ {0} : given'[d][i] > 0
    <3>1. Overrun(d) => \A i \in Blocks \ {0} : given[d][i] > 0
      BY <2>1 DEF FreeList
    <3>. QED BY <3>1, <2>2
  <2>6. ASSUME ~Overrun(d)
        PROVE  /\ a \in 1..BLOCKS /\ given'[d][0] <= 1
               /\ \A i \in Blocks \ {0} :
                    /\ i < a => given'[d][i] = 1
                    /\ i >= a => given'[d][i] = 0 /\ word'[d][i] = i + 1
    BY <2>1, <2>2, <2>3, <2>6, <1>6 DEF FreeList
  <2>7. Overrun(active.desc)' <=> Overrun(d)
    BY <1>3, <1>10
  <2>. QED BY <2>4, <2>5, <2>6, <2>7 DEF FreeList
<1>12. ASSUME ~Overrun(active.desc)', NEW u \in Threads \ {t}
       PROVE  Behind(u, anchor[active.desc].avail)'
  BY <1>1, <1>3, <1>4, <1>10, <1>12 DEF Behind, Same, IInv
<1>. QED BY <1>4, <1>7, <1>8, <1>9, <1>11, <1>12, <1>1, <1>3 DEF IInv

(* The block the anchor heads is taken.  The one whose anchor is the heap's *)
(* has read the index in a block nobody else can have had since.           *)
LEMMA CasAnchorSafe == ASSUME IInv, NEW t \in Threads, CasAnchor(t) PROVE IInv'
<1>1. /\ UNCHANGED <<manVars, active, word, taken, calls>> /\ pc[t] = "cas_anchor"
      /\ Give(old_active[t].desc, old_anchor[t].avail) /\ Return(t, "block")
      /\ anchor[old_active[t].desc] = old_anchor[t]
      /\ anchor' = [anchor EXCEPT ![old_active[t].desc] = Popped(t)]
  BY DEF CasAnchor
<1>2. PICK d \in Descs : d = active.desc /\ d = old_active[t].desc /\ d # NONE /\ d \in taken
  BY <1>1 DEF IInv, Caller, Heap, TypeOK, Popping
<1>3. PICK a \in Nat : a = anchor[d].avail /\ a = old_anchor[t].avail
  BY <1>1, <1>2 DEF IInv, TypeOK, AnchorWords
<1>4. /\ pc'[t] = "idle" /\ (\A u \in Threads \ {t} : Same(u)) /\ Kept'
      /\ Caller(t)' /\ Behind(t, anchor[active.desc].avail)'
      /\ \A u, v \in Threads : u # v => Apart(u, v)'
  BY <1>1, <1>2, ReturnKeeps
<1>5. /\ Popped(t) \in AnchorWords
      /\ next_index[t] < AVAILS => Popped(t).avail = next_index[t]
  BY PoppedFacts DEF IInv, TypeOK
<1>6. /\ anchor' \in [Descs -> AnchorWords] /\ anchor'[d] = Popped(t)
      /\ \A e \in Descs \ {d} : anchor'[e] = anchor[e]
  BY <1>1, <1>2, <1>5 DEF IInv, TypeOK
<1>7. /\ given' \in [Descs -> [0..BLOCKS -> Nat]]
      /\ \A e \in Descs, j \in 0..BLOCKS :
           given'[e][j] = IF e = d /\ j = MIN(a, BLOCKS) THEN given[e][j] + 1 ELSE given[e][j]
  <2>1. Give(d, a) /\ TypeOK
    BY <1>1, <1>2, <1>3 DEF IInv
  <2>. QED BY <2>1, GiveType
<1>8. TypeOK'
  <2>1. /\ pc' \in [Threads -> Steps]
        /\ old_active' \in [Threads -> ActiveWords] /\ old_anchor' \in [Threads -> AnchorWords]
        /\ next_index' \in [Threads -> Nat] /\ new_desc' \in [Threads -> Descs \cup {NONE}]
        /\ answer' \in [Threads -> {"none", "block", "NULL"}]
    BY <1>1, ReturnType DEF IInv, Steps
  <2>. QED BY <1>1, <1>6, <1>7, <2>1 DEF TypeOK, IInv, manVars, Parts, Steps
<1>9. Heap'
  <2>1. \A e \in Descs, i \in 0..BLOCKS : e # d => given'[e][i] = 0
    <3>1. \A e \in Descs, i \in 0..BLOCKS : e # active.desc => given[e][i] = 0
      BY DEF Heap, IInv
    <3>2. \A e \in Descs, i \in 0..BLOCKS : e # d => given'[e][i] = given[e][i]
      BY <1>7
    <3>. QED BY <3>1, <3>2, <1>2
  <2>. QED BY <2>1, <1>1, <1>2 DEF Heap
<1>10. FreeList(d, a)
  BY <1>2, <1>3 DEF IInv
<1>11. /\ Overrun(d)' <=> given'[d][BLOCKS] > 0
       /\ Overrun(d) <=> given[d][BLOCKS] > 0
       /\ \A j \in 0..BLOCKS : given[d][j] \in Nat /\ given'[d][j] \in Nat /\ given'[d][j] >= given[d][j]
  <2>1. \A j \in 0..BLOCKS : given[d][j] \in Nat
    BY DEF IInv, TypeOK
  <2>2. ASSUME NEW j \in 0..BLOCKS
        PROVE  given'[d][j] \in Nat /\ given'[d][j] >= given[d][j]
    <3>1. given'[d][j] = given[d][j] \/ given'[d][j] = given[d][j] + 1
      BY <1>7
    <3>. QED BY <3>1, <2>1
  <2>3. Overrun(d)' <=> given'[d][BLOCKS] > 0
    BY DEF Overrun
  <2>. QED BY <2>1, <2>2, <2>3 DEF Overrun
<1>12. ASSUME ~Overrun(d)
       PROVE  a \in 1..BLOCKS /\ MIN(a, BLOCKS) = a /\ (a < BLOCKS => next_index[t] = a + 1)
  <2>1. a \in 1..BLOCKS
    BY <1>10, <1>12 DEF FreeList
  <2>2. Behind(t, a)
    BY <1>2, <1>3, <1>12 DEF IInv
  <2>. QED BY <2>1, <2>2, <1>1, <1>3 DEF MIN, Behind
<1>13. \/ Overrun(d) /\ Overrun(d)'
       \/ ~Overrun(d) /\ a = BLOCKS /\ Overrun(d)'
       \/ ~Overrun(d) /\ a \in 1..(BLOCKS - 1) /\ ~Overrun(d)'
  <2>1. CASE Overrun(d)
    BY <2>1, <1>11
  <2>2. CASE ~Overrun(d) /\ a = BLOCKS
    <3>1. given'[d][BLOCKS] = given[d][BLOCKS] + 1
      BY <2>2, <1>12, <1>7
    <3>. QED BY <2>2, <3>1, <1>11
  <2>3. CASE ~Overrun(d) /\ a # BLOCKS
    <3>1. a \in 1..(BLOCKS - 1) /\ given'[d][BLOCKS] = given[d][BLOCKS]
      BY <2>3, <1>12, <1>7
    <3>. QED BY <2>3, <3>1, <1>11
  <2>. QED BY <2>1, <2>2, <2>3
<1>14. ASSUME ~Overrun(d), a \in 1..(BLOCKS - 1)
       PROVE  /\ anchor'[d].avail = a + 1 /\ given'[d][0] = given[d][0] /\ given'[d][a] = 1
              /\ \A j \in Blocks \ {0, a} : given'[d][j] = given[d][j]
  <2>1. next_index[t] = a + 1 /\ MIN(a, BLOCKS) = a /\ a \in Blocks \ {0} /\ Blocks \subseteq 0..BLOCKS
    BY <1>12, <1>14 DEF Blocks
  <2>2. given[d][a] = 0
    BY <1>10, <1>14, <2>1 DEF FreeList
  <2>3. anchor'[d].avail = a + 1
    BY <1>5, <1>6, <1>14, <2>1
  <2>. QED BY <1>7, <1>14, <2>1, <2>2, <2>3
<1>15. FreeList(d, anchor[d].avail)'
  <2>1. ASSUME Overrun(d)', NEW i \in Blocks \ {0} PROVE given'[d][i] > 0
    <3>1. given[d][i] > 0
      <4>1. CASE Overrun(d)
        BY <4>1, <1>10 DEF FreeList
      <4>2. CASE ~Overrun(d) /\ a = BLOCKS
        BY <4>2, <1>10 DEF FreeList, Blocks
      <4>. QED BY <4>1, <4>2, <1>13, <2>1
    <3>. QED BY <3>1, <1>11 DEF Blocks
  <2>2. ASSUME ~Overrun(d)'
        PROVE  /\ anchor'[d].avail \in 1..BLOCKS /\ given'[d][0] <= 1
               /\ \A i \in Blocks \ {0} :
                    /\ i < anchor'[d].avail => given'[d][i] = 1
                    /\ i >= anchor'[d].avail => given'[d][i] = 0 /\ word'[d][i] = i + 1
    <3>1. ~Overrun(d) /\ a \in 1..(BLOCKS - 1)
      BY <1>13, <2>2
    <3>2. /\ anchor'[d].avail = a + 1 /\ given'[d][0] = given[d][0] /\ given'[d][a] = 1
          /\ \A j \in Blocks \ {0, a} : given'[d][j] = given[d][j]
      BY <1>14, <3>1
    <3>3. /\ given[d][0] <= 1
          /\ \A i \in Blocks \ {0} :
               /\ i < a => given[d][i] = 1
               /\ i >= a => given[d][i] = 0 /\ word[d][i] = i + 1
      BY <1>10, <3>1 DEF FreeList
    <3>4. ASSUME NEW i \in Blocks \ {0}
          PROVE  /\ i < a + 1 => given'[d][i] = 1
                 /\ i >= a + 1 => given'[d][i] = 0 /\ word'[d][i] = i + 1
      <4>1. i \in Int
        BY DEF Blocks
      <4>2. CASE i = a
        BY <4>2, <3>2
      <4>3. CASE i # a
        BY <4>1, <4>3, <3>2, <3>3, <1>1
      <4>. QED BY <4>2, <4>3
    <3>. QED BY <3>1, <3>2, <3>3, <3>4
  <2>. QED BY <2>1, <2>2 DEF FreeList
<1>16. ASSUME NEW u \in Threads \ {t} PROVE Caller(u)'
  <2>1. pc[u] = "cas_new" => new_desc[u] \in Descs \ {d}
    BY <1>2 DEF IInv, Caller, TypeOK
  <2>2. ~Overrun(d)' => given'[d][0] = given[d][0] /\ ~Overrun(d)
    BY <1>13, <1>14
  <2>3. Caller(u)
    BY DEF IInv
  <2>. QED BY <2>1, <2>2, <2>3, <1>1, <1>2, <1>4, <1>6 DEF Caller, Same
<1>17. ASSUME ~Overrun(d)', NEW u \in Threads \ {t}
       PROVE  Behind(u, anchor[active.desc].avail)'
  <2>1. ~Overrun(d) /\ a \in 1..(BLOCKS - 1) /\ anchor'[d].avail = a + 1
    BY <1>13, <1>14, <1>17
  <2>2. Behind(u, a)
    BY <1>2, <1>3, <2>1 DEF IInv
  <2>3. active'.desc = d
    BY <1>1, <1>2
  <2>4. pc[u] \in {"read_next", "cas_anchor"} => old_anchor[u].avail \in 1..a
    BY <2>2 DEF Behind
  <2>. QED BY <2>1, <2>3, <2>4, <1>4 DEF Behind, Same
<1>18. active'.desc = d /\ (active'.desc # NONE => FreeList(active.desc, anchor[active.desc].avail)')
  <2>1. active'.desc = d
    BY <1>1, <1>2
  <2>. QED BY <2>1, <1>15
<1>19. active'.desc # NONE /\ ~Overrun(active.desc)' =>
         \A u \in Threads : Behind(u, anchor[active.desc].avail)'
  BY <1>4, <1>17, <1>18
<1>20. \A u \in Threads : Caller(u)'
  BY <1>4, <1>16
<1>. QED BY <1>4, <1>8, <1>9, <1>18, <1>19, <1>20 DEF IInv


-----------------------------------------------------------------------------
LEMMA Inductive == ASSUME SPAN = 1 PROVE IInv /\ [Next]_vars => IInv'
<1>. SUFFICES ASSUME IInv, [Next]_vars PROVE IInv'
  OBVIOUS
<1>1. CASE InitPart \/ InitFails \/ FinalManager
  BY <1>1, ManagerStep
<1>2. CASE ClientWrite
  BY <1>2, ClientSafe
<1>3. ASSUME NEW t \in Threads, Call(t) \/ Step(t) PROVE IInv'
  BY <1>3, CallSafe, ReadActiveSafe, CasActiveSafe, ReadAnchorSafe, ReadNextSafe,
     CasAnchorSafe, CasAnchorFailsSafe, GetDescSafe, InstallSafe, WriteOwnerSafe, RollBackSafe
     DEF Step
<1>4. CASE UNCHANGED vars
  <2>1. UNCHANGED <<start, objects, active, anchor, word, taken, given, calls,
                   pc, old_active, old_anchor, next_index, new_desc, answer>>
    BY <1>4 DEF vars, heapVars, threadVars
  <2>2. TypeOK' /\ Heap' /\ Kept'
    BY <2>1 DEF IInv, TypeOK, Heap, Kept, Parts
  <2>3. \A t \in Threads : Caller(t)'
    BY <2>1 DEF IInv, Caller, Overrun
  <2>4. \A t, u \in Threads : t # u => Apart(t, u)'
    BY <2>1 DEF IInv, Apart
  <2>5. active'.desc # NONE => FreeList(active.desc, anchor[active.desc].avail)'
    BY <2>1 DEF IInv, FreeList, Overrun
  <2>6. active'.desc # NONE /\ ~Overrun(active.desc)' =>
          \A t \in Threads : Behind(t, anchor[active.desc].avail)'
    BY <2>1 DEF IInv, Behind, Overrun
  <2>. QED BY <2>2, <2>3, <2>4, <2>5, <2>6 DEF IInv
<1>. QED BY <1>1, <1>2, <1>3, <1>4 DEF Next

(* The invariant holds in every state (main.c:246-330).                    *)
THEOREM InvariantHolds == ASSUME SPAN = 1 PROVE Spec => []IInv
<1>1. Init => IInv
  BY InitIInv
<1>2. IInv /\ [Next]_vars => IInv'
  BY Inductive
<1>. QED BY <1>1, <1>2, PTL DEF Spec

(* Whatever the callers' order and however often a compare-and-swap fails, *)
(* no block of a superblock is given to two of them before it runs out     *)
(* (main.c:267).                                                           *)
THEOREM BlocksStayDistinct == ASSUME SPAN = 1 PROVE Spec => []BlocksDistinct
<1>1. IInv => BlocksDistinct
  <2>. SUFFICES ASSUME IInv, NEW d \in Descs
       PROVE  /\ Overrun(d) => Left(d) = {}
              /\ ~Overrun(d) => \A i \in Blocks : given[d][i] <= 1
    BY DEF BlocksDistinct
  <2>0. Blocks \subseteq 0..BLOCKS /\ BLOCKS \in 0..BLOCKS
    BY DEF Blocks
  <2>1. CASE d # active.desc
    <3>1. \A i \in 0..BLOCKS : given[d][i] = 0
      BY <2>1 DEF IInv, Heap
    <3>. QED BY <3>1, <2>0 DEF Overrun
  <2>2. CASE d = active.desc
    <3>1. FreeList(d, anchor[d].avail)
      BY <2>2 DEF IInv
    <3>2. Overrun(d) => Left(d) = {}
      BY <3>1 DEF FreeList, Left
    <3>3. ASSUME ~Overrun(d), NEW i \in Blocks PROVE given[d][i] <= 1
      <4>1. anchor[d].avail \in Int /\ i \in Int
        BY DEF IInv, TypeOK, AnchorWords, Blocks
      <4>. QED BY <3>1, <3>3, <4>1 DEF FreeList
    <3>. QED BY <3>2, <3>3
  <2>. QED BY <2>1, <2>2
<1>. QED BY <1>1, InvariantHolds, PTL

(* A superblock that lost the race and the parts of a manager that failed  *)
(* are given back (main.c:80, 202).                                        *)
THEOREM SuperblockStaysOne == ASSUME SPAN = 1 PROVE Spec => []OneSuperblock
<1>1. IInv => OneSuperblock
  <2>. SUFFICES ASSUME IInv, \A t \in Threads : pc[t] = "idle"
       PROVE  taken = (IF active = ZERO_ACTIVE THEN {} ELSE {active.desc})
    BY DEF OneSuperblock, IInv, Kept
  <2>1. \A d \in taken : d = active.desc /\ d # NONE
    BY DEF IInv, Kept, TypeOK
  <2>2. active = ZERO_ACTIVE <=> active.desc = NONE
    BY DEF IInv, Heap, ZERO_ACTIVE
  <2>3. active.desc # NONE => active.desc \in taken
    BY DEF IInv, Heap
  <2>. QED BY <2>1, <2>2, <2>3
<1>. QED BY <1>1, InvariantHolds, PTL

-----------------------------------------------------------------------------
(* The counter, the credits, and the credits that callers have taken and   *)
(* not yet used are promises, and there is a free block for each.  A       *)
(* caller that found no credit takes at least one from the counter.        *)
Reserving == {t \in Threads : pc[t] \in Popping \ {"cas_active"} /\ old_active[t].credits > 0}

Promises(d) ==
  anchor[d].counter > 0 =>
    /\ ~Overrun(d)
    /\ anchor[d].counter + active.credits + Cardinality(Reserving) <= BLOCKS - anchor[d].avail

PInv == IInv /\ (active.desc # NONE => Promises(active.desc))

LEMMA QuietPromise ==
  ASSUME PInv, IInv', Reserving' = Reserving, active' = active,
         active.desc # NONE =>
           /\ anchor'[active.desc] = anchor[active.desc]
           /\ given'[active.desc][BLOCKS] = given[active.desc][BLOCKS]
  PROVE  PInv'
BY DEF PInv, Promises, Overrun

LEMMA ReservingFinite ==
  ASSUME IsFiniteSet(Threads)
  PROVE  IsFiniteSet(Reserving) /\ Cardinality(Reserving) \in Nat
<1>1. Reserving \subseteq Threads
  BY DEF Reserving
<1>. QED BY <1>1, FS_Subset, FS_CardinalityType

(* The steps that neither take a credit nor a block.                       *)
LEMMA QuietSteps ==
  ASSUME PInv, IInv', NEW t \in Threads,
         \/ Call(t) \/ ReadActive(t) \/ ReadAnchor(t) \/ ReadNext(t) \/ CasAnchorFails(t)
         \/ GetDesc(t) \/ RollBack(t) \/ WriteOwner(t)
  PROVE  PInv'
<1>1. /\ pc \in [Threads -> Steps] /\ old_active \in [Threads -> ActiveWords]
      /\ given \in [Descs -> [0..BLOCKS -> Nat]]
      /\ active.desc # NONE => active.desc \in taken /\ active.desc \in Descs
  BY DEF PInv, IInv, TypeOK, Heap, Steps
<1>2. CASE Call(t) \/ ReadAnchor(t) \/ ReadNext(t) \/ CasAnchorFails(t)
  <2>1. /\ active' = active /\ anchor' = anchor /\ given' = given /\ old_active' = old_active
        /\ \E x \in Steps : /\ pc' = [pc EXCEPT ![t] = x]
                            /\ pc[t] \in Popping \ {"cas_active"} <=> x \in Popping \ {"cas_active"}
    BY <1>2 DEF Call, ReadAnchor, ReadNext, CasAnchorFails, Goto, heapVars, Popping, Steps
  <2>2. \A u \in Threads : pc'[u] \in Popping \ {"cas_active"} <=> pc[u] \in Popping \ {"cas_active"}
    BY <1>1, <2>1
  <2>3. Reserving' = Reserving
    BY <2>1, <2>2 DEF Reserving
  <2>. QED BY <2>1, <2>3, QuietPromise
<1>3. CASE ReadActive(t)
  <2>1. /\ active' = active /\ anchor' = anchor /\ given' = given /\ pc[t] = "read_active"
        /\ pc'[t] \in {"get_desc", "cas_active"}
        /\ \A u \in Threads \ {t} : pc'[u] = pc[u] /\ old_active'[u] = old_active[u]
    BY <1>1, <1>3 DEF ReadActive, Goto, heapVars
  <2>2. Reserving' = Reserving
    BY <2>1 DEF Reserving, Popping
  <2>. QED BY <2>1, <2>2, QuietPromise
<1>4. CASE GetDesc(t)
  <2>1. PICK d \in Descs \ taken, tag \in 0..(TAGS - 1) :
          anchor' = [anchor EXCEPT ![d] = NewAnchor(tag)]
    BY <1>4 DEF GetDesc
  <2>2. /\ active' = active /\ given' = given /\ old_active' = old_active /\ pc[t] = "get_desc"
        /\ pc' = [pc EXCEPT ![t] = "cas_new"]
    BY <1>4 DEF GetDesc, Goto
  <2>3. active.desc # NONE => anchor'[active.desc] = anchor[active.desc]
    BY <1>1, <2>1 DEF PInv, IInv, TypeOK
  <2>4. Reserving' = Reserving
    BY <1>1, <2>2 DEF Reserving, Popping
  <2>. QED BY <2>2, <2>3, <2>4, QuietPromise
<1>5. CASE RollBack(t) \/ WriteOwner(t)
  <2>1. /\ active' = active /\ anchor' = anchor /\ pc[t] \in {"cas_new", "write_owner"}
        /\ \E v \in {"block", "NULL"} : Return(t, v)
    BY <1>5 DEF RollBack, WriteOwner
  <2>2. pc'[t] = "idle" /\ \A u \in Threads \ {t} : pc'[u] = pc[u] /\ old_active'[u] = old_active[u]
    BY <1>1, <2>1 DEF Return, Goto
  <2>3. Reserving' = Reserving
    BY <2>1, <2>2 DEF Reserving, Popping
  <2>4. active.desc # NONE => given'[active.desc][BLOCKS] = given[active.desc][BLOCKS]
    <3>1. CASE RollBack(t)
      BY <3>1 DEF RollBack
    <3>2. CASE WriteOwner(t)
      <4>1. Give(new_desc[t], 0) /\ new_desc[t] \in Descs /\ MIN(0, BLOCKS) = 0
        BY <3>2 DEF WriteOwner, PInv, IInv, Caller, Heap, TypeOK, MIN
      <4>2. \A e \in Descs, j \in 0..BLOCKS : j # 0 => given'[e][j] = given[e][j]
        BY <4>1, GiveType DEF PInv, IInv
      <4>. QED BY <4>2, <1>1
    <3>. QED BY <1>5, <3>1, <3>2
  <2>. QED BY <2>1, <2>3, <2>4, QuietPromise
<1>. QED BY <1>2, <1>3, <1>4, <1>5

(* A credit becomes a reservation.                                         *)
LEMMA CasActivePromise ==
  ASSUME PInv, IInv', NEW t \in Threads, CasActive(t), IsFiniteSet(Threads)
  PROVE  PInv'
<1>1. /\ pc \in [Threads -> Steps] /\ old_active \in [Threads -> ActiveWords]
      /\ active \in ActiveWords
  BY DEF PInv, IInv, TypeOK, Steps
<1>2. /\ pc[t] = "cas_active" /\ anchor' = anchor /\ given' = given /\ old_active' = old_active
      /\ \A u \in Threads \ {t} : pc'[u] = pc[u]
      /\ \/ active' = active /\ pc'[t] = "read_active"
         \/ active = old_active[t] /\ active' = Reserved(active) /\ pc'[t] = "read_anchor"
  BY <1>1 DEF CasActive, Goto
<1>3. CASE active' = active /\ pc'[t] = "read_active"
  <2>1. Reserving' = Reserving
    BY <1>2, <1>3 DEF Reserving, Popping
  <2>. QED BY <1>2, <1>3, <2>1, QuietPromise
<1>4. CASE active = old_active[t] /\ active' = Reserved(active) /\ pc'[t] = "read_anchor"
  <2>1. /\ active'.desc = active.desc /\ active.credits \in Nat
        /\ active'.credits = IF active.credits = 0 THEN 0 ELSE active.credits - 1
    BY <1>1, <1>4, ReservedFacts DEF ActiveWords
  <2>2. t \notin Reserving /\ Reserving' = Reserving \cup {u \in {t} : active.credits > 0}
    BY <1>2, <1>4 DEF Reserving, Popping
  <2>3. IsFiniteSet(Reserving) /\ Cardinality(Reserving) \in Nat
    BY ReservingFinite
  <2>4. active'.credits + Cardinality(Reserving') = active.credits + Cardinality(Reserving)
    <3>1. CASE active.credits = 0
      <4>1. Reserving' = Reserving
        BY <2>2, <3>1
      <4>. QED BY <4>1, <2>1, <3>1
    <3>2. CASE active.credits > 0
      <4>1. Reserving' = Reserving \cup {t}
        BY <2>2, <3>2
      <4>2. Cardinality(Reserving') = Cardinality(Reserving) + 1
        BY <4>1, <2>2, <2>3, FS_AddElement
      <4>. QED BY <4>2, <2>1, <2>3, <3>2
    <3>. QED BY <2>1, <3>1, <3>2
  <2>5. ASSUME active.desc # NONE, anchor[active.desc].counter > 0
        PROVE  /\ ~Overrun(active.desc)
               /\ anchor[active.desc].counter + active'.credits + Cardinality(Reserving')
                    <= BLOCKS - anchor[active.desc].avail
    <3>1. anchor[active.desc].counter \in Nat /\ anchor[active.desc].avail \in Nat
      <4>1. anchor[active.desc] \in AnchorWords
        BY <2>5 DEF PInv, IInv, TypeOK, Heap
      <4>. QED BY <4>1 DEF AnchorWords
    <3>2. active'.credits \in Nat /\ Cardinality(Reserving') \in Nat
      <4>1. IsFiniteSet(Reserving')
        BY <2>2, <2>3, FS_AddElement, FS_EmptySet, FS_Singleton, FS_Subset DEF Reserving
      <4>. QED BY <4>1, <2>1, FS_CardinalityType
    <3>. QED BY <2>3, <2>4, <2>5, <2>1, <3>1, <3>2 DEF PInv, Promises
  <2>6. active'.desc # NONE => Promises(active.desc)'
    BY <1>2, <2>1, <2>5 DEF Promises, Overrun
  <2>. QED BY <2>6 DEF PInv
<1>. QED BY <1>2, <1>3, <1>4

(* A block is taken: for a reservation, or for a share of the counter.     *)
LEMMA CasAnchorPromise ==
  ASSUME PInv, IInv', NEW t \in Threads, CasAnchor(t), IsFiniteSet(Threads)
  PROVE  PInv'
<1>1. PICK d \in Descs : d = active.desc /\ d = old_active[t].desc /\ d # NONE
  BY DEF PInv, IInv, Caller, Heap, TypeOK, Popping, CasAnchor
<1>2. /\ active' = active /\ pc[t] = "cas_anchor" /\ anchor[d] = old_anchor[t]
      /\ anchor'[d] = Popped(t) /\ Give(d, anchor[d].avail) /\ Return(t, "block")
  BY <1>1 DEF CasAnchor, PInv, IInv, TypeOK
<1>3. /\ anchor[d].avail \in Nat /\ anchor[d].counter \in Nat /\ active.credits \in Nat
      /\ old_active[t].credits \in Nat /\ MAXCREDITS \in Nat \ {0}
  <2>1. anchor[d] \in AnchorWords /\ active \in ActiveWords /\ old_active[t] \in ActiveWords
    BY DEF PInv, IInv, TypeOK
  <2>. QED BY <2>1 DEF AnchorWords, ActiveWords
<1>4. SUFFICES ASSUME anchor'[d].counter > 0
      PROVE  /\ ~(given'[d][BLOCKS] > 0)
             /\ anchor'[d].counter + active.credits + Cardinality(Reserving')
                  <= BLOCKS - anchor'[d].avail
  BY <1>1, <1>2 DEF PInv, Promises, Overrun
<1>5. anchor'[d].counter = IF old_active[t].credits = 0
                           THEN anchor[d].counter - MIN(anchor[d].counter, MAXCREDITS)
                           ELSE anchor[d].counter
  BY <1>2, PoppedFacts DEF PInv, IInv, TypeOK
<1>6. /\ anchor[d].counter > 0 /\ anchor'[d].counter \in Nat
      /\ anchor'[d].counter <= anchor[d].counter
      /\ old_active[t].credits = 0 => anchor'[d].counter + 1 <= anchor[d].counter
  <2>1. /\ MIN(anchor[d].counter, MAXCREDITS) \in Nat
        /\ MIN(anchor[d].counter, MAXCREDITS) <= anchor[d].counter
        /\ MIN(anchor[d].counter, MAXCREDITS) \in {anchor[d].counter, MAXCREDITS}
    BY <1>3, MinFacts
  <2>. QED BY <1>3, <1>4, <1>5, <2>1
<1>7. /\ ~Overrun(d)
      /\ anchor[d].counter + active.credits + Cardinality(Reserving) <= BLOCKS - anchor[d].avail
  BY <1>1, <1>6 DEF PInv, Promises
<1>8. IsFiniteSet(Reserving) /\ Cardinality(Reserving) \in Nat
  BY ReservingFinite
<1>9. anchor[d].avail \in 1..(BLOCKS - 1)
  <2>1. anchor[d].avail \in 1..BLOCKS
    BY <1>1, <1>7 DEF PInv, IInv, FreeList
  <2>. QED BY <2>1, <1>3, <1>6, <1>7, <1>8
<1>10. anchor'[d].avail = anchor[d].avail + 1
  <2>1. next_index[t] = anchor[d].avail + 1
    BY <1>1, <1>2, <1>7, <1>9 DEF PInv, IInv, Behind
  <2>2. next_index[t] < AVAILS
    BY <2>1, <1>9
  <2>. QED BY <1>2, <2>1, <2>2, PoppedFacts DEF PInv, IInv, TypeOK
<1>11. ~(given'[d][BLOCKS] > 0)
  <2>1. MIN(anchor[d].avail, BLOCKS) # BLOCKS
    BY <1>9 DEF MIN
  <2>2. given'[d][BLOCKS] = given[d][BLOCKS]
    BY <1>2, <1>3, <2>1, GiveType DEF PInv, IInv
  <2>. QED BY <2>2, <1>7 DEF Overrun
<1>12. Reserving' = Reserving \ {t}
  <2>1. pc'[t] = "idle" /\ \A u \in Threads \ {t} : pc'[u] = pc[u] /\ old_active'[u] = old_active[u]
    BY <1>2 DEF Return, Goto, PInv, IInv, TypeOK
  <2>. QED BY <2>1 DEF Reserving, Popping
<1>13. /\ Cardinality(Reserving') = IF t \in Reserving THEN Cardinality(Reserving) - 1
                                    ELSE Cardinality(Reserving)
       /\ old_active[t].credits > 0 => t \in Reserving
  <2>1. Cardinality(Reserving') = IF t \in Reserving THEN Cardinality(Reserving) - 1
                                  ELSE Cardinality(Reserving)
    BY <1>8, <1>12, FS_RemoveElement
  <2>. QED BY <2>1, <1>2 DEF Reserving, Popping
<1>14. /\ Cardinality(Reserving') <= Cardinality(Reserving) /\ Cardinality(Reserving') \in Int
       /\ old_active[t].credits > 0 => Cardinality(Reserving') + 1 = Cardinality(Reserving)
  BY <1>8, <1>13
<1>. QED BY <1>3, <1>6, <1>7, <1>8, <1>9, <1>10, <1>11, <1>14

LEMMA InstallPromise ==
  ASSUME PInv, IInv', NEW t \in Threads, InstallActive(t)
  PROVE  PInv'
<1>1. PICK d \in Descs : d = new_desc[t] /\ d # active.desc /\ d # NONE
  BY DEF InstallActive, PInv, IInv, Caller, TypeOK
<1>2. /\ pc[t] = "cas_new" /\ active.desc = NONE
      /\ active' = make_active([desc |-> d, credits |-> NewCredits])
      /\ UNCHANGED <<anchor, given, old_active>> /\ pc' = [pc EXCEPT ![t] = "write_owner"]
  BY <1>1 DEF InstallActive, Goto, ZERO_ACTIVE
<1>3. active'.desc = d /\ active'.credits = NewCredits
  BY <1>2, ActiveType, NewCreditsFacts
<1>4. anchor[d].avail = 1 /\ anchor[d].counter = BLOCKS - NewCredits - 1 /\ given[d][BLOCKS] = 0
  BY <1>1, <1>2 DEF PInv, IInv, Caller, Heap
<1>5. Reserving' = {}
  <2>1. \A u \in Threads : pc[u] \notin Popping
    BY <1>2 DEF PInv, IInv, Caller
  <2>2. \A u \in Threads : pc'[u] \notin Popping
    BY <1>2, <2>1 DEF PInv, IInv, TypeOK, Popping
  <2>. QED BY <2>2 DEF Reserving
<1>6. Cardinality(Reserving') = 0
  BY <1>5, FS_EmptySet
<1>7. /\ anchor'[active'.desc].counter = BLOCKS - NewCredits - 1 /\ anchor'[active'.desc].avail = 1
      /\ given'[active'.desc][BLOCKS] = 0
  BY <1>2, <1>3, <1>4
<1>8. Promises(active.desc)'
  BY <1>3, <1>6, <1>7, NewCreditsFacts DEF Promises, Overrun
<1>. QED BY <1>8 DEF PInv

LEMMA PromiseInductive ==
  ASSUME SPAN = 1, IsFiniteSet(Threads), PInv, [Next]_vars
  PROVE  PInv'
<1>1. IInv'
  BY Inductive DEF PInv
<1>2. CASE InitPart \/ InitFails \/ FinalManager \/ ClientWrite \/ UNCHANGED vars
  <2>1. UNCHANGED <<active, anchor, given, pc, old_active>>
    BY <1>2 DEF InitPart, InitFails, Failed, FinalManager, ClientWrite, vars, heapVars, threadVars
  <2>2. Reserving' = Reserving
    BY <2>1 DEF Reserving
  <2>. QED BY <1>1, <2>1, <2>2, QuietPromise
<1>3. ASSUME NEW t \in Threads, Call(t) \/ Step(t) PROVE PInv'
  BY <1>1, <1>3, QuietSteps, CasActivePromise, CasAnchorPromise, InstallPromise DEF Step
<1>. QED BY <1>2, <1>3 DEF Next

(* The counter never promises more blocks than are left (main.c:294).      *)
THEOREM CounterStaysHonest ==
  ASSUME SPAN = 1, IsFiniteSet(Threads)
  PROVE  Spec => []CounterHonest
<1>1. Init => PInv
  BY InitIInv DEF PInv, Init, ZERO_ACTIVE
<1>2. PInv /\ [Next]_vars => PInv'
  BY PromiseInductive
<1>3. PInv => CounterHonest
  <2>. SUFFICES ASSUME PInv, active # ZERO_ACTIVE
       PROVE  anchor[active.desc].counter <= Cardinality(Left(active.desc))
    BY DEF CounterHonest
  <2>1. PICK d \in Descs : d = active.desc /\ d # NONE
    BY DEF PInv, IInv, Heap, TypeOK
  <2>2. /\ anchor[d].avail \in Nat /\ anchor[d].counter \in Nat /\ active.credits \in Nat
    <3>1. anchor[d] \in AnchorWords /\ active \in ActiveWords
      BY DEF PInv, IInv, TypeOK
    <3>. QED BY <3>1 DEF AnchorWords, ActiveWords
  <2>3. IsFiniteSet(Left(d)) /\ Cardinality(Left(d)) \in Nat
    <3>1. Left(d) \subseteq 0..BLOCKS
      BY DEF Left, Blocks
    <3>2. IsFiniteSet(0..BLOCKS)
      BY FS_Interval
    <3>3. IsFiniteSet(Left(d))
      BY <3>1, <3>2, FS_Subset
    <3>. QED BY <3>3, FS_CardinalityType
  <2>4. ASSUME anchor[d].counter > 0
        PROVE  anchor[d].counter <= Cardinality(Left(d))
    <3>1. /\ ~Overrun(d)
          /\ anchor[d].counter + active.credits + Cardinality(Reserving) <= BLOCKS - anchor[d].avail
      BY <2>1, <2>4 DEF PInv, Promises
    <3>2. FreeList(d, anchor[d].avail) /\ Cardinality(Reserving) \in Nat
      BY <2>1, ReservingFinite DEF PInv, IInv
    <3>3. Left(d) = anchor[d].avail..(BLOCKS - 1)
      <4>1. /\ anchor[d].avail >= 1
            /\ \A i \in Blocks \ {0} :
                 /\ i < anchor[d].avail => given[d][i] = 1
                 /\ i >= anchor[d].avail => given[d][i] = 0
        BY <3>1, <3>2 DEF FreeList
      <4>. QED BY <4>1, <2>2 DEF Left, Blocks
    <3>4. Cardinality(Left(d)) >= BLOCKS - anchor[d].avail
      <4>1. Cardinality(Left(d)) = IF anchor[d].avail > BLOCKS - 1 THEN 0
                                   ELSE (BLOCKS - 1) - anchor[d].avail + 1
        BY <2>2, <3>3, FS_Interval
      <4>2. anchor[d].avail <= BLOCKS
        BY <3>1, <3>2 DEF FreeList
      <4>. QED BY <2>2, <4>1, <4>2
    <3>. QED BY <2>2, <2>3, <3>1, <3>2, <3>4
  <2>. QED BY <2>1, <2>2, <2>3, <2>4
<1>. QED BY <1>1, <1>2, <1>3, PTL DEF Spec

==============================================================================
