-------------------------- MODULE ListClientProofs --------------------------
(***************************************************************************)
(* What the clients of the list can rely on: that it is linearizable       *)
(* (AtomicListRefines), and what the harness's tests expect of it          *)
(* (ListTest).                                                             *)
(***************************************************************************)
EXTENDS AtomicListProofs, AtomicListRefines, ListTest, SequenceTheorems, FunctionTheorems

USE CellsAssumption, KeysAssumption

(* A step of t leaves the other threads alone, or kills all of them.       *)
LEMMA Others ==
  ASSUME TypeOK, NEW t \in Threads, Step(t), NEW u \in Threads, u # t
  PROVE  Same(u) \/ pc' = [v \in Threads |-> "killed"]
<1>. USE DEF Same, Goto, Return, memory, locals, ghosts, TypeOK
<1>1. CASE Call(t)
  BY <1>1 DEF Call
<1>2. CASE Insert(t)
  <2>1. CASE InsertAlloc(t)
    BY <2>1 DEF InsertAlloc
  <2>2. CASE InsertNoMemory(t) \/ InsertRead(t) \/ InsertSetNext(t) \/ InsertSetData(t)
    BY <2>2 DEF InsertNoMemory, InsertRead, InsertSetNext, InsertSetData
  <2>3. CASE InsertCas(t)
    BY <2>3 DEF InsertCas
  <2>. QED BY <1>2, <2>1, <2>2, <2>3 DEF Insert
<1>3. CASE Delete(t)
  <2>1. CASE SearchStart(t)
    BY <2>1 DEF SearchStart, Visit
  <2>2. CASE SearchCompare(t)
    BY <2>2 DEF SearchCompare
  <2>3. CASE SearchAdvance(t)
    BY <2>3 DEF SearchAdvance, Visit
  <2>4. CASE SearchCheckLeft(t) \/ SearchCheckNode(t) \/ SearchCheckAdjacent(t)
    BY <2>4 DEF SearchCheckLeft, SearchCheckNode, SearchCheckAdjacent, Check
  <2>5. CASE DeleteReadNext(t) \/ DeleteMark(t)
    BY <2>5 DEF DeleteReadNext, ReadNext, DeleteMark, Mark
  <2>6. CASE DeleteUnlink(t) \/ DeleteUnmark(t) \/ DeleteFree(t)
    BY <2>6 DEF DeleteUnlink, Unlink, DeleteUnmark, Unmark, DeleteFree, Free
  <2>. QED BY <1>3, <2>1, <2>2, <2>3, <2>4, <2>5, <2>6 DEF Delete, Search
<1>4. CASE DeleteFirst(t)
  <2>1. CASE FirstRead(t)
    BY <2>1 DEF FirstRead
  <2>2. CASE FirstReadNext(t) \/ FirstMark(t)
    BY <2>2 DEF FirstReadNext, ReadNext, FirstMark, Mark
  <2>3. CASE FirstUnlink(t) \/ FirstUnmark(t)
    BY <2>3 DEF FirstUnlink, Unlink, FirstUnmark, Unmark
  <2>4. CASE FirstData(t) \/ FirstFree(t)
    BY <2>4 DEF FirstData, FirstFree, Free
  <2>. QED BY <1>4, <2>1, <2>2, <2>3, <2>4 DEF DeleteFirst
<1>. QED BY <1>1, <1>2, <1>3, <1>4 DEF Step


(* A cell of the list keeps its datum, and only a CAS of t puts one in.    *)
LEMMA ListedData ==
  ASSUME IInv, NEW t \in Threads, Step(t)
  PROVE  /\ \A z \in linked' \ linked : z \notin Entered
         /\ \A z \in linked' \cap linked : data'[z] = data[z]
<1>. USE DEF Goto, Return, memory, locals, ghosts
<1>0. /\ TypeOK /\ linked \subseteq Entered /\ linked \subseteq Cells
      /\ Inserting(t) => node[t] \in Cells \ Entered
      /\ Freeing(t) => node[t] \in Cells \ linked
  BY StampFacts DEF IInv, Shape, Knows, Private
<1>1. CASE Call(t)
  BY <1>1 DEF Call
<1>2. CASE Insert(t)
  <2>1. CASE InsertAlloc(t) \/ InsertNoMemory(t) \/ InsertRead(t) \/ InsertSetNext(t)
    BY <2>1 DEF InsertAlloc, InsertNoMemory, InsertRead, InsertSetNext
  <2>2. CASE InsertSetData(t)
    BY <1>0, <2>2 DEF InsertSetData, Inserting, TypeOK
  <2>3. CASE InsertCas(t)
    BY <1>0, <2>3 DEF InsertCas, Inserting
  <2>. QED BY <1>2, <2>1, <2>2, <2>3 DEF Insert
<1>3. CASE Delete(t)
  <2>1. CASE Search(t)
    BY <2>1 DEF Search, SearchStart, SearchCompare, SearchAdvance, SearchCheckLeft,
         SearchCheckNode, SearchCheckAdjacent, Check
  <2>2. CASE DeleteReadNext(t) \/ DeleteMark(t) \/ DeleteUnlink(t) \/ DeleteUnmark(t)
    BY <2>2 DEF DeleteReadNext, ReadNext, DeleteMark, Mark, DeleteUnlink, Unlink,
         DeleteUnmark, Unmark
  <2>3. CASE DeleteFree(t)
    BY <1>0, <2>3 DEF DeleteFree, Free, Freeing, TypeOK
  <2>. QED BY <1>3, <2>1, <2>2, <2>3 DEF Delete
<1>4. CASE DeleteFirst(t)
  <2>1. CASE FirstRead(t) \/ FirstReadNext(t) \/ FirstMark(t) \/ FirstData(t)
    BY <2>1 DEF FirstRead, FirstReadNext, ReadNext, FirstMark, Mark, FirstData
  <2>2. CASE FirstUnlink(t) \/ FirstUnmark(t)
    BY <2>2 DEF FirstUnlink, Unlink, FirstUnmark, Unmark
  <2>3. CASE FirstFree(t)
    BY <1>0, <2>3 DEF FirstFree, Free, Freeing, TypeOK
  <2>. QED BY <1>4, <2>1, <2>2, <2>3 DEF DeleteFirst
<1>. QED BY <1>1, <1>2, <1>3, <1>4 DEF Step

-----------------------------------------------------------------------------
(* Where a thread is fits the call it makes; delete_first works on head;   *)
(* and what a search has found holds the datum while it is in the list.    *)
Deleting(t) == Seeking(t) \/ pc[t] = "delete_free"
TakingFirst(t) == pc[t] \in {"delete_first", "first_next", "first_mark", "first_unlink",
                             "first_unmark", "first_data", "first_free"}

CallMatches(t) ==
  /\ pc[t] = "insert" \/ Inserting(t) => program[t][called[t]].op = "insert"
  /\ Deleting(t) => program[t][called[t]].op = "delete"
  /\ TakingFirst(t) => program[t][called[t]].op = "delete_first"

FirstAtHead(t) ==
  pc[t] \in {"first_next", "first_mark", "first_unlink", "first_unmark"} => left[t] = HEAD

Found(t) ==
  pc[t] \in {"check_left", "check_node", "check_adjacent", "delete_next", "delete_mark",
             "delete_unlink"} /\ node[t] \in linked => data[node[t]] = Key(t)

CallInv == \A t \in Threads : CallMatches(t) /\ FirstAtHead(t) /\ Found(t)

LEMMA CallInvInit == Init => CallInv
BY DEF Init, CallInv, CallMatches, FirstAtHead, Found, Deleting, Seeking, TakingFirst, Inserting

(* The thread that makes the step.                                         *)
LEMMA CallInvMover ==
  ASSUME IInv, CallInv, NEW t \in Threads, Step(t)
  PROVE  (CallMatches(t) /\ FirstAtHead(t) /\ Found(t))'
<1>. USE DEF Goto, Return, memory, locals, ghosts, CallMatches, FirstAtHead, Found, Key,
       Deleting, Seeking, TakingFirst, Inserting
<1>0. /\ TypeOK /\ CallMatches(t) /\ FirstAtHead(t) /\ Found(t)
      /\ \A z \in linked' \cap linked : data'[z] = data[z]
  BY ListedData DEF IInv, CallInv
<1>1. CASE Call(t)
  <2>1. /\ program' = program /\ called'[t] = called[t] + 1
        /\ pc'[t] = program[t][called[t] + 1].op
        /\ program[t][called[t] + 1].op \in {"insert", "delete", "delete_first"}
    BY <1>0, <1>1, CallFacts DEF Call, TypeOK, Calls
  <2>. QED BY <2>1
<1>2. CASE Insert(t)
  <2>1. pc'[t] \in {"idle", "insert_read", "insert_next", "insert_data", "insert_cas"}
        /\ UNCHANGED <<program, called>>
        /\ pc[t] \in {"insert", "insert_read", "insert_next", "insert_data", "insert_cas"}
    BY <1>0, <1>2 DEF Insert, InsertAlloc, InsertNoMemory, InsertRead, InsertSetNext,
         InsertSetData, InsertCas, TypeOK
  <2>. QED BY <1>0, <2>1
<1>3. CASE Delete(t)
  <2>1. CASE SearchStart(t) \/ SearchAdvance(t)
    BY <1>0, <2>1 DEF SearchStart, SearchAdvance, Visit, TypeOK
  <2>2. CASE SearchCompare(t)
    BY <1>0, <2>2 DEF SearchCompare, TypeOK
  <2>3. CASE SearchCheckLeft(t) \/ SearchCheckNode(t) \/ SearchCheckAdjacent(t)
    BY <1>0, <2>3 DEF SearchCheckLeft, SearchCheckNode, SearchCheckAdjacent, Check, TypeOK
  <2>4. CASE DeleteReadNext(t)
    BY <1>0, <2>4 DEF DeleteReadNext, ReadNext, TypeOK
  <2>5. CASE DeleteMark(t)
    BY <1>0, <2>5 DEF DeleteMark, Mark, TypeOK
  <2>6. CASE DeleteUnlink(t) \/ DeleteUnmark(t) \/ DeleteFree(t)
    BY <1>0, <2>6 DEF DeleteUnlink, Unlink, DeleteUnmark, Unmark, DeleteFree, Free, TypeOK
  <2>. QED BY <1>3, <2>1, <2>2, <2>3, <2>4, <2>5, <2>6 DEF Delete, Search
<1>4. CASE DeleteFirst(t)
  <2>1. CASE FirstRead(t)
    BY <1>0, <2>1 DEF FirstRead, TypeOK
  <2>2. CASE FirstReadNext(t) \/ FirstMark(t)
    BY <1>0, <2>2 DEF FirstReadNext, ReadNext, FirstMark, Mark, TypeOK
  <2>3. CASE FirstUnlink(t) \/ FirstUnmark(t)
    BY <1>0, <2>3 DEF FirstUnlink, Unlink, FirstUnmark, Unmark, TypeOK
  <2>4. CASE FirstData(t) \/ FirstFree(t)
    BY <1>0, <2>4 DEF FirstData, FirstFree, Free, TypeOK
  <2>. QED BY <1>4, <2>1, <2>2, <2>3, <2>4 DEF DeleteFirst
<1>. QED BY <1>1, <1>2, <1>3, <1>4 DEF Step

LEMMA CallInvStep ==
  ASSUME IInv, CallInv, NEW t \in Threads, Step(t)
  PROVE  CallInv'
<1>. SUFFICES ASSUME NEW u \in Threads PROVE (CallMatches(u) /\ FirstAtHead(u) /\ Found(u))'
  BY DEF CallInv
<1>1. CASE u = t
  BY <1>1, CallInvMover
<1>2. CASE u # t /\ Same(u)
  <2>1. pc[u] \in {"check_left", "check_node", "check_adjacent", "delete_next", "delete_mark",
                   "delete_unlink"} => node[u] \in Entered
    BY DEF IInv, Knows, Walking, Marking, Holding
  <2>. QED BY <1>2, <2>1, ListedData DEF CallInv, CallMatches, FirstAtHead, Found, Key, Same,
              Deleting, Seeking, TakingFirst, Inserting
<1>3. CASE pc' = [v \in Threads |-> "killed"]
  BY <1>3 DEF CallMatches, FirstAtHead, Found, Deleting, Seeking, TakingFirst, Inserting
<1>. QED BY <1>1, <1>2, <1>3, Others DEF IInv

-----------------------------------------------------------------------------
(* While the tail sentinel is in the list every search ends there at the   *)
(* latest: no thread meets NULL.                                           *)
OnTheWay(t) ==
  /\ pc[t] # "killed"
  /\ pc[t] \in {"compare", "advance", "check_left", "check_node", "check_adjacent",
                "delete_next", "delete_mark", "delete_unlink", "delete_unmark"} =>
       node[t] \notin {NULL, TAIL}

WayInv == \A t \in Threads : OnTheWay(t)

LEMMA WayInvInit == Init => WayInv
BY DEF Init, WayInv, OnTheWay

LEMMA BeforeTail ==
  ASSUME IInv, TAIL \in linked, NEW n \in Entered, n # TAIL
  PROVE  next[n].ref # NULL
<1>1. TypeOK /\ Stamped /\ Ordered
  BY DEF IInv, Shape
<1>2. stamp[TAIL] = 1 /\ stamp[n] # 1 /\ stamp[n] \in Nat /\ stamp[n] > 0 /\ Age(NULL) = 0
  BY <1>1, StampFacts DEF Stamped
<1>. QED BY <1>1, <1>2 DEF Ordered

LEMMA WayInvStep ==
  ASSUME IInv, WayInv, TAIL \in linked, NEW t \in Threads, Step(t)
  PROVE  WayInv'
<1>. USE DEF Goto, Return, memory, locals, ghosts, OnTheWay
<1>0. TypeOK /\ OnTheWay(t) /\ HEAD \in Entered
  BY StampFacts DEF IInv, Shape, WayInv
<1>1. OnTheWay(t)'
  <2>1. CASE Call(t)
    <3>1. pc'[t] \in {"insert", "delete", "delete_first"}
      BY <1>0, <2>1, CallFacts DEF Call, TypeOK, Calls
    <3>. QED BY <3>1
  <2>2. CASE Insert(t)
    BY <1>0, <2>2 DEF Insert, InsertAlloc, InsertNoMemory, InsertRead, InsertSetNext,
         InsertSetData, InsertCas, TypeOK
  <2>3. CASE SearchStart(t)
    <3>1. next[HEAD].ref # NULL
      BY <1>0, BeforeTail
    <3>. QED BY <1>0, <2>3, <3>1 DEF SearchStart, Visit, TypeOK
  <2>4. CASE SearchAdvance(t)
    <3>1. node[t] \in Entered /\ node[t] # TAIL
      BY <1>0, <2>4 DEF SearchAdvance, IInv, Knows, Walking
    <3>2. node[t] \in Cells
      BY <1>0, <3>1, StampFacts DEF IInv, Shape
    <3>3. DelMark(next[node[t]]).ref # NULL
      <4>1. next[node[t]] \in Pointers /\ next[node[t]].ref # NULL
        BY <1>0, <3>1, <3>2, BeforeTail DEF TypeOK
      <4>. QED BY <4>1, MarkType
    <3>. QED BY <1>0, <2>4, <3>3 DEF SearchAdvance, Visit, TypeOK
  <2>5. CASE SearchCompare(t)
    BY <1>0, <2>5 DEF SearchCompare, TypeOK
  <2>6. CASE SearchCheckLeft(t) \/ SearchCheckNode(t) \/ SearchCheckAdjacent(t)
    BY <1>0, <2>6 DEF SearchCheckLeft, SearchCheckNode, SearchCheckAdjacent, Check, TypeOK
  <2>7. CASE DeleteReadNext(t) \/ DeleteMark(t)
    BY <1>0, <2>7 DEF DeleteReadNext, ReadNext, DeleteMark, Mark, TypeOK
  <2>8. CASE DeleteUnlink(t) \/ DeleteUnmark(t) \/ DeleteFree(t)
    BY <1>0, <2>8 DEF DeleteUnlink, Unlink, DeleteUnmark, Unmark, DeleteFree, Free, TypeOK
  <2>9. CASE DeleteFirst(t)
    <3>1. pc'[t] \in {"idle", "delete_first", "first_next", "first_mark", "first_unlink",
                      "first_unmark", "first_data", "first_free"}
      BY <1>0, <2>9 DEF DeleteFirst, FirstRead, FirstReadNext, ReadNext, FirstMark, Mark,
           FirstUnlink, Unlink, FirstUnmark, Unmark, FirstData, FirstFree, Free, TypeOK
    <3>. QED BY <3>1
  <2>. QED BY <2>1, <2>2, <2>3, <2>4, <2>5, <2>6, <2>7, <2>8, <2>9 DEF Step, Delete, Search
<1>2. ASSUME NEW u \in Threads, u # t PROVE OnTheWay(u)'
  <2>1. pc' # [v \in Threads |-> "killed"]
    BY <1>1
  <2>. QED BY <1>0, <1>2, <2>1, Others DEF Same, WayInv
<1>. QED BY <1>1, <1>2 DEF WayInv

-----------------------------------------------------------------------------
(* Ranks.  The members of a finite set, in the order of a function that    *)
(* tells them apart, the largest first.                                    *)
NotBelow(S, f, n) == {m \in S : f[m] >= f[n]}
Rank(S, f, n) == Cardinality(NotBelow(S, f, n))

Ranked(S, f) ==
  /\ IsFiniteSet(S)
  /\ \A m \in S : f[m] \in Nat
  /\ \A m, n \in S : m # n => f[m] # f[n]

LEMMA RankOrder ==
  ASSUME NEW S, NEW f, Ranked(S, f), NEW m \in S, NEW n \in S
  PROVE  /\ Rank(S, f, n) \in 1..Cardinality(S)
         /\ f[m] > f[n] => Rank(S, f, m) < Rank(S, f, n)
         /\ Rank(S, f, m) = Rank(S, f, n) => m = n
<1>1. ASSUME NEW k \in S
      PROVE  /\ k \in NotBelow(S, f, k) /\ IsFiniteSet(NotBelow(S, f, k))
             /\ Rank(S, f, k) \in 1..Cardinality(S)
  <2>1. NotBelow(S, f, k) \in SUBSET S /\ k \in NotBelow(S, f, k)
    BY DEF Ranked, NotBelow
  <2>2. /\ IsFiniteSet(NotBelow(S, f, k)) /\ Rank(S, f, k) <= Cardinality(S)
        /\ Rank(S, f, k) \in Nat /\ Cardinality(S) \in Nat
    BY <2>1, FS_Subset, FS_CardinalityType DEF Ranked, Rank
  <2>3. Rank(S, f, k) # 0
    BY <2>1, <2>2, FS_EmptySet DEF Rank
  <2>. QED BY <2>1, <2>2, <2>3
<1>2. ASSUME NEW k \in S, NEW l \in S, f[k] > f[l] PROVE Rank(S, f, k) < Rank(S, f, l)
  <2>1. NotBelow(S, f, k) \in SUBSET NotBelow(S, f, l)
    BY <1>2 DEF Ranked, NotBelow
  <2>2. l \in NotBelow(S, f, l) \ NotBelow(S, f, k)
    BY <1>2 DEF Ranked, NotBelow
  <2>3. Rank(S, f, k) <= Rank(S, f, l) /\ Rank(S, f, k) # Rank(S, f, l)
    BY <1>1, <2>1, <2>2, FS_Subset DEF Rank
  <2>4. Rank(S, f, k) \in Int /\ Rank(S, f, l) \in Int
    BY <1>1
  <2>. QED BY <2>3, <2>4
<1>3. ASSUME m # n PROVE Rank(S, f, m) # Rank(S, f, n)
  <2>1. f[m] > f[n] \/ f[n] > f[m]
    BY <1>3 DEF Ranked
  <2>2. Rank(S, f, m) \in Int /\ Rank(S, f, n) \in Int
    BY <1>1
  <2>. QED BY <1>2, <2>1, <2>2
<1>. QED BY <1>1, <1>2, <1>3

(* Every rank up to the number of members is that of one.                  *)
LEMMA RankTaken ==
  ASSUME NEW S, NEW f, Ranked(S, f), NEW i \in 1..Cardinality(S)
  PROVE  \E n \in S : Rank(S, f, n) = i
<1> DEFINE g == [n \in S |-> Rank(S, f, n)]
<1>1. g \in [S -> 1..Cardinality(S)] /\ \A m, n \in S : g[m] = g[n] => m = n
  BY RankOrder
<1>2. g \in Injection(S, 1..Cardinality(S))
  BY <1>1, Fun_IsInj
<1>3. /\ Cardinality(S) \in Nat
      /\ IsFiniteSet(1..Cardinality(S)) /\ Cardinality(1..Cardinality(S)) = Cardinality(S)
  BY FS_CardinalityType, FS_Interval DEF Ranked
<1>4. g \in Surjection(S, 1..Cardinality(S))
  BY <1>2, <1>3, FS_Injection
<1>5. \A k \in 1..Cardinality(S) : \E n \in S : g[n] = k
  <2> HIDE DEF g
  <2>. QED BY <1>4, Fun_SurjectionProperties
<1>. QED BY <1>5

(* A new largest member is the first, and the others move up by one.       *)
LEMMA RankAdd ==
  ASSUME NEW S, NEW f, Ranked(S, f), NEW x, x \notin S, NEW g, g[x] \in Nat,
         \A m \in S : g[m] = f[m] /\ f[m] < g[x]
  PROVE  /\ Ranked(S \cup {x}, g) /\ Cardinality(S \cup {x}) = Cardinality(S) + 1
         /\ Rank(S \cup {x}, g, x) = 1
         /\ \A m \in S : Rank(S \cup {x}, g, m) = Rank(S, f, m) + 1
<1>1. Ranked(S \cup {x}, g) /\ Cardinality(S \cup {x}) = Cardinality(S) + 1
  <2>1. IsFiniteSet(S \cup {x}) /\ Cardinality(S \cup {x}) = Cardinality(S) + 1
    BY FS_AddElement DEF Ranked
  <2>. QED BY <2>1 DEF Ranked
<1>2. NotBelow(S \cup {x}, g, x) = {x}
  BY DEF Ranked, NotBelow
<1>3. ASSUME NEW m \in S PROVE Rank(S \cup {x}, g, m) = Rank(S, f, m) + 1
  <2>1. NotBelow(S \cup {x}, g, m) = NotBelow(S, f, m) \cup {x}
    BY DEF Ranked, NotBelow
  <2>2. IsFiniteSet(NotBelow(S, f, m)) /\ x \notin NotBelow(S, f, m)
    <3>1. NotBelow(S, f, m) \in SUBSET S
      BY DEF NotBelow
    <3>. QED BY <3>1, FS_Subset DEF Ranked
  <2>. QED BY <2>1, <2>2, FS_AddElement DEF Rank
<1>. QED BY <1>1, <1>2, <1>3, FS_Singleton DEF Rank

(* When a member is removed, those behind it move down by one.             *)
LEMMA RankRemove ==
  ASSUME NEW S, NEW f, Ranked(S, f), NEW x \in S
  PROVE  /\ Ranked(S \ {x}, f) /\ Cardinality(S \ {x}) = Cardinality(S) - 1
         /\ \A m \in S \ {x} :
              Rank(S \ {x}, f, m) = IF Rank(S, f, m) < Rank(S, f, x) THEN Rank(S, f, m)
                                    ELSE Rank(S, f, m) - 1
<1>1. Ranked(S \ {x}, f) /\ Cardinality(S \ {x}) = Cardinality(S) - 1
  BY FS_RemoveElement DEF Ranked
<1>2. ASSUME NEW m \in S \ {x}
      PROVE  Rank(S \ {x}, f, m) = IF Rank(S, f, m) < Rank(S, f, x) THEN Rank(S, f, m)
                                   ELSE Rank(S, f, m) - 1
  <2>1. NotBelow(S \ {x}, f, m) = NotBelow(S, f, m) \ {x}
    BY DEF NotBelow
  <2>2. IsFiniteSet(NotBelow(S, f, m))
    <3>1. NotBelow(S, f, m) \in SUBSET S
      BY DEF NotBelow
    <3>. QED BY <3>1, FS_Subset DEF Ranked
  <2>3. Rank(S \ {x}, f, m) = IF x \in NotBelow(S, f, m) THEN Rank(S, f, m) - 1
                              ELSE Rank(S, f, m)
    BY <2>1, <2>2, FS_RemoveElement DEF Rank
  <2>4. x \in NotBelow(S, f, m) <=> f[x] > f[m]
    BY DEF Ranked, NotBelow
  <2>5. f[x] > f[m] <=> ~(Rank(S, f, m) < Rank(S, f, x))
    <3>1. f[x] > f[m] \/ f[m] > f[x]
      BY DEF Ranked
    <3>2. /\ Rank(S, f, m) \in Int /\ Rank(S, f, x) \in Int
          /\ f[x] > f[m] => Rank(S, f, x) < Rank(S, f, m)
          /\ f[m] > f[x] => Rank(S, f, m) < Rank(S, f, x)
      BY RankOrder
    <3>. QED BY <3>1, <3>2
  <2>. QED BY <2>3, <2>4, <2>5
<1>. QED BY <1>1, <1>2

-----------------------------------------------------------------------------
(* The list of the members with what they hold.                            *)
Member(S, f, i) == CHOOSE n \in S : Rank(S, f, n) = i
Listing(S, f, d) ==
  [i \in 1..Cardinality(S) |-> [cell |-> Member(S, f, i), key |-> d[Member(S, f, i)]]]

LEMMA AbstractListing == AbstractList = Listing(Inner, stamp, data)
BY DEF AbstractList, Listing, Member, At, Position, Rank, NotBelow

LEMMA MemberFacts ==
  ASSUME NEW S, NEW f, Ranked(S, f)
  PROVE  /\ Cardinality(S) \in Nat
         /\ \A i \in 1..Cardinality(S) : Member(S, f, i) \in S /\ Rank(S, f, Member(S, f, i)) = i
         /\ \A n \in S : Rank(S, f, n) \in 1..Cardinality(S) /\ Member(S, f, Rank(S, f, n)) = n
<1>1. Cardinality(S) \in Nat
  BY FS_CardinalityType DEF Ranked
<1>2. ASSUME NEW i \in 1..Cardinality(S)
      PROVE  Member(S, f, i) \in S /\ Rank(S, f, Member(S, f, i)) = i
  BY RankTaken DEF Member
<1>3. ASSUME NEW n \in S
      PROVE  Rank(S, f, n) \in 1..Cardinality(S) /\ Member(S, f, Rank(S, f, n)) = n
  <2>1. Rank(S, f, n) \in 1..Cardinality(S)
    BY RankOrder
  <2>. QED BY <1>2, <2>1, RankOrder
<1>. QED BY <1>1, <1>2, <1>3

Element(S, D) == [cell : S, key : D]

LEMMA ListingFacts ==
  ASSUME NEW S, NEW f, Ranked(S, f), NEW d, NEW D, \A n \in S : d[n] \in D
  PROVE  /\ Listing(S, f, d) \in Seq(Element(S, D)) /\ Len(Listing(S, f, d)) = Cardinality(S)
         /\ \A n \in S : /\ Rank(S, f, n) \in 1..Cardinality(S)
                          /\ Listing(S, f, d)[Rank(S, f, n)] = [cell |-> n, key |-> d[n]]
         /\ \A i \in 1..Cardinality(S) : \E n \in S :
              Listing(S, f, d)[i] = [cell |-> n, key |-> d[n]]
<1> DEFINE l == Listing(S, f, d)
<1>1. /\ Cardinality(S) \in Nat
      /\ \A i \in 1..Cardinality(S) : Member(S, f, i) \in S
      /\ \A n \in S : Rank(S, f, n) \in 1..Cardinality(S) /\ Member(S, f, Rank(S, f, n)) = n
  BY MemberFacts
<1>2. \A i \in 1..Cardinality(S) : l[i] = [cell |-> Member(S, f, i), key |-> d[Member(S, f, i)]]
  BY DEF Listing
<1>3. l \in [1..Cardinality(S) -> Element(S, D)]
  BY <1>1 DEF Listing, Element
<1>4. l \in Seq(Element(S, D)) /\ Len(l) = Cardinality(S)
  BY <1>1, <1>3
<1> HIDE DEF l
<1>5. \A n \in S : /\ Rank(S, f, n) \in 1..Cardinality(S)
                   /\ l[Rank(S, f, n)] = [cell |-> n, key |-> d[n]]
  BY <1>1, <1>2
<1>6. \A i \in 1..Cardinality(S) : \E n \in S : l[i] = [cell |-> n, key |-> d[n]]
  BY <1>1, <1>2
<1>. QED BY <1>4, <1>5, <1>6 DEF l

LEMMA ListingSame ==
  ASSUME NEW S, NEW f, NEW g, NEW d, NEW e, Ranked(S, f),
         \A n \in S : f[n] = g[n] /\ d[n] = e[n]
  PROVE  Listing(S, f, d) = Listing(S, g, e)
<1>1. \A n \in S : NotBelow(S, f, n) = NotBelow(S, g, n)
  BY DEF NotBelow
<1>2. \A n \in S : Rank(S, f, n) = Rank(S, g, n)
  BY <1>1 DEF Rank
<1>3. Ranked(S, g)
  BY DEF Ranked
<1>4. \A i \in 1..Cardinality(S) : Member(S, f, i) = Member(S, g, i) /\ Member(S, f, i) \in S
  BY <1>2, <1>3, MemberFacts
<1>. QED BY <1>4 DEF Listing

LEMMA Prepend ==
  ASSUME NEW E, NEW a \in E, NEW l \in Seq(E)
  PROVE  /\ <<a>> \o l \in Seq(E) /\ Len(<<a>> \o l) = Len(l) + 1
         /\ \A i \in 1..(Len(l) + 1) : (<<a>> \o l)[i] = IF i = 1 THEN a ELSE l[i - 1]
OBVIOUS

InFront(a, l) == <<a>> \o l

LEMMA ListingAdd ==
  ASSUME NEW S, NEW f, Ranked(S, f), NEW x, x \notin S, NEW g, g[x] \in Nat,
         \A m \in S : g[m] = f[m] /\ f[m] < g[x],
         NEW d, NEW e, \A m \in S : d[m] = e[m]
  PROVE  Listing(S \cup {x}, g, e) = InFront([cell |-> x, key |-> e[x]], Listing(S, f, d))
<1> DEFINE T == S \cup {x}
           D == {e[m] : m \in T}
           one == [cell |-> x, key |-> e[x]]
<1>1. /\ Ranked(T, g) /\ Cardinality(T) = Cardinality(S) + 1 /\ Cardinality(S) \in Nat
      /\ Rank(T, g, x) = 1
      /\ \A m \in S : Rank(T, g, m) = Rank(S, f, m) + 1
  BY RankAdd, MemberFacts
<1>2. Member(T, g, 1) = x
  BY <1>1, MemberFacts
<1>3. ASSUME NEW i \in 1..Cardinality(S) PROVE Member(T, g, i + 1) = Member(S, f, i)
  <2>1. Member(S, f, i) \in S /\ Rank(S, f, Member(S, f, i)) = i
    BY MemberFacts
  <2>2. Rank(T, g, Member(S, f, i)) = i + 1
    BY <1>1, <2>1
  <2>. QED BY <1>1, <2>1, <2>2, MemberFacts
<1>4. /\ Listing(T, g, e) \in Seq(Element(T, D)) /\ Len(Listing(T, g, e)) = Cardinality(T)
      /\ Listing(S, f, d) \in Seq(Element(S, D)) /\ Len(Listing(S, f, d)) = Cardinality(S)
  <2>1. (\A n \in T : e[n] \in D) /\ (\A n \in S : d[n] \in D)
    OBVIOUS
  <2> HIDE DEF D, T
  <2>2. Listing(T, g, e) \in Seq(Element(T, D)) /\ Len(Listing(T, g, e)) = Cardinality(T)
    BY <1>1, <2>1, ListingFacts
  <2>3. Listing(S, f, d) \in Seq(Element(S, D)) /\ Len(Listing(S, f, d)) = Cardinality(S)
    BY <2>1, ListingFacts
  <2>. QED BY <2>2, <2>3
<1>5. one \in Element(T, D) /\ Listing(S, f, d) \in Seq(Element(T, D))
  <2>1. Element(S, D) \subseteq Element(T, D) /\ one \in Element(T, D)
    BY DEF Element
  <2> HIDE DEF D, T, one
  <2>. QED BY <1>4, <2>1, SeqMonotonic
<1>6. /\ <<one>> \o Listing(S, f, d) \in Seq(Element(T, D))
      /\ Len(<<one>> \o Listing(S, f, d)) = Cardinality(T)
      /\ \A i \in 1..Cardinality(T) : (<<one>> \o Listing(S, f, d))[i] =
            IF i = 1 THEN one ELSE Listing(S, f, d)[i - 1]
  <2> HIDE DEF D, T, one
  <2>. QED BY <1>1, <1>4, <1>5, Prepend
<1>7. ASSUME NEW i \in 1..Cardinality(T)
      PROVE  Listing(T, g, e)[i] = (<<one>> \o Listing(S, f, d))[i]
  <2>1. CASE i = 1
    BY <1>1, <1>2, <1>6, <2>1 DEF Listing
  <2>2. CASE i # 1
    <3>1. i - 1 \in 1..Cardinality(S) /\ (i - 1) + 1 = i
      BY <1>1, <2>2
    <3>2. Member(T, g, i) = Member(S, f, i - 1) /\ Member(S, f, i - 1) \in S
      BY <1>3, <3>1, MemberFacts
    <3>3. Listing(S, f, d)[i - 1] = [cell |-> Member(S, f, i - 1), key |-> d[Member(S, f, i - 1)]]
      BY <3>1 DEF Listing
    <3>4. Listing(T, g, e)[i] = [cell |-> Member(T, g, i), key |-> e[Member(T, g, i)]]
      BY DEF Listing
    <3>. QED BY <1>1, <1>6, <2>2, <3>2, <3>3, <3>4
  <2>. QED BY <2>1, <2>2
<1> HIDE DEF T, D, one
<1>8. Listing(T, g, e) = <<one>> \o Listing(S, f, d)
  BY <1>4, <1>6, <1>7, SeqEqual
<1>. QED BY <1>8 DEF T, one, InFront

LEMMA Removed ==
  ASSUME NEW E, NEW l \in Seq(E), NEW k \in 1..Len(l)
  PROVE  /\ Abstract!RemoveAt(l, k) \in Seq(E) /\ Len(Abstract!RemoveAt(l, k)) = Len(l) - 1
         /\ \A i \in 1..(Len(l) - 1) :
              Abstract!RemoveAt(l, k)[i] = IF i < k THEN l[i] ELSE l[i + 1]
         /\ k = 1 => Abstract!RemoveAt(l, k) = Tail(l)
<1> DEFINE a == SubSeq(l, 1, k - 1)
           b == SubSeq(l, k + 1, Len(l))
<1>1. a \in Seq(E) /\ Len(a) = k - 1 /\ \A i \in 1..(k - 1) : a[i] = l[i]
  OBVIOUS
<1>2. b \in Seq(E) /\ Len(b) = Len(l) - k /\ \A i \in 1..(Len(l) - k) : b[i] = l[i + k]
  OBVIOUS
<1>3. Abstract!RemoveAt(l, k) = a \o b
  BY DEF Abstract!RemoveAt
<1> HIDE DEF a, b
<1>4. /\ a \o b \in Seq(E) /\ Len(a \o b) = Len(l) - 1
      /\ \A i \in 1..(Len(l) - 1) : (a \o b)[i] = IF i <= k - 1 THEN a[i] ELSE b[i - (k - 1)]
  <2>1. /\ a \o b \in Seq(E) /\ Len(a \o b) = Len(a) + Len(b)
        /\ \A i \in 1..(Len(a) + Len(b)) : (a \o b)[i] = IF i <= Len(a) THEN a[i] ELSE b[i - Len(a)]
    BY <1>1, <1>2, ConcatProperties
  <2>2. Len(a) + Len(b) = Len(l) - 1
    BY <1>1, <1>2
  <2>. QED BY <1>1, <2>1, <2>2
<1>5. \A i \in 1..(Len(l) - 1) : (a \o b)[i] = IF i < k THEN l[i] ELSE l[i + 1]
  <2>1. ASSUME NEW i \in 1..(Len(l) - 1), i < k PROVE (a \o b)[i] = l[i]
    <3>1. i \in 1..(k - 1)
      BY <2>1
    <3>. QED BY <1>1, <1>4, <3>1
  <2>2. ASSUME NEW i \in 1..(Len(l) - 1), ~(i < k) PROVE (a \o b)[i] = l[i + 1]
    <3>1. i - (k - 1) \in 1..(Len(l) - k) /\ (i - (k - 1)) + k = i + 1 /\ ~(i <= k - 1)
      BY <2>2
    <3>2. (a \o b)[i] = b[i - (k - 1)]
      BY <1>4, <3>1
    <3>. QED BY <1>2, <3>1, <3>2
  <2>. QED BY <2>1, <2>2
<1>6. ASSUME k = 1 PROVE a \o b = Tail(l)
  <2> DEFINE tl == Tail(l)
             ab == a \o b
  <2>1. tl \in Seq(E) /\ Len(tl) = Len(l) - 1 /\ \A i \in 1..(Len(l) - 1) : tl[i] = l[i + 1]
    OBVIOUS
  <2>2. ab \in Seq(E) /\ Len(ab) = Len(l) - 1
        /\ \A i \in 1..(Len(l) - 1) : ab[i] = IF i < k THEN l[i] ELSE l[i + 1]
    BY <1>4, <1>5
  <2> HIDE DEF tl, ab
  <2>3. \A i \in 1..(Len(l) - 1) : ab[i] = tl[i]
    BY <1>6, <2>1, <2>2
  <2>4. ab = tl
    BY <2>1, <2>2, <2>3, SeqEqual
  <2>. QED BY <2>4 DEF ab, tl
<1>. QED BY <1>3, <1>4, <1>5, <1>6

LEMMA ListingRemove ==
  ASSUME NEW S, NEW f, Ranked(S, f), NEW x \in S,
         NEW d, NEW e, \A m \in S \ {x} : d[m] = e[m]
  PROVE  Listing(S \ {x}, f, e) = Abstract!RemoveAt(Listing(S, f, d), Rank(S, f, x))
<1> DEFINE T == S \ {x}
           D == {d[m] : m \in S}
           k == Rank(S, f, x)
           l == Listing(S, f, d)
           r == Listing(T, f, e)
           gone == Abstract!RemoveAt(l, k)
<1>1. /\ Ranked(T, f) /\ Cardinality(T) = Cardinality(S) - 1 /\ Cardinality(S) \in Nat
      /\ \A m \in T : Rank(T, f, m) = IF Rank(S, f, m) < k THEN Rank(S, f, m)
                                      ELSE Rank(S, f, m) - 1
      /\ k \in 1..Cardinality(S)
  BY RankRemove, MemberFacts
<1>2. ASSUME NEW i \in 1..Cardinality(T)
      PROVE  Member(T, f, i) = IF i < k THEN Member(S, f, i) ELSE Member(S, f, i + 1)
  <2> DEFINE j == IF i < k THEN i ELSE i + 1
  <2>1. j \in 1..Cardinality(S) /\ j # k
    BY <1>1
  <2>2. Member(S, f, j) \in S /\ Rank(S, f, Member(S, f, j)) = j
    BY <2>1, MemberFacts
  <2>3. Member(S, f, j) \in T
    BY <2>1, <2>2
  <2>4. Rank(T, f, Member(S, f, j)) = i
    BY <1>1, <2>2, <2>3
  <2>5. Member(T, f, i) = Member(S, f, j)
    BY <1>1, <2>3, <2>4, MemberFacts
  <2>. QED BY <2>5
<1>3. /\ l \in Seq(Element(S, D)) /\ Len(l) = Cardinality(S)
      /\ r \in Seq(Element(T, D)) /\ Len(r) = Cardinality(T)
  <2>1. (\A n \in S : d[n] \in D) /\ (\A n \in T : e[n] \in D)
    OBVIOUS
  <2> HIDE DEF D, T
  <2>. QED BY <1>1, <2>1, ListingFacts
<1>4. r \in Seq(Element(S, D))
  <2>1. Element(T, D) \subseteq Element(S, D)
    BY DEF Element
  <2> HIDE DEF D, T, r
  <2>. QED BY <1>3, <2>1, SeqMonotonic
<1>5. /\ gone \in Seq(Element(S, D)) /\ Len(gone) = Cardinality(T)
      /\ \A i \in 1..Cardinality(T) : gone[i] = IF i < k THEN l[i] ELSE l[i + 1]
  <2>1. /\ gone \in Seq(Element(S, D)) /\ Len(gone) = Len(l) - 1
        /\ \A i \in 1..(Len(l) - 1) : gone[i] = IF i < k THEN l[i] ELSE l[i + 1]
    <3>1. l \in Seq(Element(S, D)) /\ k \in 1..Len(l)
      BY <1>1, <1>3
    <3> HIDE DEF D, T, l, k
    <3>. QED BY <3>1, Removed
  <2> HIDE DEF D, T, l, k, gone
  <2>. QED BY <1>1, <1>3, <2>1
<1>6. ASSUME NEW i \in 1..Cardinality(T) PROVE r[i] = gone[i]
  <2>1. r[i] = [cell |-> Member(T, f, i), key |-> e[Member(T, f, i)]]
    BY DEF Listing
  <2>2. \A j \in 1..Cardinality(S) : l[j] = [cell |-> Member(S, f, j), key |-> d[Member(S, f, j)]]
    BY DEF Listing
  <2>3. Member(T, f, i) \in T
    BY <1>1, MemberFacts
  <2>4. e[Member(T, f, i)] = d[Member(T, f, i)]
    BY <2>3
  <2> HIDE DEF r, l, T, k, gone
  <2>. QED BY <1>1, <1>2, <1>5, <2>1, <2>2, <2>4
<1> HIDE DEF r, l, T, k, gone, D
<1>7. r = gone
  BY <1>3, <1>4, <1>5, <1>6, SeqEqual
<1>. QED BY <1>7 DEF r, l, T, k, gone

-----------------------------------------------------------------------------
(* What a step of t writes besides "next" words: data of its own cell.     *)
LEMMA OwnWrites ==
  ASSUME IInv, NEW t \in Threads, Step(t)
  PROVE  /\ \A n \in Cells : data'[n] # data[n] =>
                n = node[t] /\ pc[t] \in {"insert_data", "delete_free", "first_free"}
         /\ \A u \in Threads \ {t} : out'[u] = out[u]
         /\ pc[t] # "first_data" => out' = out
<1>. USE DEF Goto, Return, memory, locals, ghosts
<1>0. TypeOK
  BY DEF IInv
<1>1. CASE Call(t)
  BY <1>1 DEF Call
<1>2. CASE Insert(t)
  <2>1. CASE InsertAlloc(t) \/ InsertNoMemory(t) \/ InsertRead(t) \/ InsertSetNext(t) \/ InsertCas(t)
    BY <2>1 DEF InsertAlloc, InsertNoMemory, InsertRead, InsertSetNext, InsertCas
  <2>2. CASE InsertSetData(t)
    BY <1>0, <2>2 DEF InsertSetData, TypeOK
  <2>. QED BY <1>2, <2>1, <2>2 DEF Insert
<1>3. CASE Delete(t)
  <2>1. CASE Search(t)
    BY <2>1 DEF Search, SearchStart, SearchCompare, SearchAdvance, SearchCheckLeft,
         SearchCheckNode, SearchCheckAdjacent, Check
  <2>2. CASE DeleteReadNext(t) \/ DeleteMark(t) \/ DeleteUnlink(t) \/ DeleteUnmark(t)
    BY <2>2 DEF DeleteReadNext, ReadNext, DeleteMark, Mark, DeleteUnlink, Unlink,
         DeleteUnmark, Unmark
  <2>3. CASE DeleteFree(t)
    BY <1>0, <2>3 DEF DeleteFree, Free, TypeOK
  <2>. QED BY <1>3, <2>1, <2>2, <2>3 DEF Delete
<1>4. CASE DeleteFirst(t)
  <2>1. CASE FirstRead(t) \/ FirstReadNext(t) \/ FirstMark(t)
    BY <2>1 DEF FirstRead, FirstReadNext, ReadNext, FirstMark, Mark
  <2>2. CASE FirstUnlink(t) \/ FirstUnmark(t)
    BY <2>2 DEF FirstUnlink, Unlink, FirstUnmark, Unmark
  <2>3. CASE FirstFree(t)
    BY <1>0, <2>3 DEF FirstFree, Free, TypeOK
  <2>4. CASE FirstData(t)
    BY <1>0, <2>4 DEF FirstData, TypeOK
  <2>. QED BY <1>4, <2>1, <2>2, <2>3, <2>4 DEF DeleteFirst
<1>. QED BY <1>1, <1>2, <1>3, <1>4 DEF Step

(* The abstract list as a function of the cells of the list.               *)
LEMMA InnerRanked ==
  ASSUME IInv
  PROVE  /\ Ranked(Inner, stamp)
         /\ Inner \subseteq Cells /\ Inner \subseteq linked /\ HEAD \notin Inner /\ TAIL \notin Inner
         /\ \A n \in Inner : data[n] \in Data
<1>1. /\ TypeOK /\ Stamped /\ linked \subseteq Entered /\ Entered \subseteq Cells
      /\ \A n \in Cells : stamp[n] \in Nat /\ stamp[n] <= stamp[HEAD]
  BY StampFacts DEF IInv, Shape
<1>2. Inner \subseteq linked /\ Inner \subseteq Cells /\ HEAD \notin Inner /\ TAIL \notin Inner
  BY <1>1 DEF Inner
<1>3. \A m, n \in Inner : m # n => stamp[m] # stamp[n]
  BY <1>1, <1>2 DEF Stamped
<1>4. IsFiniteSet(Inner)
  <2> DEFINE g == [n \in Inner |-> stamp[n]]
  <2>1. g \in [Inner -> 0..stamp[HEAD]] /\ \A m, n \in Inner : g[m] = g[n] => m = n
    BY <1>1, <1>2, <1>3
  <2>2. g \in Injection(Inner, 0..stamp[HEAD])
    BY <2>1, Fun_IsInj
  <2>3. IsFiniteSet(0..stamp[HEAD])
    BY <1>1, FS_Interval
  <2> HIDE DEF g
  <2>. QED BY <2>2, <2>3, FS_Injection
<1>. QED BY <1>1, <1>2, <1>3, <1>4 DEF Ranked, TypeOK

LEMMA ListKept ==
  ASSUME IInv, linked' = linked, stamp' = stamp, \A n \in linked : data'[n] = data[n]
  PROVE  AbstractList' = AbstractList
<1>1. Ranked(Inner, stamp) /\ Inner \subseteq linked
  BY InnerRanked
<1>2. Inner' = Inner
  BY DEF Inner
<1>3. Listing(Inner, stamp, data) = Listing(Inner, stamp', data')
  BY <1>1, ListingSame
<1>4. AbstractList' = Listing(Inner', stamp', data')
  BY DEF AbstractList, Listing, Member, At, Position, Rank, NotBelow
<1>. QED BY <1>2, <1>3, <1>4, AbstractListing

-----------------------------------------------------------------------------
(* What the client of a thread sees does not depend on the other threads.  *)
Pending(u) == IF pc[u] = "idle" \/ Freeing(u) THEN NULL ELSE program[u][called[u]]
Result(u)  == IF Freeing(u) THEN "ok" ELSE ret[u]
Got(u)     == IF pc[u] = "first_data" THEN data[node[u]] ELSE out[u]

LEMMA OthersView ==
  ASSUME IInv, WayInv', NEW t \in Threads, Step(t), NEW u \in Threads, u # t
  PROVE  Pending(u)' = Pending(u) /\ Result(u)' = Result(u) /\ Got(u)' = Got(u) /\ seen'[u] = seen[u]
<1>1. Same(u)
  BY Others DEF WayInv, OnTheWay, IInv
<1>2. ASSUME pc[u] = "first_data" PROVE data'[node[u]] = data[node[u]]
  <2>1. node[u] \in Entered /\ node[u] \in Cells /\ Freeing(u)
    BY <1>2, StampFacts DEF IInv, Shape, Knows, Freeing
  <2>2. CASE pc[t] = "insert_data"
    <3>1. node[t] \notin Entered
      BY <2>2 DEF IInv, Knows, Private, Inserting
    <3>. QED BY <2>1, <2>2, <3>1, OwnWrites
  <2>3. CASE pc[t] \in {"delete_free", "first_free"}
    <3>1. node[t] # node[u]
      BY <2>1, <2>3 DEF IInv, OneOwner, Freeing
    <3>. QED BY <2>1, <3>1, OwnWrites
  <2>. QED BY <2>1, <2>2, <2>3, OwnWrites
<1>. QED BY <1>1, <1>2, OwnWrites DEF Same, Pending, Result, Got, Freeing

(* A step after which every view and the list are the same is a stutter.   *)
LEMMA Stutters ==
  ASSUME IInv, WayInv', NEW t \in Threads, Step(t), AbstractList' = AbstractList,
         Pending(t)' = Pending(t), Result(t)' = Result(t), Got(t)' = Got(t), seen' = seen
  PROVE  UNCHANGED Abstract!vars
<1>1. \A u \in Threads : Pending(u)' = Pending(u) /\ Result(u)' = Result(u) /\ Got(u)' = Got(u)
  BY OthersView
<1>2. AbstractPending' = AbstractPending
  BY <1>1 DEF AbstractPending, Pending, Freeing
<1>3. AbstractResult' = AbstractResult
  BY <1>1 DEF AbstractResult, Result, Freeing
<1>4. AbstractGot' = AbstractGot
  BY <1>1 DEF AbstractGot, Got
<1>. QED BY <1>2, <1>3, <1>4 DEF Abstract!vars

LEMMA MoverView ==
  ASSUME IInv, WayInv', NEW t \in Threads, Step(t)
  PROVE  /\ AbstractPending[t] = Pending(t) /\ AbstractResult[t] = Result(t)
         /\ AbstractPending' = [AbstractPending EXCEPT ![t] = Pending(t)']
         /\ AbstractResult' = [AbstractResult EXCEPT ![t] = Result(t)']
         /\ AbstractGot' = [AbstractGot EXCEPT ![t] = Got(t)']
         /\ seen' = [seen EXCEPT ![t] = seen'[t]]
<1>1. \A u \in Threads \ {t} : /\ Pending(u)' = Pending(u) /\ Result(u)' = Result(u)
                               /\ Got(u)' = Got(u) /\ seen'[u] = seen[u]
  BY OthersView
<1>2. AbstractPending = [u \in Threads |-> Pending(u)]
      /\ AbstractPending' = [u \in Threads |-> Pending(u)']
  BY DEF AbstractPending, Pending
<1>3. AbstractResult = [u \in Threads |-> Result(u)]
      /\ AbstractResult' = [u \in Threads |-> Result(u)']
  BY DEF AbstractResult, Result
<1>4. AbstractGot = [u \in Threads |-> Got(u)] /\ AbstractGot' = [u \in Threads |-> Got(u)']
  BY DEF AbstractGot, Got
<1>5. seen \in [Threads -> SUBSET Cells] /\ seen' \in [Threads -> SUBSET Cells]
  <2>1. TypeOK'
    BY TypeStep DEF IInv, Next
  <2>. QED BY <2>1 DEF IInv, TypeOK
<1>6. seen' = [seen EXCEPT ![t] = seen'[t]]
  BY <1>1, <1>5
<1> HIDE DEF Pending, Result, Got
<1>. QED BY <1>1, <1>2, <1>3, <1>4, <1>6

(* The call t is in, and what of it the abstract list sees.                *)
LEMMA CallView ==
  ASSUME IInv, NEW t \in Threads, pc[t] \notin {"idle", "killed"}
  PROVE  /\ program[t][called[t]] \in Calls /\ program[t][called[t]] # NULL
         /\ program[t][called[t]].key = Key(t) /\ Key(t) \in Keys
         /\ ~Freeing(t) => Pending(t) = program[t][called[t]]
<1>1. program[t] \in Seq(Calls) /\ called[t] \in 1..Len(program[t])
  BY DEF IInv, TypeOK
<1>2. program[t][called[t]] \in Calls
  BY <1>1
<1>. QED BY <1>2, CallsAssumption, KeyType DEF Key, Pending, IInv

LEMMA ListElements ==
  ASSUME IInv
  PROVE  /\ AbstractList \in Seq(Element(Inner, Data)) /\ Len(AbstractList) = Cardinality(Inner)
         /\ \A n \in Inner : \E i \in 1..Len(AbstractList) :
              AbstractList[i] = [cell |-> n, key |-> data[n]]
         /\ \A i \in 1..Len(AbstractList) : \E n \in Inner :
              AbstractList[i] = [cell |-> n, key |-> data[n]]
<1> DEFINE l == Listing(Inner, stamp, data)
<1>1. Ranked(Inner, stamp) /\ \A n \in Inner : data[n] \in Data
  BY InnerRanked
<1>2. /\ l \in Seq(Element(Inner, Data)) /\ Len(l) = Cardinality(Inner)
      /\ \A n \in Inner : /\ Rank(Inner, stamp, n) \in 1..Cardinality(Inner)
                          /\ l[Rank(Inner, stamp, n)] = [cell |-> n, key |-> data[n]]
      /\ \A i \in 1..Cardinality(Inner) : \E n \in Inner : l[i] = [cell |-> n, key |-> data[n]]
  <2>1. ASSUME NEW d, d = data
        PROVE  /\ Listing(Inner, stamp, d) \in Seq(Element(Inner, Data))
               /\ Len(Listing(Inner, stamp, d)) = Cardinality(Inner)
               /\ \A n \in Inner :
                    /\ Rank(Inner, stamp, n) \in 1..Cardinality(Inner)
                    /\ Listing(Inner, stamp, d)[Rank(Inner, stamp, n)] = [cell |-> n, key |-> d[n]]
               /\ \A i \in 1..Cardinality(Inner) : \E n \in Inner :
                    Listing(Inner, stamp, d)[i] = [cell |-> n, key |-> d[n]]
    <3>1. \A n \in Inner : d[n] \in Data
      BY <1>1, <2>1
    <3> HIDE <2>1
    <3>. QED BY <1>1, <3>1, ListingFacts
  <2>. QED BY <2>1
<1>3. l = AbstractList
  BY AbstractListing
<1> HIDE DEF l
<1>. QED BY <1>2, <1>3

LEMMA CellsOfList == ASSUME IInv PROVE Abstract!CellsOf(AbstractList) = Inner
<1> DEFINE l == AbstractList
<1>1. /\ \A n \in Inner : \E i \in 1..Len(l) : l[i] = [cell |-> n, key |-> data[n]]
      /\ \A i \in 1..Len(l) : \E n \in Inner : l[i] = [cell |-> n, key |-> data[n]]
  BY ListElements
<1> HIDE DEF l
<1>2. {l[i].cell : i \in 1..Len(l)} = Inner
  <2>1. ASSUME NEW n \in Inner PROVE n \in {l[i].cell : i \in 1..Len(l)}
    <3>1. PICK i \in 1..Len(l) : l[i] = [cell |-> n, key |-> data[n]]
      BY <1>1
    <3>. QED BY <3>1
  <2>2. ASSUME NEW i \in 1..Len(l) PROVE l[i].cell \in Inner
    <3>1. PICK n \in Inner : l[i] = [cell |-> n, key |-> data[n]]
      BY <1>1
    <3>. QED BY <3>1
  <2>. QED BY <2>1, <2>2
<1>. QED BY <1>2 DEF Abstract!CellsOf, l

LEMMA CellsWithKey ==
  ASSUME IInv, NEW k
  PROVE  {AbstractList[i].cell : i \in {j \in 1..Len(AbstractList) : AbstractList[j].key = k}}
           = {n \in Inner : data[n] = k}
<1> DEFINE l == AbstractList
           with == {j \in 1..Len(l) : l[j].key = k}
<1>1. /\ \A n \in Inner : \E i \in 1..Len(l) : l[i] = [cell |-> n, key |-> data[n]]
      /\ \A i \in 1..Len(l) : \E n \in Inner : l[i] = [cell |-> n, key |-> data[n]]
  BY ListElements
<1> HIDE DEF l
<1>2. ASSUME NEW n \in Inner, data[n] = k PROVE n \in {l[i].cell : i \in with}
  <2>1. PICK i \in 1..Len(l) : l[i] = [cell |-> n, key |-> data[n]]
    BY <1>1
  <2>2. i \in with /\ l[i].cell = n
    BY <1>2, <2>1
  <2> HIDE DEF with
  <2>. QED BY <2>2
<1>3. ASSUME NEW i \in with PROVE l[i].cell \in {n \in Inner : data[n] = k}
  <2>1. PICK n \in Inner : l[i] = [cell |-> n, key |-> data[n]]
    BY <1>1
  <2>. QED BY <2>1
<1> HIDE DEF with
<1>4. {l[i].cell : i \in with} = {n \in Inner : data[n] = k}
  BY <1>2, <1>3
<1>. QED BY <1>4 DEF l, with

LEMMA CallInvokes ==
  ASSUME IInv, WayInv', NEW t \in Threads, Call(t)
  PROVE  \E op \in {"insert", "delete", "delete_first"}, key \in Keys : Abstract!Invoke(t, op, key)
<1> DEFINE c == program[t][called[t] + 1]
<1>0. TypeOK /\ Step(t)
  BY DEF IInv, Step
<1>1. /\ c \in Calls /\ c.op \in {"insert", "delete", "delete_first"} /\ c.key \in Keys
      /\ c = [op |-> c.op, key |-> c.key]
  BY <1>0, CallFacts DEF Call, Calls
<1>2. /\ pc[t] = "idle" /\ pc'[t] = c.op /\ program'[t][called'[t]] = c
      /\ ret' = ret /\ out' = out /\ linked' = linked /\ stamp' = stamp /\ data' = data
      /\ seen'[t] = IF c.op = "delete" THEN {n \in linked : data[n] = c.key} ELSE {}
  BY <1>0 DEF Call, Goto, memory, TypeOK
<1>3. Pending(t) = NULL /\ Pending(t)' = c
  BY <1>1, <1>2 DEF Pending, Freeing
<1>4. Result(t)' = Result(t) /\ Got(t)' = Got(t)
  BY <1>1, <1>2 DEF Result, Got, Freeing
<1>5. AbstractList' = AbstractList
  BY <1>2, ListKept
<1>6. seen'[t] = IF c.op = "delete"
                 THEN {AbstractList[i].cell : i \in {j \in 1..Len(AbstractList) :
                                                       AbstractList[j].key = c.key}}
                 ELSE {}
  <2>2. {AbstractList[i].cell : i \in {j \in 1..Len(AbstractList) : AbstractList[j].key = c.key}}
          = {n \in Inner : data[n] = c.key}
    BY CellsWithKey
  <2>3. data[HEAD] # c.key /\ data[TAIL] # c.key
    BY <1>1 DEF IInv, Shape, Allocated
  <2>4. {n \in Inner : data[n] = c.key} = {n \in linked : data[n] = c.key}
    BY <2>3 DEF Inner
  <2>. QED BY <1>2, <2>2, <2>4
<1>7. UNCHANGED <<AbstractList, AbstractResult, AbstractGot>>
  <2>1. AbstractResult' = AbstractResult
    BY <1>0, <1>4, MoverView, OthersView DEF AbstractResult, Result
  <2>2. AbstractGot' = AbstractGot
    BY <1>0, <1>4, OthersView DEF AbstractGot, Got
  <2>. QED BY <1>5, <2>1, <2>2
<1>8. Abstract!Invoke(t, c.op, c.key)
  BY <1>0, <1>1, <1>3, <1>6, <1>7, MoverView DEF Abstract!Invoke
<1>. QED BY <1>1, <1>8

(* A call that returns -1 has failed, and was right to.                    *)
LEMMA CallFails ==
  ASSUME IInv, WayInv', NEW t \in Threads, Step(t),
         pc[t] \notin {"idle", "killed"}, ~Freeing(t), pc'[t] = "idle", ret'[t] = "fail",
         linked' = linked, stamp' = stamp, data' = data, out' = out, seen' = seen,
         program[t][called[t]].op \in {"insert", "delete"},
         program[t][called[t]].op = "delete" => seen[t] \cap linked = {}
  PROVE  Abstract!Fail(t)
<1> DEFINE c == program[t][called[t]]
<1>1. AbstractPending[t] = c /\ c # NULL
  BY CallView, MoverView
<1>2. Pending(t)' = NULL /\ Result(t)' = "fail" /\ Got(t)' = Got(t)
  <2>1. pc[t] # "first_data"
    BY DEF Freeing
  <2>. QED BY <2>1 DEF Pending, Result, Got, Freeing
<1>3. AbstractList' = AbstractList /\ Abstract!CellsOf(AbstractList) \subseteq linked
  BY ListKept, CellsOfList, InnerRanked
<1>4. AbstractGot' = AbstractGot
  BY <1>2, OthersView DEF AbstractGot, Got
<1>5. /\ AbstractPending' = [AbstractPending EXCEPT ![t] = NULL]
      /\ AbstractResult' = [AbstractResult EXCEPT ![t] = "fail"]
  BY <1>2, MoverView
<1>6. CASE c.op = "insert"
  BY <1>1, <1>3, <1>4, <1>5, <1>6 DEF Abstract!Fail
<1>7. CASE c.op = "delete"
  <2>1. seen[t] \cap Abstract!CellsOf(AbstractList) = {}
    BY <1>3, <1>7
  <2>. QED BY <1>1, <1>3, <1>4, <1>5, <1>7, <2>1 DEF Abstract!Fail
<1>. QED BY <1>6, <1>7

(* A call that goes on is a stutter.                                       *)
LEMMA CallGoesOn ==
  ASSUME IInv, WayInv', NEW t \in Threads, Step(t),
         pc[t] \notin {"idle", "killed"}, pc'[t] \notin {"idle", "killed"},
         ~Freeing(t), ~Freeing(t)', linked' = linked, stamp' = stamp, ret' = ret, out' = out,
         seen' = seen, program' = program, called' = called
  PROVE  UNCHANGED Abstract!vars
<1>1. \A n \in linked : data'[n] = data[n]
  BY ListedData
<1>2. AbstractList' = AbstractList
  BY <1>1, ListKept
<1>3. Pending(t)' = Pending(t) /\ Result(t)' = Result(t) /\ Got(t)' = Got(t)
  BY DEF Pending, Result, Got, Freeing
<1>. QED BY <1>2, <1>3, Stutters

(* So is what a deletion does after its CAS.                               *)
LEMMA ReturnStutters ==
  ASSUME IInv, WayInv', NEW t \in Threads, DeleteFree(t) \/ FirstData(t) \/ FirstFree(t)
  PROVE  UNCHANGED Abstract!vars
<1>. USE DEF DeleteFree, FirstData, FirstFree, Free, Goto, Return, memory, locals, ghosts
<1>1. Step(t)
  BY DEF Step, Delete, DeleteFirst
<1>2. /\ TypeOK /\ linked' = linked /\ stamp' = stamp /\ seen' = seen
  BY DEF IInv
<1>3. \A n \in linked : data'[n] = data[n]
  BY <1>1, <1>2, ListedData
<1>4. AbstractList' = AbstractList
  BY <1>2, <1>3, ListKept
<1>5. Pending(t)' = Pending(t) /\ Result(t)' = Result(t)
  BY <1>2 DEF Pending, Result, Freeing, TypeOK
<1>6. Got(t)' = Got(t)
  BY <1>2 DEF Got, TypeOK
<1>. QED BY <1>1, <1>2, <1>4, <1>5, <1>6, Stutters

(* The CAS that publishes a cell puts it in front.                         *)
LEMMA InsertTakesEffect ==
  ASSUME IInv, CallInv, WayInv', NEW t \in Threads, InsertCas(t),
         linked' = linked \cup {node[t]},
         stamp' = [stamp EXCEPT ![node[t]] = stamp[HEAD], ![HEAD] = stamp[HEAD] + 1],
         Return(t, "ok")
  PROVE  \E n \in Cells : Abstract!Insert(t, n)
<1> DEFINE n == node[t]
           c == program[t][called[t]]
<1>0. Step(t) /\ TypeOK /\ pc[t] = "insert_cas" /\ Inserting(t)
  BY DEF Step, Insert, IInv, InsertCas, Inserting
<1>1. n \in Cells \ Entered /\ data[n] = Key(t)
  BY <1>0 DEF IInv, Knows, Private
<1>2. /\ stamp'[n] = stamp[HEAD] /\ \A m \in Cells \ {n, HEAD} : stamp'[m] = stamp[m]
      /\ n # HEAD /\ n # TAIL
  BY <1>1, PublishStamps
<1>3. /\ Ranked(Inner, stamp) /\ Inner \subseteq Cells /\ Inner \subseteq linked
      /\ HEAD \notin Inner /\ linked \subseteq Entered
      /\ \A m \in Inner : stamp[m] < stamp[HEAD]
      /\ stamp[HEAD] \in Nat
  <2>1. Inner \subseteq Cells /\ HEAD \notin Inner /\ Ranked(Inner, stamp) /\ Inner \subseteq linked
    BY InnerRanked
  <2>. QED BY <2>1, StampFacts DEF IInv, Shape
<1>4. Inner' = Inner \cup {n} /\ n \notin Inner
  BY <1>1, <1>2, <1>3 DEF Inner
<1>5. data' = data /\ out' = out /\ seen' = seen
  BY DEF InsertCas
<1>6. AbstractList' = <<[cell |-> n, key |-> data[n]]>> \o AbstractList
  <2>1. \A m \in Inner : stamp'[m] = stamp[m] /\ stamp[m] < stamp'[n]
    BY <1>1, <1>2, <1>3
  <2>2. Listing(Inner \cup {n}, stamp', data')
          = InFront([cell |-> n, key |-> data'[n]], Listing(Inner, stamp, data))
    <3> DEFINE S == Inner
               f == stamp
               g == stamp'
               e == data'
    <3>1. /\ Ranked(S, f) /\ n \notin S /\ g[n] \in Nat
          /\ \A m \in S : g[m] = f[m] /\ f[m] < g[n]
          /\ \A m \in S : data[m] = e[m]
      <4>1. Ranked(S, f) /\ n \notin S
        BY <1>3, <1>4
      <4>2. g[n] \in Nat
        BY <1>2, <1>3
      <4>. QED BY <1>5, <2>1, <4>1, <4>2
    <3> HIDE DEF n, S, f, g, e
    <3>2. Listing(S \cup {n}, g, e) = InFront([cell |-> n, key |-> e[n]], Listing(S, f, data))
      BY <3>1, ListingAdd
    <3>. QED BY <3>2 DEF S, f, g, e
  <2>3. AbstractList' = Listing(Inner', stamp', data')
    BY DEF AbstractList, Listing, Member, At, Position, Rank, NotBelow
  <2>. QED BY <1>4, <1>5, <2>2, <2>3, AbstractListing DEF InFront
<1>7. /\ AbstractPending[t] = c /\ c # NULL /\ c.key = Key(t) /\ c.op = "insert"
  <2>1. c.op = "insert"
    BY <1>0 DEF CallInv, CallMatches
  <2>. QED BY <1>0, <2>1, CallView, MoverView DEF Freeing
<1>8. pc'[t] = "idle" /\ ret'[t] = "ok"
  BY <1>0 DEF Return, Goto, TypeOK
<1>9. /\ AbstractPending' = [AbstractPending EXCEPT ![t] = NULL]
      /\ AbstractResult' = [AbstractResult EXCEPT ![t] = "ok"]
      /\ AbstractGot' = AbstractGot
  <2>1. Pending(t)' = NULL /\ Result(t)' = "ok" /\ Got(t)' = Got(t)
    BY <1>0, <1>5, <1>8 DEF Pending, Result, Got, Freeing
  <2>2. AbstractGot' = AbstractGot
    BY <1>0, <2>1, OthersView DEF AbstractGot, Got
  <2>. QED BY <1>0, <2>1, <2>2, MoverView
<1>10. n \notin Abstract!CellsOf(AbstractList)
  BY <1>4, CellsOfList
<1>11. Abstract!Insert(t, n)
  <2> HIDE DEF n, c
  <2>. QED BY <1>1, <1>5, <1>6, <1>7, <1>9, <1>10 DEF Abstract!Insert, Abstract!Effect
<1>. QED BY <1>1, <1>11

(* The CAS that unlinks a cell takes it out of the place it has by rank.   *)
LEMMA UnlinkRemoves ==
  ASSUME IInv, NEW n \in linked \ {HEAD, TAIL}, linked' = linked \ {n},
         stamp' = stamp, data' = data, NEW k, k = Rank(Inner, stamp, n)
  PROVE  /\ k \in 1..Len(AbstractList) /\ AbstractList[k] = [cell |-> n, key |-> data[n]]
         /\ AbstractList' = Abstract!RemoveAt(AbstractList, k)
         /\ k = 1 => AbstractList' = Tail(AbstractList)
<1>1. Ranked(Inner, stamp) /\ n \in Inner /\ \A m \in Inner : data[m] \in Data
  BY InnerRanked DEF Inner
<1>2. /\ k \in 1..Cardinality(Inner)
      /\ Listing(Inner, stamp, data)[k] = [cell |-> n, key |-> data[n]]
  BY <1>1, ListingFacts
<1>3. AbstractList \in Seq(Element(Inner, Data)) /\ Len(AbstractList) = Cardinality(Inner)
  BY ListElements
<1>4. Inner' = Inner \ {n}
  BY DEF Inner
<1>5. AbstractList' = Listing(Inner', stamp', data')
  BY DEF AbstractList, Listing, Member, At, Position, Rank, NotBelow
<1>6. Listing(Inner \ {n}, stamp, data) = Abstract!RemoveAt(Listing(Inner, stamp, data), k)
  BY <1>1, ListingRemove
<1>7. AbstractList' = Abstract!RemoveAt(AbstractList, k)
  BY <1>4, <1>5, <1>6, AbstractListing
<1>8. k = 1 => Abstract!RemoveAt(AbstractList, k) = Tail(AbstractList)
  BY <1>2, <1>3, Removed
<1>. QED BY <1>2, <1>3, <1>7, <1>8, AbstractListing

(* What the CAS of a deletion is to the client of t.                       *)
LEMMA UnlinkView ==
  ASSUME IInv, WayInv', NEW t \in Threads, Step(t), Holding(t), Freeing(t)'
  PROVE  /\ AbstractPending[t] = program[t][called[t]] /\ AbstractPending[t] # NULL
         /\ AbstractPending[t].key = Key(t)
         /\ AbstractPending' = [AbstractPending EXCEPT ![t] = NULL]
         /\ AbstractResult' = [AbstractResult EXCEPT ![t] = "ok"]
<1>1. pc[t] \notin {"idle", "killed"} /\ ~Freeing(t)
  BY DEF Holding, Freeing
<1>2. Pending(t)' = NULL /\ Result(t)' = "ok"
  BY DEF Pending, Result
<1>. QED BY <1>1, <1>2, CallView, MoverView

LEMMA DeleteTakesEffect ==
  ASSUME IInv, CallInv, WayInv', TAIL \in linked', NEW t \in Threads, DeleteUnlink(t),
         linked' = linked \ {node[t]}, Goto(t, "delete_free")
  PROVE  \E i \in 1..Len(AbstractList) : Abstract!Delete(t, i)
<1> DEFINE n == node[t]
           k == Rank(Inner, stamp, n)
<1>0. /\ TypeOK /\ Step(t) /\ pc[t] = "delete_unlink" /\ pc'[t] = "delete_free"
      /\ Holding(t) /\ Freeing(t)' /\ stamp' = stamp /\ data' = data /\ out' = out /\ seen' = seen
  BY DEF DeleteUnlink, Unlink, Step, Delete, IInv, TypeOK, Goto, Holding, Freeing
<1>1. n \in linked \ {HEAD, TAIL} /\ data[n] = Key(t)
  BY <1>0 DEF IInv, Knows, CallInv, Found
<1>2. /\ k \in 1..Len(AbstractList) /\ AbstractList[k] = [cell |-> n, key |-> data[n]]
      /\ AbstractList' = Abstract!RemoveAt(AbstractList, k)
  <2> HIDE DEF n
  <2>. QED BY <1>0, <1>1, UnlinkRemoves DEF n
<1>3. /\ AbstractPending[t] = program[t][called[t]] /\ AbstractPending[t] # NULL
      /\ AbstractPending[t].key = Key(t)
      /\ AbstractPending' = [AbstractPending EXCEPT ![t] = NULL]
      /\ AbstractResult' = [AbstractResult EXCEPT ![t] = "ok"]
  BY <1>0, UnlinkView
<1>4. program[t][called[t]].op = "delete"
  BY <1>0 DEF CallInv, CallMatches, Deleting, Seeking
<1>5. AbstractGot' = AbstractGot
  <2>1. Got(t)' = Got(t)
    BY <1>0 DEF Got
  <2>. QED BY <1>0, <2>1, OthersView DEF AbstractGot, Got
<1>6. Abstract!Delete(t, k)
  <2> HIDE DEF n, k
  <2>. QED BY <1>0, <1>1, <1>2, <1>3, <1>4, <1>5 DEF Abstract!Delete, Abstract!Effect
<1>. QED BY <1>2, <1>6

(* delete_first unlinks the cell head leads to, which is the youngest.     *)
LEMMA FirstTakesEffect ==
  ASSUME IInv, CallInv, WayInv', TAIL \in linked', NEW t \in Threads, FirstUnlink(t),
         next[left[t]] = Ptr(node[t]), linked' = linked \ {node[t]}, Goto(t, "first_data")
  PROVE  Abstract!DeleteFirst(t)
<1> DEFINE n == node[t]
           k == Rank(Inner, stamp, n)
<1>0. /\ TypeOK /\ Step(t) /\ pc[t] = "first_unlink" /\ pc'[t] = "first_data" /\ node' = node
      /\ Holding(t) /\ Freeing(t)' /\ stamp' = stamp /\ data' = data /\ out' = out /\ seen' = seen
  BY DEF FirstUnlink, Unlink, Step, DeleteFirst, IInv, TypeOK, Goto, Holding, Freeing, locals
<1>1. n \in linked \ {HEAD, TAIL} /\ left[t] = HEAD
  BY <1>0 DEF IInv, Knows, CallInv, FirstAtHead
<1>2. k = 1
  <2>1. n \in Inner /\ Ranked(Inner, stamp) /\ Inner \subseteq linked \ {HEAD}
    BY <1>1, InnerRanked DEF Inner
  <2>2. /\ HEAD \in Entered /\ n \in Entered /\ Age(n) = stamp[n] /\ linked \subseteq Cells
        /\ \A m \in linked \ {HEAD} : stamp[m] < stamp[HEAD]
    BY <1>0, <1>1, StampFacts DEF IInv, Shape
  <2>3. next[HEAD].ref = n
    BY <1>1, <2>2, PtrType
  <2>4. \A m \in Inner : stamp[m] <= stamp[n]
    BY <2>1, <2>2, <2>3 DEF IInv, Shape, Ordered
  <2>5. NotBelow(Inner, stamp, n) = {n}
    BY <2>1, <2>4 DEF Ranked, NotBelow
  <2>. QED BY <2>5, FS_Singleton DEF Rank
<1>3. /\ 1 \in 1..Len(AbstractList) /\ AbstractList[1] = [cell |-> n, key |-> data[n]]
      /\ AbstractList' = Tail(AbstractList) /\ AbstractList # <<>>
  <2>1. /\ k \in 1..Len(AbstractList) /\ AbstractList[k] = [cell |-> n, key |-> data[n]]
        /\ k = 1 => AbstractList' = Tail(AbstractList)
    <3> HIDE DEF n
    <3>. QED BY <1>0, <1>1, UnlinkRemoves DEF n
  <2>2. AbstractList # <<>>
    BY <1>2, <2>1
  <2>. QED BY <1>2, <2>1, <2>2
<1>4. /\ AbstractPending[t] = program[t][called[t]] /\ AbstractPending[t] # NULL
      /\ AbstractPending' = [AbstractPending EXCEPT ![t] = NULL]
      /\ AbstractResult' = [AbstractResult EXCEPT ![t] = "ok"]
  BY <1>0, UnlinkView
<1>5. program[t][called[t]].op = "delete_first"
  BY <1>0 DEF CallInv, CallMatches, TakingFirst
<1>6. AbstractGot' = [AbstractGot EXCEPT ![t] = Head(AbstractList).key]
  <2>1. Got(t)' = data[n]
    BY <1>0 DEF Got
  <2>2. Head(AbstractList).key = data[n]
    BY <1>3
  <2>. QED BY <1>0, <2>1, <2>2, MoverView
<1> HIDE DEF n, k
<1>. QED BY <1>0, <1>3, <1>4, <1>5, <1>6 DEF Abstract!DeleteFirst, Abstract!Effect

(* Every step of the list is a step of the abstract list or a stutter.     *)
LEMMA InsertRefines ==
  ASSUME Reuse = FALSE, IInv, CallInv, WayInv', NEW t \in Threads, Insert(t)
  PROVE  [Abstract!Next]_(Abstract!vars)
<1>. USE DEF Goto, Return, memory, locals, ghosts
<1>0. Step(t) /\ TypeOK
  BY DEF Step, IInv
<1>1. CASE InsertNoMemory(t)
  <2>1. program[t][called[t]].op = "insert"
    BY <1>1 DEF InsertNoMemory, CallInv, CallMatches
  <2>2. /\ pc[t] = "insert" /\ pc'[t] = "idle" /\ ret'[t] = "fail"
        /\ linked' = linked /\ stamp' = stamp /\ data' = data /\ out' = out /\ seen' = seen
    BY <1>0, <1>1 DEF InsertNoMemory, TypeOK
  <2>3. Abstract!Fail(t)
    BY <1>0, <2>1, <2>2, CallFails DEF Freeing
  <2>. QED BY <2>3 DEF Abstract!Next
<1>2. CASE InsertCas(t)
  <2>1. CASE Return(t, "ok") /\ linked' = linked \cup {node[t]}
             /\ stamp' = [stamp EXCEPT ![node[t]] = stamp[HEAD], ![HEAD] = stamp[HEAD] + 1]
    <3>1. \E n \in Cells : Abstract!Insert(t, n)
      BY <1>2, <2>1, InsertTakesEffect
    <3>. QED BY <3>1 DEF Abstract!Next
  <2>2. CASE Goto(t, "insert_read") /\ UNCHANGED <<ret, linked, stamp>>
    <3>1. /\ pc[t] = "insert_cas" /\ pc'[t] = "insert_read" /\ linked' = linked /\ stamp' = stamp
          /\ ret' = ret /\ out' = out /\ seen' = seen /\ program' = program /\ called' = called
      BY <1>0, <1>2, <2>2 DEF InsertCas, TypeOK
    <3>. QED BY <1>0, <3>1, CallGoesOn DEF Freeing
  <2>. QED BY <1>2, <2>1, <2>2 DEF InsertCas
<1>3. CASE InsertAlloc(t) \/ InsertRead(t) \/ InsertSetNext(t) \/ InsertSetData(t)
  <2>1. /\ pc[t] \notin {"idle", "killed"} /\ pc'[t] \notin {"idle", "killed"}
        /\ ~Freeing(t) /\ ~Freeing(t)' /\ linked' = linked /\ stamp' = stamp /\ ret' = ret
        /\ out' = out /\ seen' = seen /\ program' = program /\ called' = called
    BY <1>0, <1>3 DEF InsertAlloc, InsertRead, InsertSetNext, InsertSetData, TypeOK, Freeing
  <2>. QED BY <1>0, <2>1, CallGoesOn
<1>. QED BY <1>1, <1>2, <1>3 DEF Insert

(* A search moves on, or meets the tail sentinel and the delete fails.     *)
LEMMA VisitRefines ==
  ASSUME Reuse = FALSE, IInv, CallInv, WayInv', NEW t \in Threads,
         SearchStart(t) \/ SearchAdvance(t)
  PROVE  [Abstract!Next]_(Abstract!vars)
<1>. USE DEF Goto, Return, memory, locals, ghosts
<1>0. /\ Step(t) /\ TypeOK /\ pc[t] \in {"delete", "advance"} /\ ~Freeing(t)
      /\ linked' = linked /\ stamp' = stamp /\ data' = data /\ out' = out /\ seen' = seen
      /\ program' = program /\ called' = called
  BY DEF Step, Delete, Search, IInv, SearchStart, SearchAdvance, Freeing
<1>1. CASE pc'[t] = "idle" /\ ret'[t] = "fail"
  <2>1. program[t][called[t]].op = "delete"
    BY <1>0 DEF CallInv, CallMatches, Deleting, Seeking
  <2>2. IInv'
    BY <1>0, InvStep DEF Next
  <2>3. seen'[t] \cap linked' = {}
    BY <1>1, <2>2 DEF IInv, Ahead, Sought
  <2>4. Abstract!Fail(t)
    BY <1>0, <1>1, <2>1, <2>3, CallFails
  <2>. QED BY <2>4 DEF Abstract!Next
<1>2. CASE pc'[t] = "compare" /\ ret' = ret
  BY <1>0, <1>2, CallGoesOn DEF Freeing
<1>. QED BY <1>0, <1>1, <1>2 DEF SearchStart, SearchAdvance, Visit, TypeOK

LEMMA DeleteRefines ==
  ASSUME Reuse = FALSE, IInv, CallInv, WayInv, WayInv', TAIL \in linked',
         NEW t \in Threads, Delete(t)
  PROVE  [Abstract!Next]_(Abstract!vars)
<1>. USE DEF Goto, Return, memory, locals, ghosts
<1>0. Step(t) /\ TypeOK
  BY DEF Step, IInv
<1>1. CASE SearchStart(t) \/ SearchAdvance(t)
  BY <1>1, VisitRefines
<1>2. CASE \/ SearchCompare(t) \/ SearchCheckLeft(t) \/ SearchCheckNode(t)
           \/ SearchCheckAdjacent(t) \/ DeleteReadNext(t) \/ DeleteMark(t) \/ DeleteUnmark(t)
  <2>1. pc[t] = "compare" => node[t] # NULL
    BY DEF WayInv, OnTheWay
  <2>2. /\ pc[t] \notin {"idle", "killed"} /\ pc'[t] \notin {"idle", "killed"}
        /\ ~Freeing(t) /\ ~Freeing(t)' /\ linked' = linked /\ stamp' = stamp /\ ret' = ret
        /\ out' = out /\ seen' = seen /\ program' = program /\ called' = called
    <3>1. CASE SearchCompare(t)
      BY <1>0, <2>1, <3>1 DEF SearchCompare, TypeOK, Freeing
    <3>2. CASE SearchCheckLeft(t) \/ SearchCheckNode(t) \/ SearchCheckAdjacent(t)
      BY <1>0, <3>2 DEF SearchCheckLeft, SearchCheckNode, SearchCheckAdjacent, Check,
           TypeOK, Freeing
    <3>3. CASE DeleteReadNext(t) \/ DeleteMark(t) \/ DeleteUnmark(t)
      BY <1>0, <3>3 DEF DeleteReadNext, ReadNext, DeleteMark, Mark, DeleteUnmark, Unmark,
           TypeOK, Freeing
    <3>. QED BY <1>2, <3>1, <3>2, <3>3
  <2>. QED BY <1>0, <2>2, CallGoesOn
<1>3. CASE DeleteUnlink(t)
  <2>1. CASE linked' = linked \ {node[t]} /\ Goto(t, "delete_free")
    <3>1. \E i \in 1..Len(AbstractList) : Abstract!Delete(t, i)
      BY <1>3, <2>1, DeleteTakesEffect
    <3>. QED BY <3>1 DEF Abstract!Next
  <2>2. CASE linked' = linked /\ Goto(t, "delete_unmark")
    <3>1. /\ pc[t] = "delete_unlink" /\ pc'[t] = "delete_unmark" /\ stamp' = stamp
          /\ ret' = ret /\ out' = out /\ seen' = seen /\ program' = program /\ called' = called
      BY <1>0, <1>3, <2>2 DEF DeleteUnlink, Unlink, TypeOK
    <3>. QED BY <1>0, <2>2, <3>1, CallGoesOn DEF Freeing
  <2>. QED BY <1>3, <2>1, <2>2 DEF DeleteUnlink, Unlink
<1>4. CASE DeleteFree(t)
  BY <1>4, ReturnStutters
<1>. QED BY <1>1, <1>2, <1>3, <1>4 DEF Delete, Search

LEMMA FirstRefines ==
  ASSUME IInv, CallInv, WayInv', TAIL \in linked, TAIL \in linked',
         NEW t \in Threads, DeleteFirst(t)
  PROVE  [Abstract!Next]_(Abstract!vars)
<1>. USE DEF Goto, Return, memory, locals, ghosts
<1>0. Step(t) /\ TypeOK
  BY DEF Step, IInv
<1>1. CASE FirstRead(t) \/ FirstReadNext(t) \/ FirstMark(t) \/ FirstUnmark(t)
  <2>1. next[HEAD].ref # NULL
    BY BeforeTail, StampFacts DEF IInv, Shape
  <2>2. /\ pc[t] \notin {"idle", "killed"} /\ pc'[t] \notin {"idle", "killed"}
        /\ ~Freeing(t) /\ ~Freeing(t)' /\ linked' = linked /\ stamp' = stamp /\ ret' = ret
        /\ out' = out /\ seen' = seen /\ program' = program /\ called' = called
    <3>1. CASE FirstRead(t)
      BY <1>0, <2>1, <3>1 DEF FirstRead, TypeOK, Freeing
    <3>2. CASE FirstReadNext(t) \/ FirstMark(t) \/ FirstUnmark(t)
      BY <1>0, <3>2 DEF FirstReadNext, ReadNext, FirstMark, Mark, FirstUnmark, Unmark,
           TypeOK, Freeing
    <3>. QED BY <1>1, <3>1, <3>2
  <2>. QED BY <1>0, <2>2, CallGoesOn
<1>2. CASE FirstUnlink(t)
  <2>1. CASE /\ next[left[t]] = Ptr(node[t]) /\ linked' = linked \ {node[t]}
             /\ Goto(t, "first_data")
    <3>1. Abstract!DeleteFirst(t)
      BY <1>2, <2>1, FirstTakesEffect
    <3>. QED BY <3>1 DEF Abstract!Next
  <2>2. CASE linked' = linked /\ Goto(t, "first_unmark")
    <3>1. /\ pc[t] = "first_unlink" /\ pc'[t] = "first_unmark" /\ stamp' = stamp
          /\ ret' = ret /\ out' = out /\ seen' = seen /\ program' = program /\ called' = called
      BY <1>0, <1>2, <2>2 DEF FirstUnlink, Unlink, TypeOK
    <3>. QED BY <1>0, <2>2, <3>1, CallGoesOn DEF Freeing
  <2>. QED BY <1>2, <2>1, <2>2 DEF FirstUnlink, Unlink, CasSucceeds
<1>3. CASE FirstData(t) \/ FirstFree(t)
  BY <1>3, ReturnStutters
<1>. QED BY <1>1, <1>2, <1>3 DEF DeleteFirst

LEMMA RefineInit == Init => Abstract!Init
<1>. SUFFICES ASSUME Init PROVE Abstract!Init
  OBVIOUS
<1>1. AbstractList = <<>>
  <2>1. Inner = {}
    BY DEF Init, Inner
  <2>2. Cardinality(Inner) = 0
    BY <2>1, FS_EmptySet
  <2>. QED BY <2>2 DEF AbstractList
<1>2. /\ AbstractPending = [t \in Threads |-> NULL] /\ AbstractResult = [t \in Threads |-> "none"]
      /\ seen = [t \in Threads |-> {}]
  BY DEF Init, AbstractPending, AbstractResult, Freeing
<1>3. AbstractGot \in [Threads -> Data]
  BY DEF Init, AbstractGot, Data
<1>. QED BY <1>1, <1>2, <1>3 DEF Abstract!Init

LEMMA RefineStep ==
  ASSUME Reuse = FALSE, IInv, CallInv, WayInv, TAIL \in linked, TAIL \in linked', [Next]_vars
  PROVE  [Abstract!Next]_(Abstract!vars)
<1>1. CASE UNCHANGED vars
  <2>1. AbstractList' = AbstractList
    BY <1>1, ListKept DEF vars
  <2>2. AbstractPending' = AbstractPending /\ AbstractResult' = AbstractResult
        /\ AbstractGot' = AbstractGot /\ seen' = seen
    BY <1>1 DEF vars, AbstractPending, AbstractResult, AbstractGot, Freeing
  <2>. QED BY <2>1, <2>2 DEF Abstract!vars
<1>2. ASSUME NEW t \in Threads, Step(t) PROVE [Abstract!Next]_(Abstract!vars)
  <2>1. WayInv'
    BY <1>2, WayInvStep
  <2>2. CASE Call(t)
    <3>1. \E op \in {"insert", "delete", "delete_first"}, key \in Keys : Abstract!Invoke(t, op, key)
      BY <2>1, <2>2, CallInvokes
    <3>. QED BY <3>1 DEF Abstract!Next
  <2>. QED BY <1>2, <2>1, <2>2, InsertRefines, DeleteRefines, FirstRefines DEF Step
<1>. QED BY <1>1, <1>2 DEF Next, Ended

-----------------------------------------------------------------------------
(* The tail sentinel only ever leaves the list at a CAS of delete_first.   *)
LEMMA TailLeaves ==
  ASSUME IInv, CallInv, WayInv, TAIL \in linked, NEW t \in Threads, Step(t), TAIL \notin linked'
  PROVE  pc[t] = "first_unlink" /\ next[HEAD].ref = TAIL
<1>. USE DEF ghosts
<1>1. CASE Call(t) \/ Insert(t)
  BY <1>1 DEF Call, Insert, InsertAlloc, InsertNoMemory, InsertRead, InsertSetNext, InsertSetData,
       InsertCas
<1>2. CASE Delete(t)
  <2>1. CASE DeleteUnlink(t)
    <3>1. node[t] # TAIL
      BY <2>1 DEF DeleteUnlink, Unlink, WayInv, OnTheWay
    <3>. QED BY <2>1, <3>1 DEF DeleteUnlink, Unlink
  <2>2. CASE ~DeleteUnlink(t)
    BY <1>2, <2>2 DEF Delete, Search, SearchStart, SearchCompare, SearchAdvance, SearchCheckLeft,
         SearchCheckNode, SearchCheckAdjacent, Check, DeleteReadNext, ReadNext, DeleteMark, Mark,
         DeleteUnmark, Unmark, DeleteFree, Free
  <2>. QED BY <2>1, <2>2
<1>3. CASE DeleteFirst(t)
  <2>1. CASE FirstUnlink(t)
    <3>1. node[t] = TAIL /\ next[left[t]] = Ptr(TAIL) /\ pc[t] = "first_unlink"
      BY <2>1 DEF FirstUnlink, Unlink, CasSucceeds
    <3>2. left[t] = HEAD
      BY <3>1 DEF CallInv, FirstAtHead
    <3>. QED BY <3>1, <3>2, PtrType
  <2>2. CASE ~FirstUnlink(t)
    BY <1>3, <2>2 DEF DeleteFirst, FirstRead, FirstReadNext, ReadNext, FirstMark, Mark,
         FirstUnmark, Unmark, FirstData, FirstFree, Free
  <2>. QED BY <2>1, <2>2
<1>. QED BY <1>1, <1>2, <1>3 DEF Step

(* Nothing brings it back.                                                 *)
LEMMA TailStaysOut ==
  ASSUME IInv, [Next]_vars, TAIL \in linked' PROVE TAIL \in linked
<1>1. TAIL \in Entered
  BY StampFacts DEF IInv, Shape
<1>. QED BY <1>1, ListedData DEF Next, Ended, vars

(* CallInv is an invariant, and WayInv as long as the sentinel is there.   *)
LEMMA WalksEnd ==
  ASSUME Reuse = FALSE
  PROVE  Spec => [](IInv /\ CallInv /\ (TAIL \in linked => WayInv))
<1>1. Init => IInv /\ CallInv /\ WayInv
  BY InvInit, CallInvInit, WayInvInit
<1>2. IInv /\ CallInv /\ (TAIL \in linked => WayInv) /\ [Next]_vars
        => (IInv /\ CallInv /\ (TAIL \in linked => WayInv))'
  <2>. SUFFICES ASSUME IInv, CallInv, TAIL \in linked => WayInv, [Next]_vars
       PROVE  IInv' /\ CallInv' /\ (TAIL \in linked' => WayInv')
    OBVIOUS
  <2>1. CASE UNCHANGED vars
    BY <2>1, InvStep DEF vars, CallInv, CallMatches, FirstAtHead, Found, Deleting, Seeking,
         TakingFirst, Inserting, Key, WayInv, OnTheWay
  <2>2. ASSUME NEW t \in Threads, Step(t)
        PROVE  IInv' /\ CallInv' /\ (TAIL \in linked' => WayInv')
    BY <2>2, InvStep, CallInvStep, WayInvStep, TailStaysOut
  <2>. QED BY <2>1, <2>2 DEF Next, Ended
<1>. QED BY <1>1, <1>2, PTL DEF Spec

LEMMA HeadMeetsTail ==
  ASSUME IInv, TAIL \in linked, next[HEAD].ref = TAIL
  PROVE  linked = {HEAD, TAIL}
<1>1. /\ HEAD \in linked /\ HEAD \in Entered /\ TAIL \in Entered /\ linked \subseteq Cells
      /\ stamp[TAIL] = 1 /\ Age(TAIL) = stamp[TAIL]
      /\ \A n \in linked : stamp[n] \in Nat /\ stamp[n] > 0
      /\ \A n \in linked \ {HEAD} : stamp[n] < stamp[HEAD]
      /\ \A m, n \in Entered : m # n => stamp[m] # stamp[n]
      /\ linked \subseteq Entered
  BY StampFacts DEF IInv, Shape, Stamped
<1>2. ASSUME NEW n \in linked \ {HEAD} PROVE n = TAIL
  <2>1. stamp[n] <= 1
    BY <1>1 DEF IInv, Shape, Ordered
  <2>2. stamp[n] = stamp[TAIL]
    BY <1>1, <2>1
  <2>. QED BY <1>1, <2>2
<1>. QED BY <1>1, <1>2

(* A delete_first that takes the tail sentinel for a node finds the list   *)
(* empty, whatever the other threads do between its reads and its CAS.     *)
THEOREM SentinelIsLast == ASSUME Reuse = FALSE PROVE Spec => SentinelLast
<1>1. ASSUME IInv, CallInv, TAIL \in linked => WayInv, [Next]_vars, TAIL \in linked \ linked'
      PROVE  linked = {HEAD, TAIL}
  BY <1>1, TailLeaves, HeadMeetsTail DEF Next, Ended, vars
<1>2. IInv /\ CallInv /\ (TAIL \in linked => WayInv) /\ [Next]_vars
        => [(TAIL \in linked \ linked') => linked = {HEAD, TAIL}]_vars
  BY <1>1
<1>. QED BY <1>2, WalksEnd, PTL DEF Spec, SentinelLast

(* The cell that follows another one in memory is the next one by rank.    *)
LEMMA Follows ==
  ASSUME IInv, TAIL \in linked, NEW n \in linked \ {TAIL}, NEW i \in 0..Cardinality(Inner),
         i = IF n = HEAD THEN 0 ELSE Rank(Inner, stamp, n)
  PROVE  next[n].ref = IF i < Cardinality(Inner) THEN Member(Inner, stamp, i + 1) ELSE TAIL
<1> DEFINE m == next[n].ref
<1>1. /\ Ranked(Inner, stamp) /\ Inner \subseteq linked /\ HEAD \notin Inner /\ TAIL \notin Inner
      /\ Cardinality(Inner) \in Nat
  BY InnerRanked, MemberFacts
<1>2. /\ linked \subseteq Entered /\ linked \subseteq Cells /\ HEAD \in linked
      /\ \A z \in linked : stamp[z] \in Nat /\ stamp[z] > 0 /\ Age(z) = stamp[z]
      /\ \A z \in linked \ {HEAD} : stamp[z] < stamp[HEAD]
      /\ \A y, z \in linked : y # z => stamp[y] # stamp[z]
      /\ stamp[TAIL] = 1
  BY StampFacts DEF IInv, Shape, Stamped
<1>3. /\ m \in linked /\ stamp[m] < stamp[n]
      /\ \A z \in linked : stamp[z] < stamp[n] => stamp[z] <= stamp[m]
  <2>1. m \in linked
    BY <1>2, BeforeTail DEF IInv, Shape, Closed
  <2>. QED BY <1>2, <2>1 DEF IInv, Shape, Ordered
<1>4. m # HEAD
  BY <1>2, <1>3
<1>5. ASSUME m # TAIL
      PROVE  m \in Inner /\ i < Rank(Inner, stamp, m) /\ Rank(Inner, stamp, m) \in 1..Cardinality(Inner)
  <2>1. m \in Inner
    BY <1>3, <1>4, <1>5 DEF Inner
  <2>2. Rank(Inner, stamp, m) \in 1..Cardinality(Inner)
    BY <1>1, <2>1, RankOrder
  <2>3. CASE n = HEAD
    BY <2>1, <2>2, <2>3
  <2>4. CASE n # HEAD
    <3>1. n \in Inner /\ stamp[n] > stamp[m]
      BY <1>2, <1>3, <2>4 DEF Inner
    <3>2. Rank(Inner, stamp, n) < Rank(Inner, stamp, m)
      BY <1>1, <2>1, <3>1, RankOrder
    <3>. QED BY <2>1, <2>2, <2>4, <3>2
  <2>. QED BY <2>3, <2>4
<1>6. CASE i < Cardinality(Inner)
  <2> DEFINE x == Member(Inner, stamp, i + 1)
  <2>1. x \in Inner /\ Rank(Inner, stamp, x) = i + 1
    BY <1>1, <1>6, MemberFacts
  <2>2. stamp[x] < stamp[n]
    <3>1. CASE n = HEAD
      BY <1>1, <1>2, <2>1, <3>1
    <3>2. CASE n # HEAD
      <4>1. n \in Inner /\ n # x /\ stamp[n] # stamp[x] /\ ~(stamp[x] > stamp[n])
        <5>1. n \in Inner
          BY <3>2 DEF Inner
        <5>2. ~(Rank(Inner, stamp, x) < Rank(Inner, stamp, n)) /\ n # x
          BY <2>1, <3>2
        <5>3. ~(stamp[x] > stamp[n])
          BY <1>1, <2>1, <5>1, <5>2, RankOrder
        <5>. QED BY <1>1, <1>2, <2>1, <5>1, <5>2, <5>3
      <4>. QED BY <1>1, <1>2, <2>1, <4>1
    <3>. QED BY <3>1, <3>2
  <2>3. stamp[x] <= stamp[m]
    BY <1>1, <1>3, <2>1, <2>2
  <2>4. m # TAIL
    BY <1>1, <1>2, <2>1, <2>3
  <2>5. ~(stamp[m] > stamp[x])
    <3>1. ~(Rank(Inner, stamp, m) < Rank(Inner, stamp, x))
      BY <1>5, <2>1, <2>4
    <3>. QED BY <1>1, <1>5, <2>1, <2>4, <3>1, RankOrder
  <2>6. m = x
    BY <1>1, <1>2, <1>3, <2>1, <2>3, <2>5
  <2>. QED BY <1>6, <2>6
<1>7. CASE ~(i < Cardinality(Inner))
  BY <1>1, <1>5, <1>7
<1>. QED BY <1>6, <1>7

(* The list the refinement speaks of is the one a walk of memory meets.    *)
THEOREM WalksMeetTheList == ASSUME Reuse = FALSE PROVE Spec => []WalkIsList
<1>1. ASSUME IInv, TAIL \in linked
      PROVE  WalkIsList
  <2> DEFINE size == Len(AbstractList)
             Cell(i) == IF i <= size THEN AbstractList[i].cell ELSE TAIL
  <2>1. size = Cardinality(Inner) /\ size \in Nat /\ Ranked(Inner, stamp)
    BY <1>1, ListElements, InnerRanked, MemberFacts
  <2>2. ASSUME NEW i \in 1..size
        PROVE  Cell(i) = Member(Inner, stamp, i) /\ Member(Inner, stamp, i) \in Inner
    BY <2>1, <2>2, MemberFacts, AbstractListing DEF Listing
  <2>3. Cell(size + 1) = TAIL
    BY <2>1
  <2>4. next[HEAD].ref = Cell(1)
    <3>1. HEAD \in linked \ {TAIL}
      BY <1>1 DEF IInv, Shape, Stamped
    <3>2. next[HEAD].ref = IF 0 < Cardinality(Inner) THEN Member(Inner, stamp, 0 + 1) ELSE TAIL
      BY <1>1, <2>1, <3>1, Follows
    <3>3. CASE size = 0
      BY <2>1, <2>3, <3>2, <3>3
    <3>4. CASE size # 0
      <4>1. 1 \in 1..size /\ 0 + 1 = 1 /\ 0 < Cardinality(Inner)
        BY <2>1, <3>4
      <4> HIDE DEF Cell
      <4>. QED BY <2>2, <3>2, <4>1
    <3>. QED BY <3>3, <3>4
  <2>5. ASSUME NEW i \in 1..size PROVE next[Cell(i)].ref = Cell(i + 1)
    <3> DEFINE n == Cell(i)
    <3>1. n = Member(Inner, stamp, i) /\ n \in Inner /\ Rank(Inner, stamp, n) = i
      BY <2>1, <2>2, MemberFacts
    <3>2. n \in linked \ {TAIL} /\ n # HEAD
      BY <1>1, <3>1, InnerRanked
    <3> HIDE DEF n
    <3>3. next[n].ref = IF i < Cardinality(Inner) THEN Member(Inner, stamp, i + 1) ELSE TAIL
      BY <1>1, <2>1, <3>1, <3>2, Follows
    <3>4. CASE i < size
      <4>1. i + 1 \in 1..size
        BY <2>1, <3>4
      <4>2. Cell(i + 1) = Member(Inner, stamp, i + 1)
        BY <2>2, <4>1
      <4> HIDE DEF Cell
      <4>. QED BY <2>1, <3>3, <3>4, <4>2 DEF n
    <3>5. CASE i = size
      <4> HIDE DEF Cell
      <4>. QED BY <2>1, <2>3, <3>3, <3>5 DEF n
    <3>. QED BY <2>1, <3>4, <3>5
  <2>. QED BY <1>1, <2>4, <2>5 DEF WalkIsList
<1>2. IInv => WalkIsList
  BY <1>1 DEF WalkIsList
<1>. QED BY <1>2, InvariantHolds, PTL

(* atomic_list is linearizable: as long as malloc hands out no freed cell  *)
(* again, its clients cannot tell it from a list whose operations are      *)
(* atomic, up to the step that takes the tail sentinel out.                *)
THEOREM ListRefines ==
  ASSUME Reuse = FALSE
  PROVE  Spec => ImplementsSharedList
<1>1. Init => Abstract!Init
  BY RefineInit
<1>2. IInv /\ CallInv /\ (TAIL \in linked => WayInv) /\ [Next]_vars
        => [(TAIL \in linked') => Abstract!Next]_(Abstract!vars)
  BY RefineStep, TailStaysOut
<1>. QED BY <1>1, <1>2, WalksEnd, PTL DEF Spec, ImplementsSharedList

(* While it stays in, they are steps of the abstract list and no others.   *)
LEMMA SentinelRefines ==
  ASSUME Reuse = FALSE
  PROVE  Spec /\ [](TAIL \in linked) => Abstract!Spec
<1>1. Init => Abstract!Init
  BY RefineInit
<1>2. IInv /\ CallInv /\ (TAIL \in linked => WayInv) /\ TAIL \in linked /\ (TAIL \in linked)'
        /\ [Next]_vars => [Abstract!Next]_(Abstract!vars)
  BY RefineStep
<1>. QED BY <1>1, <1>2, WalksEnd, PTL DEF Spec, Abstract!Spec

(* Clients that only insert and delete by datum.                           *)
NoDeleteFirst ==
  \A p \in Programs, t \in Threads : \A i \in 1..Len(p[t]) : p[t][i].op # "delete_first"

(* For those atomic_list is linearizable without a condition on the run:   *)
(* only delete_first takes the tail sentinel out.                          *)
THEOREM ListRefinesWithoutDeleteFirst ==
  ASSUME Reuse = FALSE, NoDeleteFirst
  PROVE  Spec => Abstract!Spec
<1>1. Init => program \in Programs /\ TAIL \in linked
  BY DEF Init
<1>2. program \in Programs /\ [Next]_vars => (program \in Programs)'
  <2>1. ASSUME NEW t \in Threads, Step(t) PROVE program' = program
    BY <2>1 DEF Step, Call, Insert, InsertAlloc, InsertNoMemory, InsertRead, InsertSetNext,
         InsertSetData, InsertCas, Delete, Search, SearchStart, SearchCompare, SearchAdvance,
         SearchCheckLeft, SearchCheckNode, SearchCheckAdjacent, Check, DeleteReadNext, ReadNext,
         DeleteMark, Mark, DeleteUnlink, Unlink, DeleteUnmark, Unmark, DeleteFree, Free,
         DeleteFirst, FirstRead, FirstReadNext, FirstMark, FirstUnlink, FirstUnmark, FirstData,
         FirstFree
  <2>. QED BY <2>1 DEF Next, Ended, vars
<1>3. ASSUME IInv, CallInv, TAIL \in linked => WayInv, program \in Programs, TAIL \in linked,
             [Next]_vars, TAIL \notin linked'
      PROVE  FALSE
  <2>1. PICK t \in Threads : pc[t] = "first_unlink"
    BY <1>3, TailLeaves DEF Next, Ended, vars
  <2>2. called[t] \in 1..Len(program[t])
    <3>1. TypeOK /\ pc[t] \notin {"idle", "killed"}
      BY <1>3, <2>1 DEF IInv
    <3>. QED BY <3>1 DEF TypeOK
  <2>. QED BY <1>3, <2>1, <2>2 DEF NoDeleteFirst, CallInv, CallMatches, TakingFirst
<1>4. IInv /\ CallInv /\ (TAIL \in linked => WayInv) /\ program \in Programs /\ TAIL \in linked
        /\ [Next]_vars => (TAIL \in linked)'
  BY <1>3
<1>. QED BY <1>1, <1>2, <1>4, WalksEnd, SentinelRefines, PTL DEF Spec

-----------------------------------------------------------------------------
(* Whose a mark is and whose a block that is not in the list.              *)
MarkOwned ==
  \A n \in linked : next[n].mark => \E t \in Threads : Holding(t) /\ node[t] = n
HeapOwned ==
  \A n \in Cells \ linked :
    heap[n] = "allocated" => \E t \in Threads : (Inserting(t) \/ Freeing(t)) /\ node[t] = n

(* What a step of t does to them is its own doing.                         *)
OwnMark(t) ==
  \A n \in linked' : next'[n].mark =>
    \/ Holding(t)' /\ node'[t] = n
    \/ n \in linked /\ next[n].mark /\ ~(Holding(t) /\ node[t] = n)
OwnBlock(t) ==
  \A n \in Cells \ linked' : heap'[n] = "allocated" =>
    \/ (Inserting(t) \/ Freeing(t))' /\ node'[t] = n
    \/ n \notin linked /\ heap[n] = "allocated" /\ ~((Inserting(t) \/ Freeing(t)) /\ node[t] = n)

LEMMA OwnSteps ==
  ASSUME IInv, NEW t \in Threads, Step(t), pc'[t] # "killed"
  PROVE  OwnMark(t) /\ OwnBlock(t)
<1>. USE DEF Goto, Return, memory, locals, ghosts, OwnMark, OwnBlock, Inserting, Holding, Freeing
<1>0. TypeOK /\ Knows(t) /\ Marked /\ Allocated /\ HEAD \in linked /\ linked \subseteq Cells
  BY DEF IInv, Shape, Stamped, TypeOK
<1>1. CASE Call(t)
  <2>1. pc'[t] \in {"insert", "delete", "delete_first"}
    BY <1>0, <1>1, CallFacts DEF Call, TypeOK, Calls
  <2>. QED BY <1>0, <1>1, <2>1 DEF Call, TypeOK
<1>2. CASE Insert(t)
  <2>1. CASE InsertAlloc(t) \/ InsertNoMemory(t) \/ InsertRead(t) \/ InsertSetData(t)
    BY <1>0, <2>1 DEF InsertAlloc, InsertNoMemory, InsertRead, InsertSetData, TypeOK
  <2>2. CASE InsertSetNext(t)
    <3>1. node[t] \notin linked
      BY <1>0, <2>2, StampFacts DEF InsertSetNext, Knows, Private, IInv, Shape
    <3>. QED BY <1>0, <2>2, <3>1 DEF InsertSetNext, TypeOK
  <2>3. CASE InsertCas(t)
    <3>1. CASE next' = next /\ linked' = linked /\ pc' = [pc EXCEPT ![t] = "insert_read"]
      BY <1>0, <2>3, <3>1 DEF InsertCas, TypeOK
    <3>2. CASE /\ CasSucceeds(left[t], succ[t], Ptr(node[t])) /\ linked' = linked \cup {node[t]}
               /\ pc' = [pc EXCEPT ![t] = "idle"]
      <4>1. left[t] = HEAD /\ next[node[t]] = next[HEAD] /\ node[t] # HEAD /\ node[t] \in Cells
        BY <1>0, <2>3, <3>2, StampFacts DEF InsertCas, Knows, Private, CasSucceeds, IInv, Shape
      <4>2. next' = [next EXCEPT ![HEAD] = Ptr(node[t])] /\ Ptr(node[t]).mark = FALSE
        BY <3>2, <4>1, PtrType DEF CasSucceeds
      <4>. QED BY <1>0, <2>3, <3>2, <4>1, <4>2 DEF InsertCas, TypeOK, Marked
    <3>. QED BY <2>3, <3>1, <3>2 DEF InsertCas, CasFails
  <2>. QED BY <1>2, <2>1, <2>2, <2>3 DEF Insert
<1>3. ASSUME NEW from, NEW retry, NEW unlink, Mark(t, from, retry, unlink),
             from \in {"delete_mark", "first_mark"}, retry \in {"delete", "delete_first"},
             unlink \in {"delete_unlink", "first_unlink"}
      PROVE  OwnMark(t) /\ OwnBlock(t)
  BY <1>0, <1>3 DEF Mark, CasSucceeds, CasFails, TypeOK
<1>4. ASSUME NEW from, NEW unmark, NEW free, Unlink(t, from, unmark, free),
             from \in {"delete_unlink", "first_unlink"},
             unmark \in {"delete_unmark", "first_unmark"}, free \in {"delete_free", "first_data"}
      PROVE  OwnMark(t) /\ OwnBlock(t)
  <2>1. ~succ[t].mark /\ left[t] \in Cells
    BY <1>0, <1>4 DEF Unlink, Knows, Holding, Marking, TypeOK
  <2>. QED BY <1>0, <1>4, <2>1 DEF Unlink, CasSucceeds, CasFails, TypeOK
<1>5. ASSUME NEW from, NEW retry, Unmark(t, from, retry),
             from \in {"delete_unmark", "first_unmark"}, retry \in {"delete", "delete_first"}
      PROVE  OwnMark(t) /\ OwnBlock(t)
  <2>1. /\ node[t] \in Cells /\ next[node[t]] = SetMark(succ[t])
        /\ DelMark(succ[t]).mark = FALSE
    BY <1>0, <1>5, MarkType DEF Unmark, Knows, TypeOK
  <2>. QED BY <1>0, <1>5, <2>1 DEF Unmark, TypeOK
<1>6. ASSUME NEW from, Free(t, from), from \in {"delete_free", "first_free"}
      PROVE  OwnMark(t) /\ OwnBlock(t)
  BY <1>0, <1>6 DEF Free, TypeOK
<1>7. CASE Delete(t)
  <2>1. CASE Search(t)
    BY <1>0, <2>1 DEF Search, SearchStart, SearchCompare, SearchAdvance, SearchCheckLeft,
         SearchCheckNode, SearchCheckAdjacent, Check, Visit, TypeOK
  <2>2. CASE DeleteReadNext(t)
    BY <1>0, <2>2 DEF DeleteReadNext, ReadNext, TypeOK
  <2>. QED BY <1>3, <1>4, <1>5, <1>6, <1>7, <2>1, <2>2
           DEF Delete, DeleteMark, DeleteUnlink, DeleteUnmark, DeleteFree
<1>8. CASE DeleteFirst(t)
  <2>1. CASE FirstRead(t) \/ FirstReadNext(t) \/ FirstData(t)
    BY <1>0, <2>1 DEF FirstRead, FirstReadNext, ReadNext, FirstData, TypeOK
  <2>. QED BY <1>3, <1>4, <1>5, <1>6, <1>8, <2>1
           DEF DeleteFirst, FirstMark, FirstUnlink, FirstUnmark, FirstFree
<1>. QED BY <1>1, <1>2, <1>7, <1>8 DEF Step

LEMMA OwnedStep ==
  ASSUME IInv, MarkOwned, HeapOwned, NEW t \in Threads, Step(t), pc'[t] # "killed"
  PROVE  MarkOwned' /\ HeapOwned'
<1>1. OwnMark(t) /\ OwnBlock(t)
  BY OwnSteps
<1>2. \A u \in Threads \ {t} : /\ node'[u] = node[u] /\ (Holding(u)' <=> Holding(u))
                               /\ (Inserting(u) \/ Freeing(u))' <=> (Inserting(u) \/ Freeing(u))
  <2>1. \A u \in Threads \ {t} : Same(u)
    BY Others DEF IInv
  <2>. QED BY <2>1 DEF Same, Holding, Inserting, Freeing
<1>3. MarkOwned'
  BY <1>1, <1>2 DEF OwnMark, MarkOwned
<1>4. HeapOwned'
  BY <1>1, <1>2 DEF OwnBlock, HeapOwned
<1>. QED BY <1>3, <1>4

-----------------------------------------------------------------------------
(* The harness.  Until verify_test has returned the list is in order; from *)
(* then on nobody but main() touches it.                                   *)
Phases == {"init", "create", "join", "abandoned", "verify", "final", "exit"}

AllKilled == \A t, u \in Threads : pc[t] = "killed" => pc[u] = "killed"
MainAndWorkers ==
  /\ phase = "init" => \A t \in Workers : pc[t] \in {"idle", "killed"}
  /\ phase # "init" => pc[MAIN] = "idle" \/ (pc[MAIN] = "killed" /\ Workers # {})
  /\ phase \notin {"init", "exit"} => called[MAIN] = Len(program[MAIN]) /\ ret[MAIN] # "fail"
Judged ==
  /\ verdict = "none" => IInv /\ phase # "final"
  /\ verdict # "none" => phase \in {"final", "exit"} /\ \A t \in Threads : pc[t] = "idle"
  /\ phase = "verify" => \A t \in Threads : Stopped(t)

HarnessInv == phase \in Phases /\ AllKilled /\ MainAndWorkers /\ Judged

LEMMA TestThreads == MAIN \in Threads /\ MAIN \notin Workers /\ Threads = {MAIN} \cup Workers
BY WorkersAssumption DEF Workers

(* A NULL pointer kills every thread or none.                              *)
LEMMA Killing ==
  ASSUME IInv, NEW t \in Threads, Step(t)
  PROVE  /\ pc[t] # "killed"
         /\ pc'[t] = "killed" => pc' = [u \in Threads |-> "killed"] /\ ret' = ret
<1>. USE DEF Goto, Return, memory, locals, ghosts, IInv, TypeOK
<1>1. CASE Call(t)
  <2>1. pc'[t] \in {"insert", "delete", "delete_first"}
    BY <1>1, CallFacts DEF Call, Calls
  <2>. QED BY <1>1, <2>1 DEF Call
<1>2. CASE Insert(t)
  BY <1>2 DEF Insert, InsertAlloc, InsertNoMemory, InsertRead, InsertSetNext, InsertSetData,
       InsertCas
<1>3. CASE Delete(t)
  <2>1. CASE Search(t)
    BY <2>1 DEF Search, SearchStart, SearchCompare, SearchAdvance, SearchCheckLeft,
         SearchCheckNode, SearchCheckAdjacent, Check, Visit
  <2>2. CASE ~Search(t)
    BY <1>3, <2>2 DEF Delete, DeleteReadNext, ReadNext, DeleteMark, Mark, DeleteUnlink, Unlink,
         DeleteUnmark, Unmark, DeleteFree, Free
  <2>. QED BY <2>1, <2>2
<1>4. CASE DeleteFirst(t)
  BY <1>4 DEF DeleteFirst, FirstRead, FirstReadNext, ReadNext, FirstMark, Mark, FirstUnlink,
       Unlink, FirstUnmark, Unmark, FirstData, FirstFree, Free
<1>. QED BY <1>1, <1>2, <1>3, <1>4 DEF Step

LEMMA ProgramsFixed == ASSUME NEW t \in Threads, Step(t) PROVE program' = program
BY DEF Step, Call, Insert, InsertAlloc, InsertNoMemory, InsertRead, InsertSetNext,
     InsertSetData, InsertCas, Delete, Search, SearchStart, SearchCompare, SearchAdvance,
     SearchCheckLeft, SearchCheckNode, SearchCheckAdjacent, Check, DeleteReadNext, ReadNext,
     DeleteMark, Mark, DeleteUnlink, Unlink, DeleteUnmark, Unmark, DeleteFree, Free,
     DeleteFirst, FirstRead, FirstReadNext, FirstMark, FirstUnlink, FirstUnmark, FirstData,
     FirstFree

LEMMA CalledByCall ==
  ASSUME NEW t \in Threads, Step(t)
  PROVE  called' = called \/ Call(t)
BY DEF Step, Insert, InsertAlloc, InsertNoMemory, InsertRead, InsertSetNext,
     InsertSetData, InsertCas, Delete, Search, SearchStart, SearchCompare, SearchAdvance,
     SearchCheckLeft, SearchCheckNode, SearchCheckAdjacent, Check, DeleteReadNext, ReadNext,
     DeleteMark, Mark, DeleteUnlink, Unlink, DeleteUnmark, Unmark, DeleteFree, Free,
     DeleteFirst, FirstRead, FirstReadNext, FirstMark, FirstUnlink, FirstUnmark, FirstData,
     FirstFree

(* What a step of t leaves of the other threads' calls.                    *)
LEMMA OthersCalls ==
  ASSUME IInv, NEW t \in Threads, Step(t), NEW u \in Threads, u # t
  PROVE  called'[u] = called[u] /\ program' = program /\ ret'[u] = ret[u]
<1>1. called'[u] = called[u]
  <2>1. CASE Call(t)
    <3>1. called \in [Threads -> Nat] /\ called' = [called EXCEPT ![t] = @ + 1]
      BY <2>1 DEF Call, IInv, TypeOK
    <3>. QED BY <3>1
  <2>. QED BY <2>1, CalledByCall
<1>2. ret'[u] = ret[u]
  BY Others, Killing DEF IInv, Same
<1>. QED BY <1>1, <1>2, ProgramsFixed

LEMMA HarnessInit == TestInit => HarnessInv
<1>. SUFFICES ASSUME TestInit PROVE HarnessInv
  OBVIOUS
<1>1. Init /\ IInv /\ phase = "init" /\ verdict = "none"
  BY InvInit DEF TestInit
<1>2. \A t \in Threads : pc[t] = "idle"
  BY <1>1 DEF Init
<1>. QED BY <1>1, <1>2, TestThreads DEF HarnessInv, Phases, AllKilled, MainAndWorkers, Judged

(* A step of one thread, while the list is in use.                         *)
LEMMA HarnessStep ==
  ASSUME Reuse = FALSE, HarnessInv, NEW t \in Threads, Step(t), UNCHANGED harness,
         IF phase = "init" THEN t = MAIN
                           ELSE t \in Workers /\ phase \in {"create", "join", "abandoned"}
  PROVE  HarnessInv'
<1>1. verdict = "none" /\ IInv /\ phase' = phase /\ verdict' = verdict /\ phase \notin {"verify", "final", "exit"}
  BY DEF HarnessInv, Phases, Judged, harness
<1>2. IInv'
  BY <1>1, InvStep DEF Next
<1>3. AllKilled'
  <2>1. pc' = [v \in Threads |-> "killed"]
        \/ (pc'[t] # "killed" /\ \A u \in Threads \ {t} : pc'[u] = pc[u])
    BY <1>1, Killing, Others DEF Same, IInv
  <2>2. \A u \in Threads : pc[u] # "killed"
    BY <1>1, Killing DEF HarnessInv, AllKilled
  <2>. QED BY <2>1, <2>2 DEF AllKilled
<1>4. \A u \in Threads \ {t} : pc'[u] \in {pc[u], "killed"}
  BY <1>1, Others DEF Same, IInv
<1>5. MainAndWorkers'
  <2>1. CASE phase = "init"
    BY <1>1, <1>4, <2>1, TestThreads DEF HarnessInv, MainAndWorkers
  <2>2. CASE phase # "init"
    <3>1. t # MAIN
      BY <2>2, TestThreads
    <3>2. pc'[MAIN] \in {"idle", "killed"} /\ Workers # {}
      BY <1>4, <2>2, <3>1, TestThreads DEF HarnessInv, MainAndWorkers
    <3>3. called'[MAIN] = called[MAIN] /\ program' = program /\ ret'[MAIN] = ret[MAIN]
      BY <1>1, <3>1, OthersCalls, TestThreads
    <3>. QED BY <1>1, <2>2, <3>2, <3>3 DEF HarnessInv, MainAndWorkers
  <2>. QED BY <2>1, <2>2
<1>6. Judged'
  BY <1>1, <1>2 DEF Judged
<1>. QED BY <1>1, <1>3, <1>5, <1>6 DEF HarnessInv

(* The steps of the harness: a thread runs, main() runs and leaves the     *)
(* list alone, or main() frees the list.                                   *)
Runs(t) == /\ Step(t) /\ ~Stopped(t) /\ UNCHANGED harness
           /\ IF phase = "init" THEN t = MAIN
              ELSE t \in Workers /\ phase \in {"create", "join", "abandoned"}
Manages == /\ UNCHANGED vars
           /\ \/ InitFails \/ InitSucceeds \/ CreateThread \/ CreateFails \/ Abandon
              \/ Join \/ VerifyNode \/ VerifyDone \/ UNCHANGED harness
Frees   == FinalNode \/ FinalSentinels

LEMMA TestSteps ==
  ASSUME [TestNext]_testVars
  PROVE  (\E t \in Threads : Runs(t)) \/ Manages \/ Frees
<1>1. CASE InitTest
  BY <1>1, TestThreads DEF InitTest, Runs
<1>2. CASE \E t \in Workers : Work(t)
  <2>1. PICK t \in Workers : Work(t)
    BY <1>2
  <2>2. Runs(t) /\ t \in Threads
    BY <2>1, TestThreads DEF Work, Runs
  <2>. QED BY <2>2
<1>3. CASE InitFails \/ InitSucceeds \/ CreateThread \/ CreateFails \/ Abandon \/ Join
           \/ VerifyNode \/ VerifyDone
  BY <1>3 DEF Manages, InitFails, InitSucceeds, CreateThread, CreateFails, Abandon, Join,
       VerifyNode, VerifyDone, vars
<1>4. CASE Exited \/ UNCHANGED testVars
  BY <1>4 DEF Exited, Manages, testVars
<1>. QED BY <1>1, <1>2, <1>3, <1>4 DEF TestNext, Main, Frees

LEMMA ManagesKeeps ==
  ASSUME Reuse = FALSE, HarnessInv, Manages
  PROVE  HarnessInv' /\ (IInv => IInv')
<1>1. /\ pc' = pc /\ called' = called /\ program' = program /\ ret' = ret
      /\ \A t \in Threads : Stopped(t)' <=> Stopped(t)
  BY DEF Manages, vars, Stopped
<1>2. IInv => IInv'
  BY InvStep DEF Manages
<1>3. phase' \in Phases /\ AllKilled'
  <2>1. phase' \in Phases
    BY DEF HarnessInv, Manages, Phases, InitFails, InitSucceeds, CreateThread, CreateFails,
         Abandon, Join, VerifyNode, VerifyDone, harness, Creating
  <2>. QED BY <1>1, <2>1 DEF HarnessInv, AllKilled
<1>4. MainAndWorkers'
  BY <1>1 DEF HarnessInv, MainAndWorkers, Manages, InitFails, InitSucceeds, CreateThread,
       CreateFails, Abandon, Join, VerifyNode, VerifyDone, harness, Creating, Stopped
<1>5. Judged'
  <2>1. CASE Join
    <3>1. /\ phase = "join" /\ phase' = "verify" /\ verdict' = verdict
          /\ \A t \in Workers : Stopped(t)
      BY <2>1 DEF Join
    <3>2. pc[MAIN] = "idle"
      BY <3>1, TestThreads DEF HarnessInv, AllKilled, MainAndWorkers, Stopped
    <3>3. Stopped(MAIN)
      BY <3>1, <3>2 DEF HarnessInv, MainAndWorkers, Stopped
    <3>4. \A t \in Threads : Stopped(t)
      BY <3>1, <3>3, TestThreads
    <3>. QED BY <1>1, <1>2, <3>1, <3>4 DEF HarnessInv, Judged
  <2>2. CASE InitFails \/ InitSucceeds \/ CreateThread \/ CreateFails \/ Abandon
             \/ VerifyNode \/ UNCHANGED harness
    BY <1>1, <1>2, <2>2 DEF HarnessInv, Judged, InitFails, InitSucceeds, CreateThread,
         CreateFails, Abandon, VerifyNode, harness, Creating
  <2>3. CASE VerifyDone
    BY <1>1, <1>2, <2>3 DEF HarnessInv, Judged, VerifyDone, Stopped
  <2>. QED BY <2>1, <2>2, <2>3 DEF Manages
<1>. QED BY <1>2, <1>3, <1>4, <1>5 DEF HarnessInv

LEMMA FreesKeeps ==
  ASSUME HarnessInv, Frees
  PROVE  /\ HarnessInv' /\ phase = "final" /\ phase' \in {"final", "exit"} /\ verdict' = verdict
         /\ UNCHANGED <<data, next, program, called, pc, left, node, succ, ret, out, linked, stamp, seen>>
<1>1. /\ phase = "final" /\ phase' \in {"final", "exit"} /\ verdict' = verdict
      /\ UNCHANGED <<data, next, program, called, pc, left, node, succ, ret, out, linked, stamp, seen>>
  BY DEF Frees, FinalNode, FinalSentinels, locals, ghosts
<1>2. verdict # "none"
  BY <1>1 DEF HarnessInv, Judged
<1>3. phase' \in Phases /\ AllKilled'
  BY <1>1 DEF HarnessInv, AllKilled, Phases
<1>4. MainAndWorkers'
  BY <1>1 DEF HarnessInv, MainAndWorkers
<1>5. Judged'
  BY <1>1, <1>2 DEF HarnessInv, Judged
<1>. QED BY <1>1, <1>3, <1>4, <1>5 DEF HarnessInv

LEMMA RunsKeeps ==
  ASSUME Reuse = FALSE, HarnessInv, NEW t \in Threads, Runs(t)
  PROVE  /\ HarnessInv' /\ IInv /\ IInv' /\ verdict = "none" /\ UNCHANGED harness
         /\ phase \notin {"verify", "final", "exit"}
<1>1. UNCHANGED harness /\ verdict = "none" /\ IInv /\ phase \notin {"verify", "final", "exit"}
  BY DEF Runs, HarnessInv, Judged
<1>2. HarnessInv' /\ IInv'
  BY <1>1, HarnessStep, InvStep DEF Runs, Next
<1>. QED BY <1>1, <1>2

LEMMA HarnessHolds == ASSUME Reuse = FALSE PROVE TestSpec => []HarnessInv
<1>1. HarnessInv /\ [TestNext]_testVars => HarnessInv'
  BY TestSteps, RunsKeeps, ManagesKeeps, FreesKeeps
<1>. QED BY <1>1, HarnessInit, PTL DEF TestSpec

(* No thread is left that could own a mark or a block when main() goes on. *)
OwnedInv ==
  /\ verdict = "none" /\ (\A t \in Threads : pc[t] # "killed") => MarkOwned /\ HeapOwned
  /\ phase = "final" => \A n \in linked : ~next[n].mark

LEMMA NothingOwned ==
  ASSUME HarnessInv, OwnedInv, phase = "verify"
  PROVE  /\ IInv /\ verdict = "none" /\ (\A t \in Threads : pc[t] = "idle")
         /\ \A n \in linked : ~next[n].mark
         /\ \A n \in Cells \ linked : heap[n] # "allocated"
<1>1. IInv /\ verdict = "none" /\ \A t \in Threads : pc[t] = "idle"
  BY DEF HarnessInv, Judged, Stopped
<1>2. \A t \in Threads : ~Holding(t) /\ ~Inserting(t) /\ ~Freeing(t) /\ pc[t] # "killed"
  BY <1>1 DEF Holding, Inserting, Freeing
<1>3. MarkOwned /\ HeapOwned
  BY <1>1, <1>2 DEF OwnedInv
<1>. QED BY <1>1, <1>2, <1>3 DEF MarkOwned, HeapOwned

LEMMA OwnedInit == TestInit => OwnedInv
<1>. SUFFICES ASSUME TestInit PROVE OwnedInv
  OBVIOUS
<1>1. /\ phase = "init" /\ linked = {HEAD, TAIL}
      /\ \A n \in linked : ~next[n].mark
      /\ \A n \in Cells \ linked : heap[n] # "allocated"
  BY PtrType DEF TestInit, Init
<1>. QED BY <1>1 DEF OwnedInv, MarkOwned, HeapOwned

LEMMA OwnedNext ==
  ASSUME Reuse = FALSE, HarnessInv, OwnedInv, [TestNext]_testVars
  PROVE  OwnedInv'
<1>1. ASSUME NEW t \in Threads, Runs(t) PROVE OwnedInv'
  <2>1. IInv /\ Step(t) /\ verdict = "none" /\ phase' # "final"
    BY <1>1, RunsKeeps DEF Runs, harness
  <2>2. CASE \A u \in Threads : pc'[u] # "killed"
    <3>1. \A u \in Threads : pc[u] # "killed"
      BY <2>1, Killing DEF HarnessInv, AllKilled
    <3>. QED BY <2>1, <2>2, <3>1, OwnedStep DEF OwnedInv
  <2>3. CASE ~ \A u \in Threads : pc'[u] # "killed"
    BY <2>1, <2>3 DEF OwnedInv
  <2>. QED BY <2>2, <2>3
<1>2. CASE Manages
  <2>1. linked' = linked /\ next' = next /\ pc' = pc /\ (MarkOwned /\ HeapOwned => MarkOwned' /\ HeapOwned')
    BY <1>2 DEF Manages, vars, MarkOwned, HeapOwned, Holding, Inserting, Freeing
  <2>2. CASE VerifyDone
    BY <2>1, <2>2, NothingOwned DEF VerifyDone, OwnedInv
  <2>3. CASE ~VerifyDone
    BY <1>2, <2>1, <2>3 DEF OwnedInv, Manages, InitFails, InitSucceeds, CreateThread, CreateFails,
         Abandon, Join, VerifyNode, harness, Creating
  <2>. QED BY <2>2, <2>3
<1>3. CASE Frees
  BY <1>3, FreesKeeps DEF OwnedInv, HarnessInv, Judged
<1>. QED BY <1>1, <1>2, <1>3, TestSteps

(* Once the workers have been joined no node of the list is marked, so the *)
(* verify and final hooks follow real addresses: whoever marked a node has *)
(* unlinked it or taken the mark off before its call returned.             *)
THEOREM MarksAreGone == ASSUME Reuse = FALSE PROVE TestSpec => []NoMarkLeft
<1>1. HarnessInv /\ OwnedInv /\ [TestNext]_testVars => OwnedInv'
  BY OwnedNext
<1>2. HarnessInv /\ OwnedInv => NoMarkLeft
  BY NothingOwned DEF NoMarkLeft, OwnedInv
<1>. QED BY <1>1, <1>2, OwnedInit, HarnessHolds, PTL DEF TestSpec

-----------------------------------------------------------------------------
(* atomic_list_final frees the nodes in the order of the list: those from  *)
(* its cursor on are allocated, those before it are not.                   *)
FinalInv ==
  /\ phase = "final" =>
       /\ TypeOK /\ Ordered /\ Closed /\ Stamped
       /\ TAIL \in linked => cursor \in linked \ {HEAD}
       /\ TAIL \in linked => \A n \in linked \ {HEAD, TAIL} :
                               heap[n] = "allocated" <=> stamp[n] <= stamp[cursor]
       /\ \A n \in Cells \ linked : heap[n] # "allocated"
  /\ TAIL \in linked /\ phase = "exit" /\ verdict # "none" =>
       \A n \in Cells : heap[n] # "allocated"

(* Where a walk over a list with its tail sentinel goes next.              *)
LEMMA NextOnTheWay ==
  ASSUME TypeOK, Ordered, Closed, Stamped, TAIL \in linked, NEW n \in linked \ {TAIL}
  PROVE  /\ next[n].ref \in linked \ {HEAD} /\ stamp[next[n].ref] < stamp[n]
         /\ \A z \in linked : stamp[z] < stamp[n] <=> stamp[z] <= stamp[next[n].ref]
<1>1. /\ linked \subseteq Entered /\ linked \subseteq Cells /\ Age(NULL) = 0 /\ stamp[TAIL] = 1
      /\ \A z \in linked : stamp[z] \in Nat /\ stamp[z] > 0 /\ Age(z) = stamp[z]
      /\ \A z \in linked \ {HEAD} : stamp[z] < stamp[HEAD]
      /\ \A y, z \in Entered : y # z => stamp[y] # stamp[z]
      /\ TAIL \in Entered /\ n \in Entered
  BY StampFacts DEF Stamped
<1>2. stamp[TAIL] < stamp[n]
  BY <1>1
<1>3. next[n].ref \in linked
  BY <1>1, <1>2 DEF Ordered, Closed
<1>4. /\ stamp[next[n].ref] < stamp[n]
      /\ \A z \in linked : stamp[z] < stamp[n] => stamp[z] <= stamp[next[n].ref]
  BY <1>1, <1>3 DEF Ordered
<1>5. next[n].ref # HEAD
  <2>1. CASE n = HEAD
    BY <1>1, <1>3, <1>4, <2>1
  <2>2. CASE n # HEAD
    BY <1>1, <1>3, <1>4, <2>2
  <2>. QED BY <2>1, <2>2
<1>. QED BY <1>1, <1>3, <1>4, <1>5

LEMMA FinalBegins ==
  ASSUME HarnessInv, OwnedInv, VerifyDone
  PROVE  FinalInv'
<1>1. /\ IInv /\ UNCHANGED vars /\ phase' = "final" /\ cursor' = next[HEAD].ref
      /\ \A n \in Cells \ linked : heap[n] # "allocated"
  BY NothingOwned DEF VerifyDone
<1>2. TypeOK /\ Ordered /\ Closed /\ Stamped /\ HEAD \in linked
      /\ \A n \in linked : heap[n] = "allocated"
  BY <1>1 DEF IInv, Shape, Stamped, Allocated
<1>3. TypeOK' /\ Ordered' /\ Closed' /\ Stamped'
  <2>1. TypeOK'
    BY <1>1, <1>2, TypeStep
  <2>. QED BY <1>1, <1>2, <2>1 DEF vars, Ordered, Closed, Stamped, Entered, Age
<1>4. ASSUME TAIL \in linked
      PROVE  /\ cursor' \in linked \ {HEAD}
             /\ \A n \in linked \ {HEAD, TAIL} : stamp[n] <= stamp[cursor']
  <2>1. \A n \in linked \ {HEAD} : stamp[n] < stamp[HEAD]
    BY <1>2, StampFacts
  <2>. QED BY <1>1, <1>2, <1>4, <2>1, CellsAssumption, NextOnTheWay
<1>5. /\ linked' = linked /\ heap' = heap /\ stamp' = stamp
  BY <1>1 DEF vars
<1>. QED BY <1>1, <1>2, <1>3, <1>4, <1>5 DEF FinalInv

LEMMA FinalNodeFrees ==
  ASSUME HarnessInv, FinalInv, TAIL \in linked, FinalNode
  PROVE  FinalInv'
<1>1. /\ phase = "final" /\ phase' = "final" /\ cursor \in linked \ {HEAD, TAIL}
      /\ TypeOK /\ Ordered /\ Closed /\ Stamped
      /\ cursor' = next[cursor].ref /\ heap' = [heap EXCEPT ![cursor] = "freed"]
      /\ UNCHANGED <<data, next, program, called, pc, left, node, succ, ret, out, linked, stamp, seen>>
      /\ \A n \in linked \ {HEAD, TAIL} : heap[n] = "allocated" <=> stamp[n] <= stamp[cursor]
      /\ \A n \in Cells \ linked : heap[n] # "allocated"
  BY DEF FinalNode, FinalInv, locals, ghosts
<1>2. /\ linked \subseteq Cells /\ \A n \in linked : stamp[n] \in Nat
      /\ \A m, n \in linked : m # n => stamp[m] # stamp[n]
  BY <1>1, StampFacts DEF Stamped
<1>3. heap \in [Cells -> {"unused", "allocated", "freed"}]
  BY <1>1 DEF TypeOK
<1>4. heap'[cursor] = "freed" /\ (\A n \in Cells \ {cursor} : heap'[n] = heap[n])
      /\ heap' \in [Cells -> {"unused", "allocated", "freed"}]
  BY <1>1, <1>2, <1>3
<1>5. TypeOK' /\ Ordered' /\ Closed' /\ Stamped'
  BY <1>1, <1>4 DEF TypeOK, HasNode, Ordered, Closed, Stamped, Entered, Age
<1>6. /\ cursor' \in linked \ {HEAD}
      /\ \A n \in linked : stamp[n] < stamp[cursor] <=> stamp[n] <= stamp[cursor']
  BY <1>1, NextOnTheWay
<1>7. ASSUME NEW n \in linked \ {HEAD, TAIL}
      PROVE  heap'[n] = "allocated" <=> stamp[n] <= stamp[cursor']
  <2>1. CASE n = cursor
    BY <1>2, <1>4, <1>6, <2>1
  <2>2. CASE n # cursor
    <3>1. stamp[n] <= stamp[cursor] <=> stamp[n] < stamp[cursor]
      BY <1>1, <1>2, <2>2
    <3>. QED BY <1>1, <1>2, <1>4, <1>6, <2>2, <3>1
  <2>. QED BY <2>1, <2>2
<1>. QED BY <1>1, <1>2, <1>4, <1>5, <1>6, <1>7 DEF FinalInv

LEMMA FinalSentinelsFrees ==
  ASSUME HarnessInv, FinalInv, TAIL \in linked, FinalSentinels
  PROVE  FinalInv'
<1>1. /\ phase = "final" /\ phase' = "exit" /\ cursor = TAIL /\ TypeOK /\ Stamped
      /\ heap' = [heap EXCEPT ![HEAD] = "freed", ![TAIL] = "freed"]
      /\ \A n \in linked \ {HEAD, TAIL} : heap[n] = "allocated" <=> stamp[n] <= stamp[cursor]
      /\ \A n \in Cells \ linked : heap[n] # "allocated"
  BY DEF FinalSentinels, FinalInv
<1>2. ASSUME NEW n \in linked \ {HEAD, TAIL} PROVE heap[n] # "allocated"
  <2>1. /\ n \in Entered /\ TAIL \in Entered /\ stamp[n] \in Nat /\ stamp[n] > 0
        /\ stamp[TAIL] = 1 /\ stamp[n] # stamp[TAIL]
    BY <1>1, StampFacts DEF Stamped
  <2>. QED BY <1>1, <2>1
<1>3. heap \in [Cells -> {"unused", "allocated", "freed"}]
  BY <1>1 DEF TypeOK
<1>4. \A n \in Cells : heap'[n] # "allocated"
  BY <1>1, <1>2, <1>3, CellsAssumption
<1>. QED BY <1>1, <1>4 DEF FinalInv

LEMMA FinalNext ==
  ASSUME Reuse = FALSE, HarnessInv, OwnedInv, FinalInv, TAIL \in linked, [TestNext]_testVars
  PROVE  FinalInv'
<1>1. ASSUME NEW t \in Threads, Runs(t) PROVE FinalInv'
  <2>1. phase' = phase /\ phase \notin {"final", "exit"}
    BY <1>1, RunsKeeps DEF harness
  <2>. QED BY <2>1 DEF FinalInv
<1>2. CASE Manages
  <2>1. CASE InitFails \/ InitSucceeds \/ CreateThread \/ CreateFails \/ Abandon \/ Join \/ VerifyNode
    <3>1. phase' # "final" /\ verdict' = verdict /\ phase \notin {"final", "exit"}
      BY <2>1 DEF InitFails, InitSucceeds, CreateThread, CreateFails, Abandon, Join, VerifyNode,
           Creating
    <3>2. verdict = "none"
      BY <3>1 DEF HarnessInv, Judged
    <3>. QED BY <3>1, <3>2 DEF FinalInv
  <2>2. CASE VerifyDone
    BY <2>2, FinalBegins
  <2>3. CASE UNCHANGED harness
    <3>1. UNCHANGED vars /\ (TypeOK => TypeOK')
      BY <1>2, TypeStep DEF Manages
    <3>. QED BY <2>3, <3>1 DEF harness, vars, FinalInv, Ordered, Closed, Stamped, Entered, Age
  <2>. QED BY <1>2, <2>1, <2>2, <2>3 DEF Manages
<1>3. CASE Frees
  BY <1>3, FinalNodeFrees, FinalSentinelsFrees DEF Frees
<1>. QED BY <1>1, <1>2, <1>3, TestSteps

(* No block is freed twice and none is left when the program ends, as long *)
(* as no delete_first takes the tail sentinel.                             *)
THEOREM BlocksFreedOnce ==
  ASSUME Reuse = FALSE
  PROVE  TestSpec /\ [](TAIL \in linked) => []FreedOnce
<1>1. TestInit => FinalInv
  BY DEF TestInit, FinalInv
<1>2. HarnessInv /\ OwnedInv /\ [TestNext]_testVars => OwnedInv'
  BY OwnedNext
<1>3. HarnessInv /\ OwnedInv /\ FinalInv /\ TAIL \in linked /\ [TestNext]_testVars => FinalInv'
  BY FinalNext
<1>4. HarnessInv /\ FinalInv /\ TAIL \in linked => FreedOnce
  <2>. SUFFICES ASSUME HarnessInv, FinalInv, TAIL \in linked PROVE FreedOnce
    OBVIOUS
  <2>1. ASSUME NEW t \in Threads, Freeing(t) PROVE heap[node[t]] = "allocated"
    <3>1. pc[t] # "idle"
      BY <2>1 DEF Freeing
    <3>2. IInv
      BY <3>1 DEF HarnessInv, Judged
    <3>. QED BY <2>1, <3>2 DEF IInv, Knows
  <2>2. ASSUME phase = "final", cursor # TAIL PROVE heap[cursor] = "allocated"
    <3>1. cursor \in linked \ {HEAD, TAIL} /\ stamp[cursor] \in Nat
      BY <2>2, StampFacts DEF FinalInv, TypeOK
    <3>. QED BY <2>2, <3>1 DEF FinalInv
  <2>. QED BY <2>1, <2>2 DEF FreedOnce, FinalInv
<1>. QED BY <1>1, <1>2, <1>3, <1>4, OwnedInit, HarnessHolds, PTL DEF TestSpec

-----------------------------------------------------------------------------
(* Counting.  The nodes of the list whose data are in K are the insertions *)
(* of such data that have taken effect less the removals that have.        *)
Took(t, i) ==
  \/ i < called[t]
  \/ i = called[t] /\ Pending(t) = NULL /\ Result(t) = "ok"

Effective(kinds) == {c \in CallsOf(kinds) : Took(c[1], c[2])}

Held(K) == {n \in Inner : data[n] \in K}

Counted(K) ==
  Cardinality(Held(K)) + Cardinality(Effective(Removals(K))) = Cardinality(Effective(Insertions(K)))

(* A delete_first may take any datum: with one about only all can be counted. *)
Firsts == [op : {"delete_first"}, key : Keys]
Countable(K) == K = Keys \/ (K \subseteq Keys /\ CallsOf(Firsts) = {})

CountInv == \A K \in SUBSET Keys : Countable(K) => Counted(K)

Returned == \A t \in Threads : pc[t] = "idle" /\ called[t] > 0 => ret[t] # "none"
Keyed    == \A n \in Inner : data[n] \in Keys

(* What the steps of t do to the list and to its call.                     *)
Stays(t)   == linked' = linked /\ called' = called /\ Pending(t)' = Pending(t) /\ Result(t)' = Result(t)
Ends(t, r) == called' = called /\ Pending(t) # NULL /\ Pending(t)' = NULL /\ Result(t)' = r
Adds(t)    == /\ linked' = linked \cup {node[t]} /\ node[t] \in Cells \ Entered
              /\ data' = data /\ data[node[t]] = Key(t)
              /\ program[t][called[t]].op = "insert"
Drops(t)   == /\ linked' = linked \ {node[t]} /\ node[t] \in linked \ {HEAD}
              /\ data' = data
              /\ \/ program[t][called[t]].op = "delete" /\ data[node[t]] = Key(t)
                 \/ program[t][called[t]].op = "delete_first"

LEMMA StepKinds ==
  ASSUME IInv, CallInv, NEW t \in Threads, Step(t), pc'[t] # "killed"
  PROVE  /\ \/ Stays(t)
            \/ Call(t) /\ linked' = linked
            \/ linked' = linked /\ Ends(t, "fail")
            \/ Adds(t) /\ Ends(t, "ok")
            \/ Drops(t) /\ Ends(t, "ok")
         /\ pc'[t] = "idle" => ret'[t] # "none"
<1>. USE DEF Goto, Return, memory, locals, ghosts, Pending, Result, Freeing, Stays, Ends
<1>0. /\ TypeOK /\ Knows(t) /\ CallMatches(t) /\ Found(t)
      /\ linked \subseteq Cells /\ linked \subseteq Entered
  BY StampFacts DEF IInv, CallInv, Shape
<1>p. pc[t] \notin {"idle", "killed"} /\ ~Freeing(t) => Pending(t) # NULL
  BY CallView
<1>1. CASE Call(t)
  <2>1. pc'[t] \in {"insert", "delete", "delete_first"}
    BY <1>0, <1>1, CallFacts DEF Call, TypeOK, Calls
  <2>. QED BY <1>0, <1>1, <2>1 DEF Call, TypeOK
<1>2. CASE Insert(t)
  <2>1. CASE InsertNoMemory(t)
    BY <1>0, <1>p, <2>1 DEF InsertNoMemory, TypeOK
  <2>2. CASE InsertAlloc(t) \/ InsertRead(t) \/ InsertSetNext(t) \/ InsertSetData(t)
    BY <1>0, <2>2 DEF InsertAlloc, InsertRead, InsertSetNext, InsertSetData, TypeOK
  <2>3. CASE InsertCas(t)
    <3>1. /\ Inserting(t) /\ node[t] \in Cells \ Entered /\ data[node[t]] = Key(t)
          /\ program[t][called[t]].op = "insert"
      BY <1>0, <2>3 DEF InsertCas, Inserting, Knows, Private, CallMatches
    <3>. QED BY <1>0, <1>p, <2>3, <3>1 DEF InsertCas, TypeOK, Adds
  <2>. QED BY <1>2, <2>1, <2>2, <2>3 DEF Insert
<1>3. ASSUME NEW from, NEW unmark, NEW free, Unlink(t, from, unmark, free),
             \/ from = "delete_unlink" /\ unmark = "delete_unmark" /\ free = "delete_free"
             \/ from = "first_unlink" /\ unmark = "first_unmark" /\ free = "first_data"
      PROVE  (Stays(t) \/ (Drops(t) /\ Ends(t, "ok"))) /\ pc'[t] # "idle"
  <2>1. /\ node[t] \in linked \ {HEAD} /\ pc[t] = from /\ Pending(t) # NULL
        /\ \/ program[t][called[t]].op = "delete" /\ data[node[t]] = Key(t)
           \/ program[t][called[t]].op = "delete_first"
    BY <1>0, <1>p, <1>3 DEF Unlink, Knows, Holding, CallMatches, Deleting, Seeking, TakingFirst,
       Found
  <2>. QED BY <1>0, <1>3, <2>1 DEF Unlink, TypeOK, Drops
<1>4. CASE Delete(t)
  <2>1. CASE SearchStart(t) \/ SearchAdvance(t)
    BY <1>0, <1>p, <2>1 DEF SearchStart, SearchAdvance, Visit, TypeOK
  <2>2. CASE SearchCompare(t) \/ SearchCheckLeft(t) \/ SearchCheckNode(t) \/ SearchCheckAdjacent(t)
    BY <1>0, <2>2 DEF SearchCompare, SearchCheckLeft, SearchCheckNode, SearchCheckAdjacent, Check,
         TypeOK
  <2>3. CASE DeleteReadNext(t) \/ DeleteMark(t) \/ DeleteUnmark(t)
    BY <1>0, <2>3 DEF DeleteReadNext, ReadNext, DeleteMark, Mark, DeleteUnmark, Unmark, TypeOK
  <2>4. CASE DeleteUnlink(t)
    BY <1>3, <2>4 DEF DeleteUnlink
  <2>5. CASE DeleteFree(t)
    BY <1>0, <2>5 DEF DeleteFree, Free, TypeOK
  <2>. QED BY <1>4, <2>1, <2>2, <2>3, <2>4, <2>5 DEF Delete, Search
<1>5. CASE DeleteFirst(t)
  <2>1. CASE FirstRead(t)
    BY <1>0, <1>p, <2>1 DEF FirstRead, TypeOK
  <2>2. CASE FirstReadNext(t) \/ FirstMark(t) \/ FirstUnmark(t)
    BY <1>0, <2>2 DEF FirstReadNext, ReadNext, FirstMark, Mark, FirstUnmark, Unmark, TypeOK
  <2>3. CASE FirstUnlink(t)
    BY <1>3, <2>3 DEF FirstUnlink
  <2>4. CASE FirstData(t) \/ FirstFree(t)
    BY <1>0, <2>4 DEF FirstData, FirstFree, Free, TypeOK
  <2>. QED BY <1>5, <2>1, <2>2, <2>3, <2>4 DEF DeleteFirst
<1>. QED BY <1>1, <1>2, <1>4, <1>5 DEF Step

(* There are finitely many calls.                                          *)
LEMMA ThreadsFinite == IsFiniteSet(Threads)
<1>1. WORKERS \in [1..Len(WORKERS) -> Workers] /\ Len(WORKERS) \in Nat
  BY WorkersAssumption DEF Workers
<1>2. WORKERS \in Surjection(1..Len(WORKERS), Workers)
  BY <1>1, Fun_IsSurj DEF Workers
<1>3. IsFiniteSet(Workers)
  BY <1>1, <1>2, FS_Interval, FS_Surjection
<1>. QED BY <1>3, TestThreads, FS_AddElement

LEMMA CallsFacts ==
  ASSUME TypeOK, NEW kinds
  PROVE  /\ IsFiniteSet(CallsOf(kinds))
         /\ \A c \in CallsOf(kinds) : /\ c[1] \in Threads /\ c[2] \in 1..Len(program[c[1]])
                                    /\ program[c[1]][c[2]] \in kinds /\ c = <<c[1], c[2]>>
         /\ \A t \in Threads : \A i \in 1..Len(program[t]) :
              <<t, i>> \in CallsOf(kinds) <=> program[t][i] \in kinds
<1> DEFINE Of(t) == {<<t, i>> : i \in {j \in 1..Len(program[t]) : program[t][j] \in kinds}}
           family == {Of(t) : t \in Threads}
<1>1. CallsOf(kinds) = UNION family
  BY DEF CallsOf, CallsIn
<1>2. ASSUME NEW t \in Threads PROVE IsFiniteSet(Of(t))
  <2> DEFINE g == [c \in Of(t) |-> c[2]]
  <2>1. g \in [Of(t) -> 1..Len(program[t])] /\ \A c, d \in Of(t) : g[c] = g[d] => c = d
    OBVIOUS
  <2>2. g \in Injection(Of(t), 1..Len(program[t]))
    BY <2>1, Fun_IsInj
  <2>3. Len(program[t]) \in Nat
    BY DEF TypeOK
  <2>4. IsFiniteSet(1..Len(program[t]))
    BY <2>3, FS_Interval
  <2> HIDE DEF g, Of
  <2>. QED BY <2>2, <2>4, FS_Injection
<1>3. IsFiniteSet(family)
  <2> DEFINE f == [t \in Threads |-> Of(t)]
  <2>1. f \in [Threads -> family] /\ \A T \in family : \E t \in Threads : f[t] = T
    OBVIOUS
  <2>2. f \in Surjection(Threads, family)
    BY <2>1, Fun_IsSurj
  <2> HIDE DEF f, family
  <2>. QED BY <2>2, ThreadsFinite, FS_Surjection
<1>4. IsFiniteSet(UNION family)
  <2>1. \A T \in family : IsFiniteSet(T)
    BY <1>2
  <2> HIDE DEF family
  <2>. QED BY <1>3, <2>1, FS_UNION
<1>5. \A c \in CallsOf(kinds) : /\ c[1] \in Threads /\ c[2] \in 1..Len(program[c[1]])
                              /\ program[c[1]][c[2]] \in kinds /\ c = <<c[1], c[2]>>
  BY <1>1
<1>6. ASSUME NEW t \in Threads, NEW i \in 1..Len(program[t])
      PROVE  <<t, i>> \in CallsOf(kinds) <=> program[t][i] \in kinds
  <2>1. ASSUME program[t][i] \in kinds PROVE <<t, i>> \in CallsOf(kinds)
    <3>1. <<t, i>> \in Of(t)
      BY <2>1
    <3>. QED BY <1>1, <3>1
  <2>2. ASSUME <<t, i>> \in CallsOf(kinds) PROVE program[t][i] \in kinds
    <3> DEFINE c == <<t, i>>
    <3>1. c[1] = t /\ c[2] = i
      OBVIOUS
    <3> HIDE DEF c
    <3>. QED BY <1>5, <2>2, <3>1 DEF c
  <2>. QED BY <2>1, <2>2
<1>. QED BY <1>1, <1>4, <1>5, <1>6

LEMMA EffectiveSame ==
  ASSUME TypeOK, program' = program, NEW kinds,
         \A u \in Threads : \A i \in 1..Len(program[u]) : Took(u, i)' <=> Took(u, i)
  PROVE  Effective(kinds)' = Effective(kinds)
<1>1. CallsOf(kinds)' = CallsOf(kinds)
  BY DEF CallsOf, CallsIn
<1>2. \A c \in CallsOf(kinds) : Took(c[1], c[2])' <=> Took(c[1], c[2])
  BY CallsFacts
<1>3. Effective(kinds)' = {c \in CallsOf(kinds)' : Took(c[1], c[2])'}
  BY DEF Effective
<1> HIDE DEF Took
<1>. QED BY <1>1, <1>2, <1>3 DEF Effective

LEMMA EffectiveMore ==
  ASSUME TypeOK, program' = program, NEW kinds, NEW t \in Threads, NEW k \in 1..Len(program[t]),
         ~Took(t, k),
         \A u \in Threads : \A i \in 1..Len(program[u]) :
            Took(u, i)' <=> Took(u, i) \/ (u = t /\ i = k)
  PROVE  /\ <<t, k>> \notin Effective(kinds)
         /\ Effective(kinds)' = IF program[t][k] \in kinds THEN Effective(kinds) \cup {<<t, k>>}
                                                          ELSE Effective(kinds)
<1> DEFINE e == <<t, k>>
<1>0. e[1] = t /\ e[2] = k
  OBVIOUS
<1> HIDE DEF e, Took
<1>1. CallsOf(kinds)' = CallsOf(kinds)
  BY DEF CallsOf, CallsIn
<1>2. \A c \in CallsOf(kinds) : Took(c[1], c[2])' <=> Took(c[1], c[2]) \/ c = e
  <2>1. \A c \in CallsOf(kinds) : c[1] \in Threads /\ c[2] \in 1..Len(program[c[1]]) /\ c = <<c[1], c[2]>>
    BY CallsFacts
  <2>2. \A c \in CallsOf(kinds) : c[1] = t /\ c[2] = k <=> c = e
    BY <1>0, <2>1 DEF e
  <2>. QED BY <2>1, <2>2
<1>3. e \in CallsOf(kinds) <=> program[t][k] \in kinds
  BY CallsFacts DEF e
<1>4. Effective(kinds)' = {c \in CallsOf(kinds)' : Took(c[1], c[2])'}
  BY DEF Effective
<1>5. e \notin Effective(kinds)
  BY <1>0 DEF Effective
<1>6. Effective(kinds)' = {c \in CallsOf(kinds) : Took(c[1], c[2]) \/ c = e}
  BY <1>1, <1>2, <1>4
<1>7. ASSUME program[t][k] \in kinds PROVE Effective(kinds)' = Effective(kinds) \cup {e}
  BY <1>3, <1>6, <1>7 DEF Effective
<1>8. ASSUME program[t][k] \notin kinds PROVE Effective(kinds)' = Effective(kinds)
  BY <1>3, <1>6, <1>8 DEF Effective
<1>. QED BY <1>5, <1>7, <1>8 DEF e

LEMMA EffectiveFinite ==
  ASSUME TypeOK, NEW kinds
  PROVE  IsFiniteSet(Effective(kinds)) /\ Cardinality(Effective(kinds)) \in Nat
<1>1. IsFiniteSet(CallsOf(kinds)) /\ Effective(kinds) \in SUBSET CallsOf(kinds)
  BY CallsFacts DEF Effective
<1>. QED BY <1>1, FS_Subset, FS_CardinalityType

(* An operation that takes effect: one more of its kind has.               *)
LEMMA TakingEffect ==
  ASSUME IInv, WayInv', NEW t \in Threads, Step(t), Ends(t, "ok"), NEW kinds
  PROVE  /\ program[t][called[t]] \in kinds =>
              Cardinality(Effective(kinds))' = Cardinality(Effective(kinds)) + 1
         /\ program[t][called[t]] \notin kinds =>
              Cardinality(Effective(kinds))' = Cardinality(Effective(kinds))
<1> DEFINE k == called[t]
<1>1. TypeOK /\ program' = program /\ called \in [Threads -> Nat] /\ called' = called
  BY ProgramsFixed DEF IInv, TypeOK, Ends
<1>2. k \in 1..Len(program[t])
  <2>1. pc[t] # "idle"
    BY DEF Ends, Pending
  <2>2. pc[t] # "killed"
    BY Killing
  <2>. QED BY <1>1, <2>1, <2>2 DEF TypeOK
<1>3. ~Took(t, k)
  BY <1>1 DEF Took, Ends
<1>4. ASSUME NEW u \in Threads, NEW i \in 1..Len(program[u])
      PROVE  Took(u, i)' <=> Took(u, i) \/ (u = t /\ i = k)
  <2>1. CASE u = t
    BY <1>1, <1>3, <2>1 DEF Took, Ends
  <2>2. CASE u # t
    BY <1>1, <2>2, OthersView DEF Took
  <2>. QED BY <2>1, <2>2
<1>5. /\ <<t, k>> \notin Effective(kinds)
      /\ Effective(kinds)' = IF program[t][k] \in kinds THEN Effective(kinds) \cup {<<t, k>>}
                                                       ELSE Effective(kinds)
  <2> HIDE DEF k, Took
  <2>. QED BY <1>1, <1>2, <1>3, <1>4, EffectiveMore
<1>6. IsFiniteSet(Effective(kinds))
  BY <1>1, EffectiveFinite
<1>7. Cardinality(Effective(kinds))' = Cardinality(Effective(kinds)')
  OBVIOUS
<1>8. CASE program[t][k] \in kinds
  <2>1. Effective(kinds)' = Effective(kinds) \cup {<<t, k>>}
    BY <1>5, <1>8
  <2>2. Cardinality(Effective(kinds) \cup {<<t, k>>}) = Cardinality(Effective(kinds)) + 1
    <3> HIDE DEF k
    <3>. QED BY <1>5, <1>6, FS_AddElement
  <2>. QED BY <1>7, <1>8, <2>1, <2>2
<1>9. CASE program[t][k] \notin kinds
  <2>1. Effective(kinds)' = Effective(kinds)
    BY <1>5, <1>9
  <2>. QED BY <1>9, <2>1
<1>. QED BY <1>8, <1>9

LEMMA NoEffect ==
  ASSUME IInv, WayInv', NEW t \in Threads, Step(t), NEW kinds,
         \A i \in 1..Len(program[t]) : Took(t, i)' <=> Took(t, i)
  PROVE  Cardinality(Effective(kinds))' = Cardinality(Effective(kinds))
<1>1. TypeOK /\ program' = program
  BY ProgramsFixed DEF IInv
<1>2. ASSUME NEW u \in Threads, NEW i \in 1..Len(program[u]) PROVE Took(u, i)' <=> Took(u, i)
  <2>1. CASE u = t
    BY <2>1
  <2>2. CASE u # t
    BY <2>2, OthersView, OthersCalls DEF Took
  <2>. QED BY <2>1, <2>2
<1>3. Effective(kinds)' = Effective(kinds)
  <2> HIDE DEF Took
  <2>. QED BY <1>1, <1>2, EffectiveSame
<1>. QED BY <1>3

(* A call of delete_first, whatever its key.                               *)
LEMMA FirstKind == ASSUME NEW c \in Calls PROVE c \in Firsts <=> c.op = "delete_first"
<1>1. c = [op |-> c.op, key |-> c.key] /\ c.key \in Keys
  BY DEF Calls
<1>2. c \in Firsts => c.op = "delete_first"
  BY DEF Firsts
<1>3. c.op = "delete_first" => c \in Firsts
  BY <1>1 DEF Firsts
<1>. QED BY <1>2, <1>3

LEMMA KindFacts ==
  ASSUME NEW K \in SUBSET Keys, NEW c \in Calls
  PROVE  /\ c \in Insertions(K) <=> c.op = "insert" /\ c.key \in K
         /\ c \in Removals(K) <=> c.op \in {"delete", "delete_first"} /\ c.key \in K
<1>1. c = [op |-> c.op, key |-> c.key] /\ c.op \in {"insert", "delete", "delete_first"} /\ c.key \in Keys
  BY DEF Calls
<1>2. c \in Insertions(K) => c.op = "insert" /\ c.key \in K
  BY DEF Insertions
<1>3. c.op = "insert" /\ c.key \in K => c \in Insertions(K)
  BY <1>1 DEF Insertions
<1>4. c \in Removals(K) => c.op \in {"delete", "delete_first"} /\ c.key \in K
  BY DEF Removals
<1>5. c.op \in {"delete", "delete_first"} /\ c.key \in K => c \in Removals(K)
  BY <1>1 DEF Removals
<1>. QED BY <1>2, <1>3, <1>4, <1>5

LEMMA HeldFinite ==
  ASSUME IInv, NEW K
  PROVE  IsFiniteSet(Held(K)) /\ Cardinality(Held(K)) \in Nat
<1>1. IsFiniteSet(Inner) /\ Held(K) \in SUBSET Inner
  BY InnerRanked DEF Ranked, Held
<1>. QED BY <1>1, FS_Subset, FS_CardinalityType

(* How the nodes held with keys in K change.                               *)
LEMMA HeldSame ==
  ASSUME linked' = linked, \A n \in linked : data'[n] = data[n], NEW K
  PROVE  Cardinality(Held(K))' = Cardinality(Held(K)) /\ (Keyed => Keyed')
<1>1. Inner' = Inner /\ Inner \subseteq linked
  BY DEF Inner
<1>2. Held(K)' = {n \in Inner' : data'[n] \in K}
  BY DEF Held
<1>3. Held(K)' = Held(K)
  BY <1>1, <1>2 DEF Held
<1>. QED BY <1>1, <1>3 DEF Keyed

LEMMA HeldMore ==
  ASSUME IInv, NEW t \in Threads, Adds(t), NEW K
  PROVE  /\ Key(t) \in K => Cardinality(Held(K))' = Cardinality(Held(K)) + 1
         /\ Key(t) \notin K => Cardinality(Held(K))' = Cardinality(Held(K))
         /\ Keyed /\ Key(t) \in Keys => Keyed'
<1>1. node[t] \notin Inner /\ node[t] # HEAD /\ node[t] # TAIL
  BY StampFacts DEF Adds, Inner, IInv, Shape
<1>2. Inner' = Inner \cup {node[t]} /\ data' = data /\ data[node[t]] = Key(t)
  BY <1>1 DEF Adds, Inner
<1>3. Held(K)' = {n \in Inner' : data'[n] \in K} /\ node[t] \notin Held(K)
  BY <1>1 DEF Held
<1>4. Cardinality(Held(K))' = Cardinality(Held(K)')
  OBVIOUS
<1>5. ASSUME Key(t) \in K PROVE Cardinality(Held(K))' = Cardinality(Held(K)) + 1
  <2>1. Held(K)' = Held(K) \cup {node[t]}
    BY <1>2, <1>3, <1>5 DEF Held
  <2>. QED BY <1>3, <1>4, <2>1, HeldFinite, FS_AddElement
<1>6. ASSUME Key(t) \notin K PROVE Cardinality(Held(K))' = Cardinality(Held(K))
  <2>1. Held(K)' = Held(K)
    BY <1>2, <1>3, <1>6 DEF Held
  <2>. QED BY <2>1
<1>. QED BY <1>2, <1>5, <1>6 DEF Keyed

LEMMA HeldLess ==
  ASSUME IInv, NEW t \in Threads, Drops(t), TAIL \in linked', NEW K
  PROVE  /\ node[t] \in Inner
         /\ data[node[t]] \in K => Cardinality(Held(K))' = Cardinality(Held(K)) - 1
         /\ data[node[t]] \notin K => Cardinality(Held(K))' = Cardinality(Held(K))
         /\ Keyed => Keyed'
<1>1. node[t] \in Inner /\ Inner' = Inner \ {node[t]} /\ data' = data
  BY DEF Drops, Inner
<1>2. Held(K)' = {n \in Inner' : data'[n] \in K}
  BY DEF Held
<1>3. Cardinality(Held(K))' = Cardinality(Held(K)')
  OBVIOUS
<1>4. ASSUME data[node[t]] \in K PROVE Cardinality(Held(K))' = Cardinality(Held(K)) - 1
  <2>1. Held(K)' = Held(K) \ {node[t]} /\ node[t] \in Held(K)
    BY <1>1, <1>2, <1>4 DEF Held
  <2>. QED BY <1>3, <2>1, HeldFinite, FS_RemoveElement
<1>5. ASSUME data[node[t]] \notin K PROVE Cardinality(Held(K))' = Cardinality(Held(K))
  <2>1. Held(K)' = Held(K)
    BY <1>1, <1>2, <1>5 DEF Held
  <2>. QED BY <2>1
<1>. QED BY <1>1, <1>4, <1>5 DEF Keyed

(* A thread whose next call is made has seen its last one succeed.         *)
LEMMA CountStep ==
  ASSUME IInv, CallInv, WayInv', TAIL \in linked', CountInv, Returned, Keyed,
         NEW t \in Threads, Step(t), ~Stopped(t)
  PROVE  CountInv' /\ Returned' /\ Keyed'
<1>0. TypeOK /\ pc'[t] # "killed" /\ program' = program
  BY ProgramsFixed DEF IInv, WayInv, OnTheWay
<1>1. /\ \/ Stays(t)
         \/ Call(t) /\ linked' = linked
         \/ linked' = linked /\ Ends(t, "fail")
         \/ Adds(t) /\ Ends(t, "ok")
         \/ Drops(t) /\ Ends(t, "ok")
      /\ pc'[t] = "idle" => ret'[t] # "none"
  BY <1>0, StepKinds
<1>2. Returned'
  <2>1. \A u \in Threads \ {t} : pc'[u] = pc[u] /\ called'[u] = called[u] /\ ret'[u] = ret[u]
    <3>1. \A u \in Threads \ {t} : Same(u)
      BY <1>0, Others DEF IInv
    <3>. QED BY <3>1, OthersCalls DEF Same
  <2>. QED BY <1>1, <2>1 DEF Returned
<1>3. SUFFICES ASSUME NEW K \in SUBSET Keys, Countable(K) PROVE Counted(K)' /\ Keyed'
  <2>1. (CountInv <=> \A K \in SUBSET Keys : Countable(K) => Counted(K))'
    BY DEF CountInv
  <2>2. \A K \in SUBSET Keys : Countable(K)' => Countable(K)
    BY <1>0 DEF Countable, CallsOf, CallsIn
  <2>3. Keys \in SUBSET Keys /\ Countable(Keys)
    BY DEF Countable
  <2>. QED BY <1>2, <2>1, <2>2, <2>3
<1>4. /\ Counted(K) /\ Cardinality(Held(K)) \in Nat
      /\ Cardinality(Effective(Removals(K))) \in Nat /\ Cardinality(Effective(Insertions(K))) \in Nat
  BY <1>0, <1>3, EffectiveFinite, HeldFinite DEF CountInv
<1>5. ASSUME linked' = linked,
             \A i \in 1..Len(program[t]) : Took(t, i)' <=> Took(t, i)
      PROVE  Counted(K)' /\ Keyed'
  <2>1. \A n \in linked : data'[n] = data[n]
    BY <1>5, ListedData
  <2>2. Cardinality(Held(K))' = Cardinality(Held(K)) /\ Keyed'
    BY <1>5, <2>1, HeldSame
  <2>3. /\ Cardinality(Effective(Removals(K)))' = Cardinality(Effective(Removals(K)))
        /\ Cardinality(Effective(Insertions(K)))' = Cardinality(Effective(Insertions(K)))
    <3> HIDE DEF Took
    <3>. QED BY <1>5, NoEffect
  <2>. QED BY <1>4, <2>2, <2>3 DEF Counted
<1>6. CASE Stays(t)
  <2>1. \A i \in 1..Len(program[t]) : Took(t, i)' <=> Took(t, i)
    BY <1>6 DEF Took, Stays
  <2>. QED BY <1>5, <1>6, <2>1 DEF Stays
<1>7. CASE Call(t) /\ linked' = linked
  <2>1. /\ pc[t] = "idle" /\ called'[t] = called[t] + 1 /\ pc'[t] \in {"insert", "delete", "delete_first"}
        /\ called[t] \in Nat /\ program[t][called[t] + 1] # NULL /\ called[t] < Len(program[t])
    <3>1. /\ pc[t] = "idle" /\ called[t] < Len(program[t]) /\ called' = [called EXCEPT ![t] = @ + 1]
          /\ pc' = [pc EXCEPT ![t] = program[t][called[t] + 1].op]
      BY <1>7 DEF Call, Goto
    <3>2. program[t][called[t] + 1] \in Calls
      BY <1>0, <3>1, CallFacts
    <3>3. program[t][called[t] + 1] # NULL
      BY <3>2, CallsAssumption
    <3>4. program[t][called[t] + 1].op \in {"insert", "delete", "delete_first"}
      BY <3>2 DEF Calls
    <3>5. called \in [Threads -> Nat] /\ pc \in [Threads -> Labels]
      BY <1>0 DEF TypeOK
    <3>. QED BY <3>1, <3>3, <3>4, <3>5
  <2>2. called[t] > 0 => ret[t] = "ok"
    BY <1>0, <2>1 DEF Returned, Stopped, TypeOK
  <2>3. Pending(t) = NULL /\ Result(t) = ret[t] /\ Pending(t)' # NULL
    BY <1>0, <2>1 DEF Pending, Result, Freeing
  <2>4. \A i \in 1..Len(program[t]) : Took(t, i)' <=> Took(t, i)
    BY <2>1, <2>2, <2>3 DEF Took
  <2>. QED BY <1>5, <1>7, <2>4
<1>8. CASE linked' = linked /\ Ends(t, "fail")
  <2>1. \A i \in 1..Len(program[t]) : Took(t, i)' <=> Took(t, i)
    BY <1>8 DEF Took, Ends
  <2>. QED BY <1>5, <1>8, <2>1
<1>9. ASSUME Ends(t, "ok")
      PROVE  /\ called[t] \in 1..Len(program[t]) /\ program[t][called[t]] \in Calls
             /\ program[t][called[t]].key = Key(t) /\ Key(t) \in Keys
  <2>1. pc[t] \notin {"idle", "killed"}
    BY <1>9, Killing DEF Ends, Pending
  <2>. QED BY <1>0, <2>1, CallView DEF TypeOK
<1>10. CASE Adds(t) /\ Ends(t, "ok")
  <2>1. /\ program[t][called[t]] \in Insertions(K) <=> Key(t) \in K
        /\ program[t][called[t]] \notin Removals(K)
    BY <1>9, <1>10, KindFacts DEF Adds
  <2>2. /\ Cardinality(Effective(Removals(K)))' = Cardinality(Effective(Removals(K)))
        /\ Key(t) \in K => Cardinality(Effective(Insertions(K)))' = Cardinality(Effective(Insertions(K))) + 1
        /\ Key(t) \notin K => Cardinality(Effective(Insertions(K)))' = Cardinality(Effective(Insertions(K)))
    BY <1>10, <2>1, TakingEffect
  <2>3. /\ Key(t) \in K => Cardinality(Held(K))' = Cardinality(Held(K)) + 1
        /\ Key(t) \notin K => Cardinality(Held(K))' = Cardinality(Held(K))
        /\ Keyed'
    BY <1>9, <1>10, HeldMore
  <2>. QED BY <1>4, <2>2, <2>3 DEF Counted
<1>11. CASE Drops(t) /\ Ends(t, "ok")
  <2>1. node[t] \in Inner /\ data[node[t]] \in Keys /\ Keyed'
    BY <1>11, HeldLess DEF Keyed
  <2>2. /\ program[t][called[t]] \notin Insertions(K)
        /\ program[t][called[t]] \in Removals(K) <=> data[node[t]] \in K
    <3>1. CASE program[t][called[t]].op = "delete" /\ data[node[t]] = Key(t)
      BY <1>9, <1>11, <3>1, KindFacts
    <3>2. CASE program[t][called[t]].op = "delete_first"
      <4>1. program[t][called[t]] \in Firsts
        BY <1>9, <1>11, <3>2, FirstKind
      <4>2. <<t, called[t]>> \in CallsOf(Firsts)
        BY <1>0, <1>9, <1>11, <4>1, CallsFacts
      <4>3. K = Keys
        BY <1>3, <4>2 DEF Countable
      <4>. QED BY <1>9, <1>11, <2>1, <3>2, <4>3, KindFacts
    <3>. QED BY <1>11, <3>1, <3>2 DEF Drops
  <2>3. /\ Cardinality(Effective(Insertions(K)))' = Cardinality(Effective(Insertions(K)))
        /\ data[node[t]] \in K => Cardinality(Effective(Removals(K)))' = Cardinality(Effective(Removals(K))) + 1
        /\ data[node[t]] \notin K => Cardinality(Effective(Removals(K)))' = Cardinality(Effective(Removals(K)))
    BY <1>11, <2>2, TakingEffect
  <2>4. /\ data[node[t]] \in K => Cardinality(Held(K))' = Cardinality(Held(K)) - 1
        /\ data[node[t]] \notin K => Cardinality(Held(K))' = Cardinality(Held(K))
    BY <1>11, HeldLess
  <2>. QED BY <1>4, <2>1, <2>3, <2>4 DEF Counted
<1>. QED BY <1>1, <1>6, <1>7, <1>8, <1>10, <1>11

-----------------------------------------------------------------------------
(* The invariant of the counting along the harness.                        *)
ClientInv ==
  /\ program \in Programs
  /\ phase = "init" => \A t \in Workers : called[t] = 0
  /\ verdict = "none" => /\ CallInv
                         /\ TAIL \in linked => WayInv /\ CountInv /\ Returned /\ Keyed

LEMMA ClientInit == TestInit => ClientInv
<1>. SUFFICES ASSUME TestInit PROVE ClientInv
  OBVIOUS
<1>1. Init /\ TypeOK /\ CallInv /\ WayInv
  BY CallInvInit, WayInvInit, TypeInit DEF TestInit
<1>2. Inner = {}
  BY <1>1 DEF Init, Inner
<1>3. ASSUME NEW K PROVE Counted(K)
  <2>1. Held(K) = {}
    BY <1>2 DEF Held
  <2>2. ASSUME NEW kinds PROVE Effective(kinds) = {}
    <3>1. \A c \in CallsOf(kinds) : c[1] \in Threads /\ c[2] \in Nat /\ c[2] > 0
      BY <1>1, CallsFacts DEF TypeOK
    <3>2. \A c \in CallsOf(kinds) : ~Took(c[1], c[2])
      BY <1>1, <3>1 DEF Init, Took
    <3>. QED BY <3>2 DEF Effective
  <2>. QED BY <2>1, <2>2, FS_EmptySet DEF Counted
<1>4. program \in Programs /\ \A t \in Threads : called[t] = 0
  BY <1>1 DEF Init
<1>. QED BY <1>1, <1>2, <1>3, <1>4, TestThreads DEF ClientInv, CountInv, Returned, Keyed

LEMMA ClientNext ==
  ASSUME Reuse = FALSE, HarnessInv, ClientInv, [TestNext]_testVars
  PROVE  ClientInv'
<1>1. ASSUME NEW t \in Threads, Runs(t) PROVE ClientInv'
  <2>1. /\ IInv /\ Step(t) /\ ~Stopped(t) /\ verdict = "none" /\ CallInv
        /\ phase' = phase /\ (phase = "init" => t = MAIN)
    BY <1>1, RunsKeeps DEF Runs, harness, ClientInv
  <2>2. program' = program /\ (phase = "init" => \A u \in Workers : called'[u] = called[u])
    BY <2>1, OthersCalls, ProgramsFixed, TestThreads
  <2>3. CallInv'
    BY <2>1, CallInvStep
  <2>4. ASSUME TAIL \in linked' PROVE WayInv' /\ CountInv' /\ Returned' /\ Keyed'
    <3>1. TAIL \in linked
      BY <2>1, <2>4, TailStaysOut DEF Next
    <3>2. WayInv'
      BY <2>1, <3>1, WayInvStep DEF ClientInv
    <3>. QED BY <2>1, <2>4, <3>1, <3>2, CountStep DEF ClientInv
  <2>. QED BY <2>1, <2>2, <2>3, <2>4 DEF ClientInv
<1>2. CASE Manages
  <2>1. /\ UNCHANGED vars
        /\ phase' = "init" => phase = "init"
        /\ verdict' = "none" => verdict = "none"
    BY <1>2 DEF Manages, InitFails, InitSucceeds, CreateThread, CreateFails, Abandon, Join,
         VerifyNode, VerifyDone, harness, Creating
  <2>2. CallInv' = CallInv /\ WayInv' = WayInv
    BY <2>1 DEF vars, CallInv, CallMatches, FirstAtHead, Found, Deleting, Seeking, TakingFirst,
       Inserting, Key, WayInv, OnTheWay
  <2>3. Inner' = Inner /\ data' = data /\ program' = program /\ called' = called /\ pc' = pc
        /\ ret' = ret /\ linked' = linked
    BY <2>1 DEF vars, Inner
  <2>4. CountInv' = CountInv
    BY <2>3 DEF CountInv, Countable, Counted, Held, Effective, CallsOf, CallsIn, Took, Pending,
       Result, Freeing
  <2>5. Returned' = Returned /\ Keyed' = Keyed
    BY <2>3 DEF Returned, Keyed
  <2>. QED BY <2>1, <2>2, <2>3, <2>4, <2>5 DEF ClientInv
<1>3. CASE Frees
  <2>1. /\ phase' # "init" /\ verdict' # "none" /\ program' = program
    BY <1>3, FreesKeeps DEF HarnessInv, Judged
  <2>. QED BY <2>1 DEF ClientInv
<1>. QED BY <1>1, <1>2, <1>3, TestSteps

LEMMA ClientHolds == ASSUME Reuse = FALSE PROVE TestSpec => [](HarnessInv /\ ClientInv)
<1>1. HarnessInv /\ ClientInv /\ [TestNext]_testVars => ClientInv'
  BY ClientNext
<1>. QED BY <1>1, ClientInit, HarnessHolds, PTL DEF TestSpec

(* A call whose predecessor of the same thread succeeded has taken effect. *)
LEMMA TookIdle ==
  ASSUME TypeOK, Returned, NEW t \in Threads, pc[t] = "idle", ret[t] # "fail",
         NEW i \in Nat \ {0}, i <= called[t]
  PROVE  Took(t, i)
<1>1. Pending(t) = NULL /\ Result(t) = ret[t] /\ called[t] \in Nat
  BY DEF Pending, Result, Freeing, TypeOK
<1>2. ret[t] = "ok"
  BY <1>1 DEF TypeOK, Returned
<1>. QED BY <1>1, <1>2 DEF Took

(* A removal that is under way, or about to be called, finds the list with *)
(* a node for it: its insertion and those of the removals before it have   *)
(* taken effect.                                                           *)
LEMMA Supplied ==
  ASSUME HarnessInv, ClientInv, verdict = "none", phase # "exit", TAIL \in linked,
         NEW K \in SUBSET Keys, Countable(K), Paired(program, K),
         NEW t \in Threads, NEW i \in 1..Len(program[t]), program[t][i] \in Removals(K),
         ~Took(t, i),
         \/ i = called[t]
         \/ i = called[t] + 1 /\ pc[t] = "idle" /\ ret[t] # "fail",
         phase = "init" => t = MAIN
  PROVE  Held(K) # {}
<1> DEFINE c == <<t, i>>
           R == Effective(Removals(K)) \cup {c}
<1>0. /\ IInv /\ TypeOK /\ WayInv /\ CountInv /\ Returned
      /\ c[1] = t /\ c[2] = i /\ called \in [Threads -> Nat] /\ i \in Nat \ {0}
  BY DEF HarnessInv, Judged, ClientInv, IInv, TypeOK
<1>1. /\ c \in CallsOf(Removals(K)) /\ c \notin Effective(Removals(K))
      /\ R \subseteq CallsOf(Removals(K))
  BY <1>0, CallsFacts DEF Effective
<1>2. ASSUME NEW d \in R, NEW e \in CallsOf(Insertions(K)), Before(e, d) PROVE Took(e[1], e[2])
  <2>1. /\ d[1] \in Threads /\ d[2] \in Nat \ {0}
        /\ e[1] \in Threads /\ e[2] \in 1..Len(program[e[1]]) /\ e[2] \in Nat \ {0}
    <3>1. d[1] \in Threads /\ d[2] \in 1..Len(program[d[1]])
      BY <1>0, <1>1, CallsFacts
    <3>2. e[1] \in Threads /\ e[2] \in 1..Len(program[e[1]])
      BY <1>0, CallsFacts
    <3>3. program \in [Threads -> Seq(Calls)]
      BY <1>0 DEF TypeOK
    <3>. QED BY <3>1, <3>2, <3>3
  <2>2. d[2] <= called[d[1]] \/ (d = c /\ i = called[t] + 1 /\ pc[t] = "idle" /\ ret[t] # "fail")
    BY <1>0, <2>1 DEF Effective, Took
  <2>3. CASE e[1] = d[1] /\ e[2] < d[2]
    <3>1. CASE d[2] <= called[d[1]]
      BY <1>0, <2>1, <2>3, <3>1 DEF Took
    <3>2. CASE d = c /\ i = called[t] + 1 /\ pc[t] = "idle" /\ ret[t] # "fail"
      <4>1. e[1] = t /\ e[2] <= called[t]
        BY <1>0, <2>1, <2>3, <3>2
      <4>. QED BY <1>0, <2>1, <3>2, <4>1, TookIdle
    <3>. QED BY <2>2, <3>1, <3>2
  <2>4. CASE e[1] = MAIN /\ d[1] # MAIN
    <3>1. phase # "init"
      <4>1. d = c \/ called[d[1]] > 0
        BY <1>0, <2>1, <2>2
      <4>. QED BY <1>0, <2>1, <2>4, <4>1, TestThreads DEF ClientInv
    <3>2. /\ called[MAIN] = Len(program[MAIN]) /\ ret[MAIN] # "fail" /\ pc[MAIN] = "idle"
      BY <1>0, <3>1, TestThreads DEF HarnessInv, MainAndWorkers, WayInv, OnTheWay
    <3>3. e[2] <= called[MAIN]
      BY <2>1, <2>4, <3>2
    <3>. QED BY <1>0, <2>1, <2>4, <3>2, <3>3, TookIdle
  <2>. QED BY <1>2, <2>3, <2>4 DEF Before
<1>3. PICK pair \in [CallsOf(Removals(K)) -> CallsOf(Insertions(K))] :
        /\ \A d, e \in CallsOf(Removals(K)) : d # e => pair[d] # pair[e]
        /\ \A d \in CallsOf(Removals(K)) : Before(pair[d], d)
  BY DEF Paired, CallsOf
<1> DEFINE g == [d \in R |-> pair[d]]
<1>4. g \in [R -> Effective(Insertions(K))] /\ \A d, e \in R : g[d] = g[e] => d = e
  <2>1. \A d \in R : pair[d] \in CallsOf(Insertions(K)) /\ Took(pair[d][1], pair[d][2])
    <3> HIDE DEF R, Took
    <3>. QED BY <1>1, <1>2, <1>3
  <2>2. \A d \in R : pair[d] \in Effective(Insertions(K))
    <3> HIDE DEF R, Took
    <3>. QED BY <2>1 DEF Effective
  <2> HIDE DEF R
  <2>. QED BY <1>1, <1>3, <2>2
<1>5. g \in Injection(R, Effective(Insertions(K)))
  <2> HIDE DEF g, R
  <2>. QED BY <1>4, Fun_IsInj
<1>6. /\ IsFiniteSet(Effective(Insertions(K))) /\ IsFiniteSet(Effective(Removals(K)))
      /\ Cardinality(Effective(Insertions(K))) \in Nat /\ Cardinality(Effective(Removals(K))) \in Nat
  BY <1>0, EffectiveFinite
<1>7. Cardinality(R) = Cardinality(Effective(Removals(K))) + 1
  <2> HIDE DEF c
  <2>. QED BY <1>1, <1>6, FS_AddElement
<1>8. Cardinality(R) <= Cardinality(Effective(Insertions(K)))
  <2> HIDE DEF g, R
  <2>. QED BY <1>5, <1>6, FS_Injection
<1>9. Cardinality(Held(K)) + Cardinality(Effective(Removals(K))) = Cardinality(Effective(Insertions(K)))
  BY <1>0 DEF CountInv, Counted
<1>10. Cardinality(Held(K)) \in Nat
  BY <1>0, HeldFinite
<1>11. Cardinality(Held(K)) # 0
  <2> HIDE DEF R
  <2>. QED BY <1>6, <1>7, <1>8, <1>9, <1>10
<1>12. Cardinality({}) = 0
  BY FS_EmptySet
<1>. QED BY <1>11, <1>12

-----------------------------------------------------------------------------
(* The tests never lose the tail sentinel, whatever the number of threads  *)
(* and calls: no delete_first of a balanced program meets an empty list.   *)
LEMMA SentinelKept ==
  ASSUME Reuse = FALSE, Balanced, HarnessInv, ClientInv, TAIL \in linked, [TestNext]_testVars
  PROVE  TAIL \in linked'
<1>1. ASSUME NEW t \in Threads, Runs(t), TAIL \notin linked' PROVE FALSE
  <2>1. /\ IInv /\ Step(t) /\ verdict = "none" /\ phase # "exit" /\ (phase = "init" => t = MAIN)
        /\ CallInv /\ WayInv /\ TypeOK
    BY <1>1, RunsKeeps DEF Runs, ClientInv, IInv
  <2>2. pc[t] = "first_unlink" /\ next[HEAD].ref = TAIL
    BY <1>1, <2>1, TailLeaves
  <2>3. Held(Keys) = {}
    BY <2>1, <2>2, HeadMeetsTail DEF Held, Inner
  <2>4. /\ called[t] \in 1..Len(program[t]) /\ program[t][called[t]] \in Calls
        /\ program[t][called[t]].op = "delete_first" /\ Pending(t) # NULL
    <3>1. pc[t] \notin {"idle", "killed"} /\ ~Freeing(t) /\ TakingFirst(t)
      BY <2>2 DEF Freeing, TakingFirst
    <3>2. called[t] \in 1..Len(program[t]) /\ program[t][called[t]].op = "delete_first"
      BY <2>1, <3>1 DEF CallInv, CallMatches, TypeOK
    <3>. QED BY <2>1, <3>1, <3>2, CallView
  <2>5. program[t][called[t]] \in Removals(Keys)
    BY <2>4, KindFacts DEF Calls
  <2>6. ~Took(t, called[t])
    BY <2>1, <2>4 DEF Took, TypeOK
  <2>7. Countable(Keys) /\ Paired(program, Keys)
    BY DEF Countable, Balanced, ClientInv
  <2>. QED BY <2>1, <2>3, <2>4, <2>5, <2>6, <2>7, Supplied
<1>2. CASE Manages \/ Frees
  BY <1>2, FreesKeeps DEF Manages, vars
<1>. QED BY <1>1, <1>2, TestSteps

(* Where each removal follows an insertion of its own no delete_first      *)
(* meets an empty list, so the tail sentinel stays until final_test.       *)
THEOREM SentinelStays ==
  ASSUME Reuse = FALSE, Balanced
  PROVE  TestSpec => [](TAIL \in linked)
<1>1. TestInit => TAIL \in linked
  BY DEF TestInit, Init
<1>2. HarnessInv /\ ClientInv /\ TAIL \in linked /\ [TestNext]_testVars => (TAIL \in linked)'
  BY SentinelKept
<1>. QED BY <1>1, <1>2, ClientHolds, PTL DEF TestSpec

(* No test frees a block twice, and each leaves none behind when verify_   *)
(* test has been reached.                                                  *)
THEOREM TestsFreeOnce ==
  ASSUME Reuse = FALSE, Balanced
  PROVE  TestSpec => []FreedOnce
BY SentinelStays, BlocksFreedOnce, PTL

(* The tests' threads use the list as if its operations were atomic.       *)
THEOREM TestsRefine ==
  ASSUME Reuse = FALSE, Balanced
  PROVE  TestSpec => Abstract!Spec
<1>1. TestInit => Abstract!Init
  BY RefineInit DEF TestInit
<1>2. ASSUME HarnessInv, ClientInv, TAIL \in linked, TAIL \in linked', [TestNext]_testVars
      PROVE  [Abstract!Next]_(Abstract!vars)
  <2>1. ASSUME NEW t \in Threads, Runs(t) PROVE [Abstract!Next]_(Abstract!vars)
    BY <1>2, <2>1, RunsKeeps, RefineStep DEF Runs, ClientInv, Next
  <2>2. CASE Manages \/ Frees
    <3>1. UNCHANGED <<data, program, called, pc, node, ret, out, linked, stamp, seen>>
      BY <1>2, <2>2, FreesKeeps DEF Manages, vars
    <3>. QED BY <3>1 DEF Abstract!vars, AbstractList, Inner, At, Position, AbstractPending,
                AbstractResult, AbstractGot, Freeing
  <2>. QED BY <1>2, <2>1, <2>2, TestSteps
<1>3. HarnessInv /\ ClientInv /\ TAIL \in linked /\ (TAIL \in linked)' /\ [TestNext]_testVars
        => [Abstract!Next]_(Abstract!vars)
  BY <1>2
<1>. QED BY <1>1, <1>3, ClientHolds, SentinelStays, PTL
         DEF TestSpec, Abstract!Spec

-----------------------------------------------------------------------------
(* verify_test counts the nodes of the list.                               *)
Remaining(m) == {n \in Inner : stamp[n] <= stamp[m]}

VerifyInv ==
  /\ phase \notin {"verify", "final", "exit"} => count = 0
  /\ phase = "verify" =>
       /\ cursor \in linked \ {HEAD} /\ count \in Nat
       /\ count + Cardinality(Remaining(cursor)) = Cardinality(Inner)
  /\ verdict # "fail"

LEMMA RemainingFacts ==
  ASSUME IInv, TAIL \in linked
  PROVE  /\ \A m : IsFiniteSet(Remaining(m)) /\ Cardinality(Remaining(m)) \in Nat
         /\ Remaining(next[HEAD].ref) = Inner /\ Remaining(TAIL) = {}
         /\ \A m \in Inner : /\ m \in Remaining(m)
                             /\ Remaining(next[m].ref) = Remaining(m) \ {m}
<1>0. /\ TypeOK /\ Stamped /\ Ordered /\ Closed /\ HEAD \in linked /\ Inner \subseteq linked
      /\ Inner \subseteq linked \ {HEAD, TAIL} /\ IsFiniteSet(Inner)
  BY InnerRanked DEF IInv, Shape, Stamped, Inner, Ranked
<1>1. /\ linked \subseteq Cells /\ stamp[TAIL] = 1
      /\ \A n \in linked : stamp[n] \in Nat /\ stamp[n] > 0
      /\ \A n \in linked \ {HEAD} : stamp[n] < stamp[HEAD]
      /\ \A m, n \in linked : m # n => stamp[m] # stamp[n]
  BY <1>0, StampFacts DEF Stamped
<1>2. ASSUME NEW m PROVE IsFiniteSet(Remaining(m)) /\ Cardinality(Remaining(m)) \in Nat
  <2>1. Remaining(m) \in SUBSET Inner
    BY DEF Remaining
  <2>. QED BY <1>0, <2>1, FS_Subset, FS_CardinalityType
<1>3. Remaining(next[HEAD].ref) = Inner
  <2>1. \A z \in linked : stamp[z] < stamp[HEAD] <=> stamp[z] <= stamp[next[HEAD].ref]
    BY <1>0, NextOnTheWay
  <2>. QED BY <1>0, <1>1, <2>1 DEF Remaining
<1>4. Remaining(TAIL) = {}
  <2>1. \A n \in Inner : ~(stamp[n] <= stamp[TAIL])
    BY <1>0, <1>1
  <2>. QED BY <2>1 DEF Remaining
<1>5. ASSUME NEW m \in Inner
      PROVE  m \in Remaining(m) /\ Remaining(next[m].ref) = Remaining(m) \ {m}
  <2>1. m \in linked \ {TAIL}
    BY <1>0
  <2>2. \A z \in linked : stamp[z] < stamp[m] <=> stamp[z] <= stamp[next[m].ref]
    BY <1>0, <2>1, NextOnTheWay
  <2>3. \A z \in linked : stamp[z] < stamp[m] <=> stamp[z] <= stamp[m] /\ z # m
    BY <1>1, <2>1
  <2>. QED BY <1>0, <1>1, <2>2, <2>3 DEF Remaining
<1>. QED BY <1>2, <1>3, <1>4, <1>5

(* Where every call has succeeded the list has the nodes expected of it.   *)
LEMMA AllTookEffect ==
  ASSUME HarnessInv, ClientInv, TAIL \in linked, EveryDeletingSucceeds, phase = "verify"
  PROVE  /\ Expected = Cardinality(Inner) /\ Cardinality(Inner) \in Nat
         /\ Cardinality(Inner) <= MaxCount /\ MaxCount \in Nat
<1>0. /\ verdict = "none" /\ IInv /\ TypeOK /\ WayInv /\ CountInv /\ Returned /\ Keyed
      /\ \A t \in Threads : Stopped(t)
  BY DEF HarnessInv, Judged, ClientInv, IInv
<1>1. \A t \in Threads : ret[t] # "fail"
  BY TestThreads DEF EveryDeletingSucceeds, HarnessInv, MainAndWorkers
<1>2. \A t \in Threads : pc[t] = "idle" /\ called[t] = Len(program[t])
  BY <1>0, <1>1 DEF Stopped
<1>3. ASSUME NEW kinds PROVE Effective(kinds) = CallsOf(kinds)
  <2>1. ASSUME NEW c \in CallsOf(kinds) PROVE Took(c[1], c[2])
    <3>1. c[1] \in Threads /\ c[2] \in Nat \ {0} /\ c[2] <= called[c[1]]
      BY <1>0, <1>2, CallsFacts DEF TypeOK
    <3>. QED BY <1>0, <1>1, <1>2, <3>1, TookIdle
  <2>. QED BY <2>1 DEF Effective
<1>4. Held(Keys) = Inner
  BY <1>0 DEF Keyed, Held
<1>5. Countable(Keys) /\ Keys \in SUBSET Keys
  BY DEF Countable
<1>6. Cardinality(Inner) + Cardinality(CallsOf(Removals(Keys))) = Cardinality(CallsOf(Insertions(Keys)))
  BY <1>0, <1>3, <1>4, <1>5 DEF CountInv, Counted
<1>7. /\ Cardinality(CallsOf(Removals(Keys))) \in Nat /\ Cardinality(CallsOf(Insertions(Keys))) \in Nat
      /\ Cardinality(Inner) \in Nat
  BY <1>0, <1>3, <1>4, EffectiveFinite, HeldFinite
<1>8. Cardinality(Inner) <= MaxCount /\ MaxCount \in Nat
  <2>1. Inner \in SUBSET Cells
    BY <1>0, InnerRanked
  <2>. QED BY <2>1, CellsFinite, FS_Subset, FS_CardinalityType DEF MaxCount
<1>. QED BY <1>6, <1>7, <1>8 DEF Expected

LEMMA VerifyNext ==
  ASSUME Reuse = FALSE, HarnessInv, ClientInv, TAIL \in linked, EveryDeletingSucceeds, VerifyInv,
         [TestNext]_testVars
  PROVE  VerifyInv'
<1>1. ASSUME NEW t \in Threads, Runs(t) PROVE VerifyInv'
  BY <1>1, RunsKeeps DEF VerifyInv, harness
<1>2. CASE Join
  <2>1. /\ phase = "join" /\ phase' = "verify" /\ cursor' = next[HEAD].ref /\ UNCHANGED vars
        /\ count' = count /\ verdict' = verdict /\ count = 0
    BY <1>2 DEF Join, VerifyInv
  <2>2. IInv
    BY <2>1 DEF HarnessInv, Judged
  <2>3. cursor' \in linked \ {HEAD}
    BY <2>1, <2>2, NextOnTheWay, StampFacts DEF IInv, Shape, Stamped
  <2>4. Remaining(cursor') = Inner /\ Cardinality(Inner) \in Nat
    BY <2>1, <2>2, RemainingFacts, InnerRanked, FS_CardinalityType DEF Ranked
  <2>5. Remaining(cursor)' = Remaining(cursor') /\ Inner' = Inner /\ linked' = linked
    BY <2>1 DEF vars, Inner, Remaining
  <2>. QED BY <2>1, <2>3, <2>4, <2>5 DEF VerifyInv
<1>3. CASE VerifyNode
  <2>1. /\ phase = "verify" /\ phase' = phase /\ cursor \in linked \ {HEAD, TAIL}
        /\ cursor' = next[cursor].ref /\ count' = count + 1 /\ UNCHANGED vars /\ verdict' = verdict
        /\ count \in Nat /\ count + Cardinality(Remaining(cursor)) = Cardinality(Inner)
    BY <1>3 DEF VerifyNode, VerifyInv
  <2>2. IInv /\ cursor \in Inner
    BY <2>1 DEF HarnessInv, Judged, Inner
  <2>3. cursor' \in linked \ {HEAD}
    BY <2>1, <2>2, NextOnTheWay DEF IInv, Shape
  <2>4. Remaining(cursor') = Remaining(cursor) \ {cursor} /\ cursor \in Remaining(cursor)
        /\ IsFiniteSet(Remaining(cursor)) /\ Cardinality(Remaining(cursor)) \in Nat
    BY <2>1, <2>2, RemainingFacts
  <2>5. Cardinality(Remaining(cursor')) = Cardinality(Remaining(cursor)) - 1
    BY <2>4, FS_RemoveElement
  <2>6. Remaining(cursor)' = Remaining(cursor') /\ Inner' = Inner /\ linked' = linked
    BY <2>1 DEF vars, Inner, Remaining
  <2>. QED BY <2>1, <2>3, <2>4, <2>5, <2>6 DEF VerifyInv
<1>4. CASE VerifyDone
  <2>1. /\ phase = "verify" /\ phase' = "final"
        /\ verdict' = IF count = Expected THEN "success" ELSE "fail"
        /\ cursor = TAIL \/ count > MaxCount
        /\ count \in Nat /\ count + Cardinality(Remaining(cursor)) = Cardinality(Inner)
    BY <1>4 DEF VerifyDone, VerifyInv
  <2>2. IInv
    BY <2>1 DEF HarnessInv, Judged
  <2>3. Cardinality(Remaining(cursor)) \in Nat /\ Cardinality(Remaining(TAIL)) = 0
    BY <2>2, RemainingFacts, FS_EmptySet
  <2>4. /\ Expected = Cardinality(Inner) /\ Cardinality(Inner) \in Nat
        /\ Cardinality(Inner) <= MaxCount /\ MaxCount \in Nat
    BY <2>1, AllTookEffect
  <2>5. count = Expected
    BY <2>1, <2>3, <2>4
  <2>. QED BY <2>1, <2>5 DEF VerifyInv
<1>5. CASE Frees
  BY <1>5, FreesKeeps DEF VerifyInv
<1>6. CASE UNCHANGED vars /\ (InitFails \/ InitSucceeds \/ CreateThread \/ CreateFails \/ Abandon)
  BY <1>6 DEF VerifyInv, InitFails, InitSucceeds, CreateThread, CreateFails, Abandon, Creating
<1>7. CASE UNCHANGED vars /\ UNCHANGED harness
  BY <1>7 DEF VerifyInv, vars, harness, Remaining, Inner
<1>. QED BY <1>1, <1>2, <1>3, <1>4, <1>5, <1>6, <1>7, TestSteps DEF Manages

(* Where no worker's call fails the nodes verify_test counts are those     *)
(* inserted and not deleted.                                               *)
THEOREM VerifyingSucceeds ==
  ASSUME Reuse = FALSE, Balanced
  PROVE  TestSpec /\ []EveryDeletingSucceeds => []VerifySucceeds
<1>1. TestInit => VerifyInv
  BY DEF TestInit, VerifyInv
<1>2. HarnessInv /\ ClientInv /\ TAIL \in linked /\ EveryDeletingSucceeds /\ VerifyInv
        /\ [TestNext]_testVars => VerifyInv'
  BY VerifyNext
<1>3. VerifyInv => VerifySucceeds
  BY DEF VerifyInv, VerifySucceeds
<1>. QED BY <1>1, <1>2, <1>3, ClientHolds, SentinelStays, PTL DEF TestSpec

-----------------------------------------------------------------------------
(* How a call fails: without memory, or after a search that met every node *)
(* that held its datum and is still there.                                 *)
LEMMA Failing ==
  ASSUME IInv, TAIL \in linked, NEW t \in Threads, Step(t), ret'[t] = "fail", ret[t] # "fail"
  PROVE  \/ pc[t] = "insert" /\ Available = {}
         \/ Seeking(t) /\ linked' = linked /\ seen' = seen /\ pc'[t] = "idle"
<1>. USE DEF Goto, Return, memory, locals, ghosts
<1>0. TypeOK /\ HEAD \in Entered /\ HEAD # TAIL
  BY StampFacts DEF IInv, Shape
<1>1. CASE Call(t)
  BY <1>0, <1>1 DEF Call
<1>2. CASE Insert(t)
  BY <1>0, <1>2 DEF Insert, InsertAlloc, InsertNoMemory, InsertRead, InsertSetNext,
     InsertSetData, InsertCas, TypeOK
<1>3. CASE Delete(t)
  <2>1. CASE SearchStart(t) \/ SearchAdvance(t)
    BY <1>0, <2>1 DEF SearchStart, SearchAdvance, Visit, Seeking, TypeOK
  <2>2. CASE SearchCompare(t) \/ SearchCheckLeft(t) \/ SearchCheckNode(t) \/ SearchCheckAdjacent(t)
    BY <1>0, <2>2 DEF SearchCompare, SearchCheckLeft, SearchCheckNode, SearchCheckAdjacent, Check
  <2>3. CASE DeleteReadNext(t) \/ DeleteMark(t) \/ DeleteUnlink(t) \/ DeleteUnmark(t)
    BY <1>0, <2>3 DEF DeleteReadNext, ReadNext, DeleteMark, Mark, DeleteUnlink, Unlink,
       DeleteUnmark, Unmark
  <2>4. CASE DeleteFree(t)
    BY <1>0, <2>4 DEF DeleteFree, Free, TypeOK
  <2>. QED BY <1>3, <2>1, <2>2, <2>3, <2>4 DEF Delete, Search
<1>4. CASE DeleteFirst(t)
  <2>1. CASE FirstRead(t)
    <3>1. next[HEAD].ref # NULL
      BY <1>0, BeforeTail
    <3>. QED BY <1>0, <2>1, <3>1 DEF FirstRead
  <2>2. CASE FirstReadNext(t) \/ FirstMark(t) \/ FirstUnlink(t) \/ FirstUnmark(t) \/ FirstData(t)
    BY <1>0, <2>2 DEF FirstReadNext, ReadNext, FirstMark, Mark, FirstUnlink, Unlink, FirstUnmark,
       Unmark, FirstData
  <2>3. CASE FirstFree(t)
    BY <1>0, <2>3 DEF FirstFree, Free, TypeOK
  <2>. QED BY <1>4, <2>1, <2>2, <2>3 DEF DeleteFirst
<1>. QED BY <1>1, <1>2, <1>3, <1>4 DEF Step

(* A search goes on with the cells it began with, and takes none out.      *)
LEMMA SearchGoesOn ==
  ASSUME IInv, NEW t \in Threads, Step(t), Seeking(t)', ~Call(t)
  PROVE  Seeking(t) /\ linked' = linked /\ seen' = seen
<1>. USE DEF Goto, Return, memory, locals, ghosts, Seeking
<1>0. TypeOK
  BY DEF IInv
<1>1. CASE Insert(t)
  BY <1>0, <1>1 DEF Insert, InsertAlloc, InsertNoMemory, InsertRead, InsertSetNext,
     InsertSetData, InsertCas, TypeOK
<1>2. CASE Delete(t)
  <2>1. CASE SearchStart(t) \/ SearchAdvance(t)
    BY <1>0, <2>1 DEF SearchStart, SearchAdvance, Visit
  <2>2. CASE SearchCompare(t) \/ SearchCheckLeft(t) \/ SearchCheckNode(t) \/ SearchCheckAdjacent(t)
    BY <1>0, <2>2 DEF SearchCompare, SearchCheckLeft, SearchCheckNode, SearchCheckAdjacent, Check
  <2>3. CASE DeleteReadNext(t) \/ DeleteMark(t) \/ DeleteUnlink(t) \/ DeleteUnmark(t)
    BY <1>0, <2>3 DEF DeleteReadNext, ReadNext, DeleteMark, Mark, DeleteUnlink, Unlink,
       DeleteUnmark, Unmark, TypeOK
  <2>4. CASE DeleteFree(t)
    BY <1>0, <2>4 DEF DeleteFree, Free, TypeOK
  <2>. QED BY <1>2, <2>1, <2>2, <2>3, <2>4 DEF Delete, Search
<1>3. CASE DeleteFirst(t)
  BY <1>0, <1>3 DEF DeleteFirst, FirstRead, FirstReadNext, ReadNext, FirstMark, Mark,
     FirstUnlink, Unlink, FirstUnmark, Unmark, FirstData, FirstFree, Free, TypeOK
<1>. QED BY <1>1, <1>2, <1>3 DEF Step

(* The deletes of a key in the program.                                    *)
Deletes(k) == [op : {"delete"}, key : {k}]

LEMMA SeekingCall ==
  ASSUME IInv, CallInv, NEW t \in Threads, Seeking(t)
  PROVE  /\ Key(t) \in Keys /\ program[t][called[t]].op = "delete"
         /\ <<t, called[t]>> \in CallsOf(Deletes(Key(t)))
<1>1. pc[t] \notin {"idle", "killed"} /\ Deleting(t)
  BY DEF Seeking, Deleting
<1>2. called[t] \in 1..Len(program[t]) /\ program[t][called[t]].op = "delete"
  BY <1>1 DEF CallInv, CallMatches, IInv, TypeOK
<1>3. program[t][called[t]] \in Calls /\ program[t][called[t]].key = Key(t) /\ Key(t) \in Keys
  BY <1>1, CallView
<1>4. program[t][called[t]] \in Deletes(Key(t))
  <2>1. program[t][called[t]] = [op |-> program[t][called[t]].op, key |-> program[t][called[t]].key]
    BY <1>3 DEF Calls
  <2>. QED BY <1>2, <1>3, <2>1 DEF Deletes
<1>. QED BY <1>2, <1>3, <1>4, CallsFacts DEF IInv

LEMMA Owning ==
  ASSUME OwnKeys, program \in Programs, NEW k \in Keys, CallsOf(Deletes(k)) # {}
  PROVE  /\ Paired(program, {k}) /\ Countable({k})
         /\ \A c, d \in CallsOf(Deletes(k)) : c[1] = d[1]
         /\ CallsOf(Firsts) = {}
BY DEF OwnKeys, CallsOf, Deletes, Firsts, Countable

(* What a thread seeks nobody else takes away.                             *)
LEMMA SoughtKept ==
  ASSUME OwnKeys, program \in Programs, IInv, CallInv, NEW t \in Threads, Drops(t),
         pc[t] \notin {"idle", "killed"}, NEW u \in Threads, u # t, Seeking(u)
  PROVE  node[t] \notin Sought(u)
<1>. SUFFICES ASSUME node[t] \in Sought(u) PROVE FALSE
  OBVIOUS
<1>1. /\ Key(u) \in Keys /\ <<u, called[u]>> \in CallsOf(Deletes(Key(u)))
      /\ data[node[t]] = Key(u)
  BY SeekingCall DEF IInv, Ahead
<1>2. /\ \A c, d \in CallsOf(Deletes(Key(u))) : c[1] = d[1]
      /\ CallsOf(Firsts) = {}
  BY <1>1, Owning
<1>3. /\ called[t] \in 1..Len(program[t]) /\ program[t][called[t]] \in Calls
      /\ program[t][called[t]].key = Key(t)
  BY CallView DEF IInv, TypeOK
<1>4. CASE program[t][called[t]].op = "delete" /\ data[node[t]] = Key(t)
  <2>1. program[t][called[t]] \in Deletes(Key(u))
    <3>1. program[t][called[t]] = [op |-> program[t][called[t]].op, key |-> program[t][called[t]].key]
      BY <1>3 DEF Calls
    <3>. QED BY <1>1, <1>3, <1>4, <3>1 DEF Deletes
  <2>2. <<t, called[t]>> \in CallsOf(Deletes(Key(u)))
    BY <1>3, <2>1, CallsFacts DEF IInv
  <2> DEFINE c == <<t, called[t]>>
             d == <<u, called[u]>>
  <2>3. c[1] = t /\ d[1] = u
    OBVIOUS
  <2> HIDE DEF c, d
  <2>. QED BY <1>1, <1>2, <2>2, <2>3 DEF c, d
<1>5. CASE program[t][called[t]].op = "delete_first"
  <2>1. program[t][called[t]] \in Firsts
    BY <1>3, <1>5, FirstKind
  <2>2. <<t, called[t]>> \in CallsOf(Firsts)
    BY <1>3, <2>1, CallsFacts DEF IInv
  <2>. QED BY <1>2, <2>2
<1>. QED BY <1>4, <1>5 DEF Drops

(* A delete finds its datum in the list when it is called.                 *)
LEMMA DeleteFinds ==
  ASSUME OwnKeys, HarnessInv, ClientInv, verdict = "none", phase # "exit", TAIL \in linked,
         NEW t \in Threads, Call(t), ~Stopped(t), phase = "init" => t = MAIN, Seeking(t)'
  PROVE  Sought(t)' # {}
<1> DEFINE i == called[t] + 1
           k == program[t][i].key
<1>1. IInv /\ TypeOK /\ called[t] \in Nat
  BY DEF HarnessInv, Judged, IInv, TypeOK
<1>2. /\ pc[t] = "idle" /\ called[t] < Len(program[t]) /\ linked' = linked
      /\ pc' = [pc EXCEPT ![t] = program[t][i].op]
      /\ seen' = [seen EXCEPT ![t] = IF program[t][i].op = "delete"
                                     THEN {n \in linked : data[n] = k} ELSE {}]
  BY DEF Call, Goto
<1>3. program[t][i] \in Calls /\ i \in 1..Len(program[t])
  BY <1>1, <1>2, CallFacts DEF TypeOK
<1>4. program[t][i].op = "delete" /\ k \in Keys
  <2>1. pc'[t] = program[t][i].op /\ program[t][i].op \in {"insert", "delete", "delete_first"}
    BY <1>1, <1>2, <1>3 DEF TypeOK, Calls
  <2>. QED BY <1>3, <2>1 DEF Seeking, Calls
<1>5. program[t][i] \in Deletes(k)
  <2>1. program[t][i] = [op |-> program[t][i].op, key |-> k]
    BY <1>3 DEF Calls
  <2>. QED BY <1>4, <2>1 DEF Deletes
<1>6. Paired(program, {k}) /\ Countable({k})
  <2>1. <<t, i>> \in CallsOf(Deletes(k))
    <3> HIDE DEF i, k
    <3>. QED BY <1>1, <1>3, <1>5, CallsFacts
  <2> HIDE DEF i, k
  <2>. QED BY <1>4, <2>1, Owning DEF ClientInv
<1>7. {k} \in SUBSET Keys /\ program[t][i] \in Removals({k})
  <2> HIDE DEF i
  <2>. QED BY <1>3, <1>4, KindFacts
<1>8. ~Took(t, i) /\ ret[t] # "fail"
  BY <1>1, <1>2 DEF Took, Stopped
<1>9. Held({k}) # {}
  <2>1. i = called[t] + 1
    OBVIOUS
  <2> HIDE DEF i, k, Took
  <2>. QED BY <1>2, <1>3, <1>6, <1>7, <1>8, <2>1, Supplied
<1>10. \E n \in linked : data[n] = k
  BY <1>9 DEF Held, Inner
<1>11. seen'[t] = {n \in linked : data[n] = k}
  BY <1>1, <1>2, <1>4 DEF TypeOK
<1>. QED BY <1>2, <1>10, <1>11 DEF Sought

SuccessInv ==
  /\ EveryDeletingSucceeds
  /\ verdict = "none" => \A t \in Threads : Seeking(t) => Sought(t) # {}

LEMMA SuccessNext ==
  ASSUME Reuse = FALSE, OwnKeys, HarnessInv, ClientInv, TAIL \in linked, TAIL \in linked',
         MemorySuffices, SuccessInv, [TestNext]_testVars
  PROVE  SuccessInv'
<1>1. ASSUME NEW t \in Threads, Runs(t) PROVE SuccessInv'
  <2>1. /\ IInv /\ IInv' /\ Step(t) /\ ~Stopped(t) /\ verdict = "none" /\ phase # "exit"
        /\ UNCHANGED harness /\ (phase = "init" => t = MAIN)
        /\ CallInv /\ WayInv /\ program \in Programs /\ TypeOK
        /\ \A u \in Threads : Seeking(u) => Sought(u) # {}
    BY <1>1, RunsKeeps DEF Runs, ClientInv, SuccessInv, IInv
  <2>2. WayInv' /\ pc'[t] # "killed"
    BY <2>1, WayInvStep DEF WayInv, OnTheWay
  <2>3. EveryDeletingSucceeds'
    <3>1. ASSUME NEW u \in Workers, ret'[u] = "fail" PROVE FALSE
      <4>1. u \in Threads /\ ret[u] # "fail"
        BY TestThreads DEF SuccessInv, EveryDeletingSucceeds
      <4>2. u = t
        BY <2>1, <3>1, <4>1, OthersCalls
      <4>3. Seeking(t) /\ linked' = linked /\ seen' = seen /\ pc'[t] = "idle"
        BY <2>1, <3>1, <4>1, <4>2, Failing DEF MemorySuffices
      <4>4. Sought(t)' = {}
        BY <2>1, <3>1, <4>2, <4>3 DEF IInv, Ahead
      <4>. QED BY <2>1, <4>3, <4>4 DEF Sought
    <3>. QED BY <3>1 DEF EveryDeletingSucceeds
  <2>4. ASSUME NEW u \in Threads, Seeking(u)' PROVE Sought(u)' # {}
    <3>1. CASE u = t /\ Call(t)
      BY <2>1, <2>4, <3>1, DeleteFinds
    <3>2. CASE u = t /\ ~Call(t)
      BY <2>1, <2>4, <3>2, SearchGoesOn DEF Sought
    <3>3. CASE u # t
      <4>1. Same(u) /\ seen'[u] = seen[u] /\ Seeking(u)
        <5>1. Same(u) /\ seen'[u] = seen[u]
          BY <2>1, <2>2, <3>3, Others, OthersView
        <5>. QED BY <2>4, <5>1 DEF Same, Seeking
      <4>2. \/ linked \subseteq linked'
            \/ Drops(t) /\ pc[t] \notin {"idle", "killed"}
        <5>1. Ends(t, "ok") => pc[t] # "idle"
          BY DEF Ends, Pending
        <5>2. pc[t] # "killed"
          BY <2>1, Killing
        <5>. QED BY <2>1, <2>2, <5>1, <5>2, StepKinds DEF Stays, Adds
      <4>3. CASE linked \subseteq linked'
        BY <2>1, <4>1, <4>3 DEF Sought
      <4>4. CASE Drops(t) /\ pc[t] \notin {"idle", "killed"}
        <5>1. node[t] \notin Sought(u)
          BY <2>1, <3>3, <4>1, <4>4, SoughtKept
        <5>2. linked' = linked \ {node[t]}
          BY <4>4 DEF Drops
        <5>. QED BY <2>1, <4>1, <5>1, <5>2 DEF Sought
      <4>. QED BY <4>2, <4>3, <4>4
    <3>. QED BY <3>1, <3>2, <3>3
  <2>. QED BY <2>3, <2>4 DEF SuccessInv
<1>2. CASE Manages
  <2>1. UNCHANGED <<pc, ret, linked, seen>> /\ (verdict' = "none" => verdict = "none")
    BY <1>2 DEF Manages, vars, InitFails, InitSucceeds, CreateThread, CreateFails, Abandon, Join,
       VerifyNode, VerifyDone, harness
  <2>. QED BY <2>1 DEF SuccessInv, EveryDeletingSucceeds, Seeking, Sought
<1>3. CASE Frees
  <2>1. verdict' # "none" /\ ret' = ret
    BY <1>3, FreesKeeps DEF HarnessInv, Judged
  <2>. QED BY <2>1 DEF SuccessInv, EveryDeletingSucceeds
<1>. QED BY <1>1, <1>2, <1>3, TestSteps

(* test_atomic_list_delete.c:116 "every deleting must succeed": no call of *)
(* a worker fails for another reason than a lack of memory.                *)
THEOREM DeletingSucceeds ==
  ASSUME Reuse = FALSE, Balanced, OwnKeys
  PROVE  TestSpec /\ []MemorySuffices => []EveryDeletingSucceeds
<1>1. TestInit => SuccessInv
  BY TestThreads DEF TestInit, Init, SuccessInv, EveryDeletingSucceeds, Seeking
<1>2. HarnessInv /\ ClientInv /\ TAIL \in linked /\ (TAIL \in linked)' /\ MemorySuffices /\ SuccessInv
        /\ [TestNext]_testVars => SuccessInv'
  BY SuccessNext
<1>3. SuccessInv => EveryDeletingSucceeds
  BY DEF SuccessInv
<1>. QED BY <1>1, <1>2, <1>3, ClientHolds, SentinelStays, PTL DEF TestSpec

(* So the tests succeed for every number of threads and loops, as long as  *)
(* there is memory and malloc does not hand out a freed cell again.        *)
THEOREM TestsSucceed ==
  ASSUME Reuse = FALSE, Balanced, OwnKeys
  PROVE  TestSpec /\ []MemorySuffices => []VerifySucceeds
BY DeletingSucceeds, VerifyingSucceeds, PTL

=============================================================================
