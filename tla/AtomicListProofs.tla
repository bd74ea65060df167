-------------------------- MODULE AtomicListProofs --------------------------
(***************************************************************************)
(* Theorems about AtomicList: its types, for any clients and any malloc;   *)
(* and that the list is correct as long as malloc does not hand out a      *)
(* freed cell again (Reuse = FALSE): IInv is inductive, and what follows.  *)
(***************************************************************************)
EXTENDS AtomicList, FiniteSetTheorems, WellFoundedInduction, TLAPS

USE CellsAssumption, KeysAssumption

LEMMA CallFacts ==
  ASSUME TypeOK, NEW t \in Threads, called[t] < Len(program[t])
  PROVE  /\ called[t] + 1 \in Nat /\ called[t] + 1 <= Len(program[t])
         /\ program[t][called[t] + 1] \in Calls
<1>1. program[t] \in Seq(Calls) /\ called[t] \in Nat
  BY DEF TypeOK
<1>2. called[t] + 1 \in 1..Len(program[t])
  BY <1>1
<1>. QED BY <1>1, <1>2

LEMMA KeyType ==
  ASSUME TypeOK, NEW t \in Threads, pc[t] \notin {"idle", "killed"}
  PROVE  Key(t) \in Keys
<1>1. program[t] \in Seq(Calls) /\ called[t] \in Nat /\ called[t] <= Len(program[t])
      /\ called[t] > 0
  BY DEF TypeOK
<1>2. called[t] \in 1..Len(program[t])
  BY <1>1
<1>3. program[t][called[t]] \in Calls
  BY <1>1, <1>2
<1>. QED BY <1>3 DEF Key, Calls

LEMMA PtrType ==
  \A n \in Cells \cup {NULL} : Ptr(n) \in Pointers /\ Ptr(n).ref = n /\ Ptr(n).mark = FALSE
BY DEF Ptr, Pointers

LEMMA RefType ==
  ASSUME TypeOK
  PROVE  /\ \A n \in Cells : next[n].ref \in Cells \cup {NULL} /\ next[n].mark \in BOOLEAN
         /\ \A t \in Threads : succ[t].ref \in Cells \cup {NULL} /\ succ[t].mark \in BOOLEAN
BY DEF TypeOK, Pointers

LEMMA MarkType ==
  ASSUME NEW p \in Pointers
  PROVE  /\ SetMark(p) \in Pointers /\ SetMark(p).ref = p.ref /\ SetMark(p).mark = TRUE
         /\ DelMark(p) \in Pointers /\ DelMark(p).ref = p.ref /\ DelMark(p).mark = FALSE
BY DEF SetMark, DelMark, Pointers

LEMMA TypeInit == Init => TypeOK
<1>. SUFFICES ASSUME Init PROVE TypeOK
  OBVIOUS
<1>1. program \in [Threads -> Seq(Calls)]
  BY ProgramsAssumption DEF Init
<1>2. \A t \in Threads : called[t] <= Len(program[t])
  BY <1>1 DEF Init
<1>. QED BY <1>1, <1>2 DEF Init, TypeOK, Data, Pointers, Ptr, Labels, HasNode

(* The steps delete and delete_first share keep the types.                 *)
LEMMA MarkStep ==
  ASSUME TypeOK, NEW t \in Threads, NEW from, NEW retry, NEW unlink,
         Mark(t, from, retry, unlink),
         from \in {"delete_mark", "first_mark"}, retry \in {"delete", "delete_first"},
         unlink \in {"delete_unlink", "first_unlink"}
  PROVE  TypeOK'
<1>1. next' \in [Cells -> Pointers]
  <2>1. SetMark(succ[t]) \in Pointers
    BY MarkType DEF TypeOK
  <2>. QED BY <2>1 DEF Mark, CasSucceeds, CasFails, TypeOK
<1>2. pc' = [pc EXCEPT ![t] = retry] \/ pc' = [pc EXCEPT ![t] = unlink]
  BY DEF Mark, Goto
<1>3. pc' \in [Threads -> Labels] /\ \A u \in Threads : HasNode(u)' => HasNode(u)
  BY <1>2, ZenonT(60) DEF Mark, TypeOK, locals, HasNode, Labels
<1>. QED BY <1>1, <1>2, <1>3 DEF Mark, TypeOK, locals, ghosts, HasNode

LEMMA UnlinkStep ==
  ASSUME TypeOK, NEW t \in Threads, NEW from, NEW unmark, NEW free,
         Unlink(t, from, unmark, free),
         from \in {"delete_unlink", "first_unlink"},
         unmark \in {"delete_unmark", "first_unmark"}, free \in {"delete_free", "first_data"}
  PROVE  TypeOK'
<1>1. next' \in [Cells -> Pointers] /\ linked' \subseteq Cells
  BY DEF Unlink, CasSucceeds, CasFails, TypeOK
<1>2. pc' = [pc EXCEPT ![t] = unmark] \/ pc' = [pc EXCEPT ![t] = free]
  BY DEF Unlink, Goto
<1>3. pc' \in [Threads -> Labels] /\ \A u \in Threads : HasNode(u)' => HasNode(u)
  BY <1>2, ZenonT(60) DEF Unlink, TypeOK, locals, HasNode, Labels
<1>. QED BY <1>1, <1>2, <1>3 DEF Unlink, TypeOK, locals, HasNode

LEMMA UnmarkStep ==
  ASSUME TypeOK, NEW t \in Threads, NEW from, NEW retry, Unmark(t, from, retry),
         from \in {"delete_unmark", "first_unmark"}, retry \in {"delete", "delete_first"}
  PROVE  TypeOK'
<1>1. DelMark(succ[t]) \in Pointers
  BY MarkType DEF TypeOK
<1>. QED
  BY <1>1 DEF Unmark, TypeOK, memory, locals, ghosts, Goto, Labels, HasNode

LEMMA FreeStep ==
  ASSUME TypeOK, NEW t \in Threads, NEW from, Free(t, from),
         from \in {"delete_free", "first_free"}
  PROVE  TypeOK'
<1>1. PICK d \in {data[node[t]], Junk} : data' = [data EXCEPT ![node[t]] = d]
  BY DEF Free
<1>2. node[t] \in Cells
  BY DEF Free, TypeOK, HasNode
<1>3. d \in Data
  BY <1>1, <1>2 DEF TypeOK, Data
<1>. QED
  BY <1>1, <1>2, <1>3 DEF Free, TypeOK, memory, locals, ghosts, Goto, Return, Labels, HasNode

LEMMA InsertCasStep ==
  ASSUME TypeOK, NEW t \in Threads, InsertCas(t)
  PROVE  TypeOK'
<1>1. node[t] \in Cells /\ Ptr(node[t]) \in Pointers
  BY PtrType DEF InsertCas, TypeOK, HasNode
<1>2. next' \in [Cells -> Pointers]
  <2>1. next' = [next EXCEPT ![left[t]] = Ptr(node[t])] \/ next' = next
    BY DEF InsertCas, CasSucceeds, CasFails
  <2>. QED BY <1>1, <2>1 DEF TypeOK
<1>3. linked' \subseteq Cells
  <2>1. linked' = linked \cup {node[t]} \/ linked' = linked
    BY DEF InsertCas
  <2>. QED BY <1>1, <2>1 DEF TypeOK
<1>4. stamp' \in [Cells -> Nat]
  <2>1. stamp \in [Cells -> Nat] /\ HEAD \in Cells
    BY DEF TypeOK
  <2>2. [stamp EXCEPT ![node[t]] = stamp[HEAD]] \in [Cells -> Nat]
    BY <2>1
  <2>3. stamp' = [[stamp EXCEPT ![node[t]] = stamp[HEAD]] EXCEPT ![HEAD] = @ + 1]
        \/ stamp' = stamp
    BY DEF InsertCas
  <2>. QED BY <2>1, <2>2, <2>3
<1>5. ret' \in [Threads -> {"none", "ok", "fail"}]
  BY DEF InsertCas, Return, TypeOK
<1>6. pc' = [pc EXCEPT ![t] = "idle"] \/ pc' = [pc EXCEPT ![t] = "insert_read"]
  BY DEF InsertCas, Return, Goto
<1>7. pc' \in [Threads -> Labels] /\ \A u \in Threads : HasNode(u)' => HasNode(u)
  BY <1>6 DEF InsertCas, TypeOK, locals, HasNode, Labels
<1>8. pc[t] = "insert_cas" /\ UNCHANGED <<data, heap, left, node, succ, program, called, out, seen>>
  BY DEF InsertCas, locals
<1>9. /\ \A u \in Threads : pc'[u] \notin {"idle", "killed"} => called'[u] > 0
      /\ \A u \in Threads : HasNode(u)' => node'[u] # NULL
  BY <1>6, <1>7, <1>8 DEF TypeOK
<1>. QED BY <1>2, <1>3, <1>4, <1>5, <1>7, <1>8, <1>9 DEF TypeOK

LEMMA TypeStep == TypeOK /\ [Next]_vars => TypeOK'
<1>. SUFFICES ASSUME TypeOK, [Next]_vars PROVE TypeOK'
  OBVIOUS
<1>. USE DEF TypeOK, memory, locals, ghosts, Goto, Return, Labels, HasNode
<1>1. ASSUME NEW t \in Threads, Call(t) PROVE TypeOK'
  <2>1. program[t][called[t] + 1] \in Calls
    BY <1>1, CallFacts DEF Call
  <2>2. program[t][called[t] + 1].op \in {"insert", "delete", "delete_first"}
    BY <2>1 DEF Calls
  <2>. QED BY <1>1, <2>2 DEF Call
<1>2. ASSUME NEW t \in Threads, Insert(t) PROVE TypeOK'
  <2>1. CASE InsertAlloc(t)
    BY <2>1 DEF InsertAlloc, Available
  <2>2. CASE InsertNoMemory(t)
    BY <2>2 DEF InsertNoMemory
  <2>3. CASE InsertRead(t)
    BY <2>3 DEF InsertRead
  <2>4. CASE InsertSetNext(t)
    BY <2>4 DEF InsertSetNext
  <2>5. CASE InsertSetData(t)
    <3>1. Key(t) \in Data
      BY <2>5, KeyType DEF InsertSetData, Data
    <3>. QED BY <2>5, <3>1 DEF InsertSetData
  <2>6. CASE InsertCas(t)
    BY <2>6, InsertCasStep
  <2>. QED BY <1>2, <2>1, <2>2, <2>3, <2>4, <2>5, <2>6 DEF Insert
<1>3. ASSUME NEW t \in Threads, Delete(t) PROVE TypeOK'
  <2>1. CASE SearchStart(t)
    <3>1. next[HEAD].ref \in Cells \cup {NULL}
      BY RefType
    <3>. QED BY <2>1, <3>1, ZenonT(60) DEF SearchStart, Visit
  <2>2. CASE SearchCompare(t)
    BY <2>2, ZenonT(60) DEF SearchCompare
  <2>3. CASE SearchAdvance(t)
    <3>1. node[t] \in Cells
      BY <2>3 DEF SearchAdvance
    <3>2. DelMark(next[node[t]]).ref \in Cells \cup {NULL}
      BY <3>1, RefType, MarkType
    <3>. QED BY <2>3, <3>1, <3>2, ZenonT(60) DEF SearchAdvance, Visit
  <2>4. ASSUME NEW from, NEW bad, NEW to, Check(t, from, bad, to),
               from \in {"check_left", "check_node", "check_adjacent"},
               to \in {"check_node", "check_adjacent", "delete_next"}
        PROVE  TypeOK'
    BY <2>4 DEF Check
  <2>5. CASE SearchCheckLeft(t) \/ SearchCheckNode(t) \/ SearchCheckAdjacent(t)
    BY <2>4, <2>5 DEF SearchCheckLeft, SearchCheckNode, SearchCheckAdjacent
  <2>6. CASE DeleteReadNext(t)
    BY <2>6 DEF DeleteReadNext, ReadNext
  <2>7. CASE DeleteMark(t)
    BY <2>7, MarkStep DEF DeleteMark
  <2>8. CASE DeleteUnlink(t)
    BY <2>8, UnlinkStep DEF DeleteUnlink
  <2>9. CASE DeleteUnmark(t)
    BY <2>9, UnmarkStep DEF DeleteUnmark
  <2>10. CASE DeleteFree(t)
    BY <2>10, FreeStep DEF DeleteFree
  <2>. QED BY <1>3, <2>1, <2>2, <2>3, <2>5, <2>6, <2>7, <2>8, <2>9, <2>10 DEF Delete, Search
<1>4. ASSUME NEW t \in Threads, DeleteFirst(t) PROVE TypeOK'
  <2>1. CASE FirstRead(t)
    <3>1. next[HEAD].ref \in Cells \cup {NULL}
      BY RefType
    <3>. QED BY <2>1, <3>1 DEF FirstRead
  <2>2. CASE FirstReadNext(t)
    BY <2>2 DEF FirstReadNext, ReadNext
  <2>3. CASE FirstMark(t)
    BY <2>3, MarkStep DEF FirstMark
  <2>4. CASE FirstUnlink(t)
    BY <2>4, UnlinkStep DEF FirstUnlink
  <2>5. CASE FirstUnmark(t)
    BY <2>5, UnmarkStep DEF FirstUnmark
  <2>6. CASE FirstData(t)
    BY <2>6 DEF FirstData
  <2>7. CASE FirstFree(t)
    BY <2>7, FreeStep DEF FirstFree
  <2>. QED BY <1>4, <2>1, <2>2, <2>3, <2>4, <2>5, <2>6, <2>7 DEF DeleteFirst
<1>5. CASE UNCHANGED vars
  BY <1>5 DEF vars
<1>. QED BY <1>1, <1>2, <1>3, <1>4, <1>5 DEF Next, Step, Ended

(* Every variable of atomic_list keeps its type, for any clients.          *)
THEOREM TypeCorrect == Spec => []TypeOK
<1>. QED BY TypeInit, TypeStep, PTL DEF Spec


-----------------------------------------------------------------------------
(* A step leaves the locals of thread u alone ...                          *)
Same(u) ==
  /\ pc'[u] = pc[u] /\ left'[u] = left[u] /\ node'[u] = node[u] /\ succ'[u] = succ[u]
  /\ ret'[u] = ret[u] /\ seen'[u] = seen[u]
  /\ program'[u] = program[u] /\ called'[u] = called[u]

(* ... and the cells u knows something about.                              *)
Gentle(u) ==
  /\ Entered \subseteq Entered'
  /\ \A z \in linked' \cap Entered : z \in linked /\ data'[z] = data[z]
  /\ \A n \in Entered \ {HEAD} : stamp'[n] = stamp[n]
  /\ Inserting(u) => /\ node[u] \notin Entered'
                     /\ heap'[node[u]] = heap[node[u]]
                     /\ data'[node[u]] = data[node[u]]
                     /\ next'[node[u]] = next[node[u]]
  /\ Holding(u) => node[u] \in linked' /\ next'[node[u]] = next[node[u]]
  /\ Freeing(u) => node[u] \notin linked' /\ heap'[node[u]] = heap[node[u]]

(* A step of t takes no cell into its possession.                          *)
Keeps(t) ==
  /\ Inserting(t)' => Inserting(t) /\ node'[t] = node[t]
  /\ (Holding(t) \/ Freeing(t))' => (Holding(t) \/ Freeing(t)) /\ node'[t] = node[t]

Quiet == UNCHANGED <<data, next, heap, linked, stamp>>

(* The stamps order the cells that have entered the list.                  *)
LEMMA StampFacts ==
  ASSUME TypeOK, Stamped
  PROVE  /\ Entered \subseteq Cells /\ linked \subseteq Entered
         /\ HEAD \in Entered /\ TAIL \in Entered /\ NULL \notin Entered
         /\ \A n \in Cells : stamp[n] \in Nat
         /\ \A n \in Entered : stamp[n] > 0
         /\ \A n \in Entered : Age(n) = stamp[n]
         /\ Age(NULL) = 0
         /\ \A n \in Cells : n # HEAD => stamp[n] < stamp[HEAD]
BY DEF TypeOK, Stamped, Entered, Age

(* What a thread knows survives a gentle step of another.                  *)
LEMMA SameKnows ==
  ASSUME TypeOK, Stamped, Allocated, NEW u \in Threads, Knows(u), Ahead(u), Same(u), Gentle(u)
  PROVE  Knows(u)' /\ Ahead(u)'
<1>. USE DEF Same
<1>1. /\ Inserting(u)' <=> Inserting(u)
      /\ Holding(u)' <=> Holding(u)
      /\ Freeing(u)' <=> Freeing(u)
      /\ Walking(u)' <=> Walking(u)
      /\ Marking(u)' <=> Marking(u)
      /\ Seeking(u)' <=> Seeking(u)
      /\ Key(u)' = Key(u)
  BY DEF Inserting, Holding, Freeing, Walking, Marking, Seeking, Key
<1>2. Inserting(u) => Private(u)'
  BY <1>1 DEF Gentle, Knows, Private
<1>3. Knows(u)'
  BY <1>1, <1>2 DEF Gentle, Knows
<1>4. Sought(u)' \subseteq Sought(u) /\ \A z \in Sought(u)' : data'[z] = data[z]
  BY DEF Gentle, Ahead, Sought
<1>5. ASSUME pc[u] \in {"compare", "advance"}
      PROVE  \A z \in Sought(u)' : stamp'[z] <= Age(node[u])'
  <2>1. Walking(u) /\ Seeking(u)
    BY <1>5 DEF Walking, Seeking
  <2>2. node[u] \in Entered \cup {NULL} /\ node[u] # HEAD
    BY <2>1 DEF Knows
  <2>3. Age(node[u])' = Age(node[u])
    BY <2>2 DEF Gentle, Age
  <2>4. Key(u) \in Keys
    BY <1>5, KeyType
  <2>5. \A z \in Sought(u) : z \in Entered /\ z # HEAD /\ stamp[z] <= Age(node[u])
    BY <1>5, <2>1, <2>4 DEF Ahead, Sought, Allocated
  <2>. QED BY <1>4, <2>3, <2>5 DEF Gentle
<1>6. Ahead(u)'
  BY <1>1, <1>4, <1>5 DEF Ahead, Gentle
<1>. QED BY <1>3, <1>6

(* A step that writes no shared word is gentle and keeps the list's shape. *)
LEMMA QuietShape ==
  ASSUME IInv, Quiet
  PROVE  Shape' /\ \A u \in Threads : Gentle(u)
<1>1. Entered' = Entered /\ \A p : Age(p)' = Age(p)
  BY DEF Quiet, Entered, Age
<1>2. Shape'
  BY <1>1 DEF IInv, Shape, Ordered, Closed, Stamped, Marked, Allocated, Quiet
<1>3. ASSUME NEW u \in Threads PROVE Gentle(u)
  BY <1>1 DEF IInv, Knows, Private, Gentle, Quiet
<1>. QED BY <1>2, <1>3

LEMMA KeepOwner ==
  ASSUME OneOwner, NEW t \in Threads, Keeps(t), \A u \in Threads \ {t} : Same(u)
  PROVE  OneOwner'
<1>. SUFFICES ASSUME NEW u \in Threads, NEW v \in Threads, u # v
     PROVE  /\ (Inserting(u) /\ Inserting(v))' => node'[u] # node'[v]
            /\ ((Holding(u) \/ Freeing(u)) /\ (Holding(v) \/ Freeing(v)))' => node'[u] # node'[v]
  BY DEF OneOwner
<1>1. \A w \in Threads :
        /\ Inserting(w)' => Inserting(w) /\ node'[w] = node[w]
        /\ (Holding(w) \/ Freeing(w))' => (Holding(w) \/ Freeing(w)) /\ node'[w] = node[w]
  BY DEF Keeps, Same, Inserting, Holding, Freeing
<1>. QED BY <1>1 DEF OneOwner

(* The obligations of a step of thread t.                                  *)
LEMMA Assemble ==
  ASSUME IInv, TypeOK', Shape', NEW t \in Threads,
         \A u \in Threads \ {t} : Same(u) /\ Gentle(u),
         OneOwner', Knows(t)', Ahead(t)'
  PROVE  IInv'
<1>1. \A u \in Threads \ {t} : Knows(u)' /\ Ahead(u)'
  BY SameKnows DEF IInv, Shape
<1>. QED BY <1>1 DEF IInv

(* The same for a step that writes no shared word.                         *)
LEMMA AssembleQuiet ==
  ASSUME IInv, TypeOK', Quiet, NEW t \in Threads,
         \A u \in Threads \ {t} : Same(u), Keeps(t), Knows(t)', Ahead(t)'
  PROVE  IInv'
BY QuietShape, KeepOwner, Assemble DEF IInv

-----------------------------------------------------------------------------
(* The steps that write no shared word.                                    *)

LEMMA CallSafe ==
  ASSUME IInv, TypeOK', NEW t \in Threads, Call(t)
  PROVE  IInv'
<1>. USE DEF Call, Goto, memory, locals
<1>1. PICK c \in Calls : /\ c = program[t][called[t] + 1]
                         /\ pc' = [pc EXCEPT ![t] = c.op]
                         /\ seen' = [seen EXCEPT ![t] =
                              IF c.op = "delete" THEN {n \in linked : data[n] = c.key} ELSE {}]
  BY CallFacts DEF IInv
<1>2. c.op \in {"insert", "delete", "delete_first"}
  BY DEF Calls
<1>3. Quiet /\ \A u \in Threads \ {t} : Same(u)
  BY <1>1 DEF Quiet, Same, IInv, TypeOK
<1>4. pc'[t] = c.op /\ left'[t] = left[t]
  BY <1>1 DEF IInv, TypeOK
<1>5. Keeps(t) /\ Knows(t)'
  BY <1>2, <1>3, <1>4 DEF Keeps, Knows, Quiet, Inserting, Holding, Freeing, Walking, Marking,
     Entered, IInv
<1>6. seen'[t] = IF c.op = "delete" THEN {n \in linked : data[n] = c.key} ELSE {}
  BY <1>1 DEF IInv, TypeOK
<1>7. called'[t] = called[t] + 1 /\ Key(t)' = c.key
  BY <1>1 DEF IInv, TypeOK, Key
<1>. HIDE DEF Call, Goto, memory, locals
<1>8. seen'[t] \subseteq Entered'
  BY <1>3, <1>6 DEF Quiet, Entered, IInv, Shape, Stamped
<1>9. Seeking(t)' => \A z \in Sought(t)' : data'[z] = Key(t)'
  <2>1. Seeking(t)' => c.op = "delete"
    BY <1>2, <1>4 DEF Seeking
  <2>2. data' = data
    BY <1>3 DEF Quiet
  <2>. QED BY <1>6, <1>7, <2>1, <2>2 DEF Sought
<1>10. ~Seeking(t)' => seen'[t] = {}
  BY <1>2, <1>4, <1>6 DEF Seeking
<1>11. Ahead(t)'
  BY <1>2, <1>4, <1>8, <1>9, <1>10 DEF Ahead
<1>. QED BY <1>3, <1>5, <1>11, AssembleQuiet

LEMMA InsertQuietSafe ==
  ASSUME IInv, TypeOK', NEW t \in Threads,
         \/ InsertNoMemory(t) \/ InsertRead(t)
         \/ InsertCas(t) /\ CasFails(left[t], succ[t]) /\ UNCHANGED <<linked, stamp>>
              /\ Goto(t, "insert_read") /\ UNCHANGED ret
  PROVE  IInv'
<1>. USE DEF InsertNoMemory, InsertRead, InsertCas, CasFails, Goto, Return, memory, locals, ghosts
<1>1. Quiet /\ \A u \in Threads \ {t} : Same(u)
  BY DEF Quiet, Same, IInv, TypeOK
<1>2. /\ pc[t] \in {"insert", "insert_read", "insert_cas"}
      /\ pc'[t] \in {"idle", "insert_next", "insert_read"}
      /\ pc[t] = "insert" => pc'[t] = "idle"
      /\ pc'[t] = "insert_next" => left'[t] = HEAD
      /\ left'[t] \in {left[t], HEAD}
      /\ node'[t] = node[t] /\ seen'[t] = seen[t]
  BY DEF IInv, TypeOK
<1>3. Inserting(t)' => Inserting(t)
  BY <1>2 DEF Inserting
<1>4. Keeps(t) /\ Knows(t)'
  BY <1>1, <1>2, <1>3 DEF Keeps, Knows, Quiet, Private, Inserting, Holding, Freeing, Walking, Marking,
     Entered, IInv, Shape, Stamped
<1>5. Ahead(t)'
  BY <1>1, <1>2 DEF Ahead, Sought, Seeking, Quiet, Entered, IInv
<1>. QED BY <1>1, <1>4, <1>5, AssembleQuiet

(* A walk that goes on to the cell n.                                      *)
LEMMA VisitSafe ==
  ASSUME IInv, TypeOK', NEW t \in Threads, NEW n \in Entered \cup {NULL}, Visit(t, n),
         pc[t] \in {"delete", "advance"}, n # HEAD, left'[t] \in Entered,
         \A z \in Sought(t) : stamp[z] <= Age(n),
         \A u \in Threads \ {t} : left'[u] = left[u],
         UNCHANGED <<memory, succ, program, called, out, ghosts>>
  PROVE  IInv'
<1>1. /\ Quiet /\ \A u \in Threads \ {t} : Same(u)
      /\ node'[t] = n /\ seen' = seen /\ Key(t)' = Key(t)
      /\ n = TAIL => pc'[t] = "idle"
      /\ n # TAIL => pc'[t] = "compare"
  BY DEF Visit, Goto, Return, Quiet, Same, IInv, TypeOK, memory, ghosts, Key
<1>2. Keeps(t) /\ Knows(t)'
  BY <1>1 DEF Keeps, Knows, Quiet, Inserting, Holding, Freeing, Walking, Marking, Entered
<1>3. \A z \in Sought(t) : data[z] = Key(t) /\ Key(t) \in Keys
  BY KeyType DEF IInv, Ahead, Seeking
<1>4. ASSUME n = TAIL PROVE Sought(t) = {}
  <2>1. Age(n) = 1 /\ TAIL \in Entered
    BY <1>4, StampFacts DEF IInv, Shape, Stamped
  <2>2. ASSUME NEW z \in Sought(t) PROVE FALSE
    <3>1. z \in Entered /\ stamp[z] \in Nat /\ stamp[z] > 0 /\ stamp[z] <= 1
      BY <2>1, StampFacts DEF Sought, IInv, Shape, Stamped
    <3>2. z = TAIL
      BY <2>1, <3>1 DEF IInv, Shape, Stamped
    <3>. QED BY <1>3, <3>2 DEF IInv, Shape, Allocated
  <2>. QED BY <2>2
<1>5. Sought(t)' = Sought(t) /\ Entered' = Entered /\ data' = data /\ stamp' = stamp
      /\ Age(n)' = Age(n)
  BY <1>1 DEF Sought, Quiet, Entered, Age
<1>6. CASE n = TAIL
  <2>1. pc'[t] = "idle" /\ ~Seeking(t)'
    BY <1>1, <1>6 DEF Seeking
  <2>2. Ahead(t)'
    BY <1>1, <1>4, <1>5, <1>6, <2>1 DEF Ahead, IInv
  <2>. QED BY <1>1, <1>2, <2>2, AssembleQuiet
<1>7. CASE n # TAIL
  <2>1. pc'[t] = "compare"
    BY <1>1, <1>7
  <2>2. Age(node[t])' = Age(n)
    BY <1>1, <1>5 DEF Age
  <2>3. Ahead(t)'
    BY <1>1, <1>3, <1>5, <2>1, <2>2 DEF Ahead, IInv, Seeking
  <2>. QED BY <1>1, <1>2, <2>3, AssembleQuiet
<1>. QED BY <1>6, <1>7

LEMMA SearchStartSafe ==
  ASSUME IInv, TypeOK', NEW t \in Threads, SearchStart(t)
  PROVE  IInv'
<1>1. HEAD \in linked /\ HEAD \in Entered
  BY StampFacts DEF IInv, Shape, Stamped
<1>2. /\ next[HEAD].ref \in Entered \cup {NULL} /\ next[HEAD].ref # HEAD
      /\ \A z \in linked : stamp[z] < stamp[HEAD] => stamp[z] <= Age(next[HEAD].ref)
  BY <1>1, StampFacts DEF IInv, Shape, Ordered
<1>3. \A z \in Sought(t) : z \in linked /\ z # HEAD
  BY KeyType DEF IInv, Shape, Allocated, Ahead, SearchStart, Seeking, Sought
<1>4. \A z \in Sought(t) : stamp[z] <= Age(next[HEAD].ref)
  BY <1>2, <1>3, StampFacts DEF IInv, Shape
<1>. QED BY <1>1, <1>2, <1>4, VisitSafe DEF SearchStart, IInv, TypeOK

LEMMA SearchAdvanceSafe ==
  ASSUME IInv, TypeOK', NEW t \in Threads, SearchAdvance(t)
  PROVE  IInv'
<1>1. pc[t] = "advance" /\ node[t] \in Entered /\ node[t] \in Cells
  BY StampFacts DEF IInv, Shape, Knows, SearchAdvance, Walking
<1>2. DelMark(next[node[t]]).ref = next[node[t]].ref
  BY <1>1, MarkType DEF IInv, TypeOK
<1>3. /\ next[node[t]].ref \in Entered \cup {NULL} /\ next[node[t]].ref # HEAD
      /\ \A z \in linked : stamp[z] < stamp[node[t]] => stamp[z] <= Age(next[node[t]].ref)
  BY <1>1, StampFacts DEF IInv, Shape, Ordered
<1>4. \A z \in Sought(t) : z \in linked /\ z # node[t] /\ stamp[z] <= stamp[node[t]]
  BY <1>1, StampFacts DEF IInv, Shape, Ahead, Sought
<1>5. \A z \in Sought(t) : stamp[z] <= Age(next[node[t]].ref)
  BY <1>1, <1>3, <1>4, StampFacts DEF IInv, Shape, Stamped
<1>. QED BY <1>1, <1>2, <1>3, <1>5, VisitSafe DEF SearchAdvance, IInv, TypeOK

(* A NULL pointer ends the process: no thread takes another step.          *)
LEMMA SearchCompareSafe ==
  ASSUME IInv, TypeOK', NEW t \in Threads, SearchCompare(t)
  PROVE  IInv'
<1>. USE DEF SearchCompare, Goto, memory, locals, ghosts
<1>1. Quiet /\ UNCHANGED <<left, node, succ, ret, seen, program, called>>
  BY DEF Quiet
<1>2. CASE node[t] = NULL
  <2>1. \A u \in Threads : pc'[u] = "killed"
    BY <1>2, CellsAssumption
  <2>2. OneOwner' /\ \A u \in Threads : Knows(u)' /\ Ahead(u)'
    BY <1>1, <2>1 DEF IInv, OneOwner, Knows, Ahead, Inserting, Holding, Freeing, Walking,
       Marking, Seeking, Quiet, Entered
  <2>. QED BY <1>1, <2>2, QuietShape DEF IInv
<1>3. CASE node[t] # NULL
  <2>1. \A u \in Threads \ {t} : Same(u)
    BY <1>1, <1>3 DEF Same, IInv, TypeOK
  <2>2. /\ pc[t] = "compare"
        /\ \/ pc'[t] = "check_left"
           \/ pc'[t] = "advance" /\ data[node[t]] # Key(t)
    BY <1>3 DEF IInv, TypeOK
  <2>3. Keeps(t) /\ Knows(t)'
    BY <1>1, <1>3, <2>2 DEF Keeps, Knows, Quiet, Inserting, Holding, Freeing, Walking, Marking,
       Entered, IInv
  <2>4. Seeking(t)' /\ Seeking(t) /\ Key(t)' = Key(t) /\ Sought(t)' = Sought(t)
        /\ Age(node[t])' = Age(node[t])
    BY <1>1, <2>2 DEF Seeking, Key, Sought, Quiet, Age
  <2>5. pc'[t] = "advance" => node'[t] \notin Sought(t)'
    BY <1>1, <2>2, <2>4 DEF IInv, Ahead
  <2>6. Ahead(t)'
    BY <1>1, <2>2, <2>4, <2>5 DEF Ahead, IInv, Quiet, Entered
  <2>. QED BY <1>1, <2>1, <2>3, <2>6, AssembleQuiet
<1>. QED BY <1>2, <1>3

(* The other steps of a deletion that only read.                           *)
LEMMA ReadingSafe ==
  ASSUME IInv, TypeOK', NEW t \in Threads, Quiet,
         \A u \in Threads \ {t} : Same(u),
         UNCHANGED <<left, node, seen, program, called, ret>>,
         Walking(t) \/ Marking(t) \/ Holding(t), pc[t] # "compare", pc[t] # "advance",
         pc'[t] \notin {"compare", "advance", "idle"},
         Walking(t)' => Walking(t),
         Marking(t)' => (Walking(t) \/ Marking(t)) /\ ~succ'[t].mark,
         Holding(t)' => Holding(t) /\ succ' = succ,
         ~Freeing(t)' /\ ~Inserting(t)',
         Seeking(t)' <=> Seeking(t)
  PROVE  IInv'
<1>1. Keeps(t)
  BY DEF Keeps
<1>2. Knows(t)'
  BY DEF Knows, IInv, Quiet, Entered
<1>3. Key(t)' = Key(t) /\ Sought(t)' = Sought(t)
  BY DEF Key, Sought, Quiet
<1>4. ~Seeking(t) => seen[t] = {}
  BY DEF IInv, Ahead, Walking, Marking, Holding
<1>5. Ahead(t)'
  BY <1>3, <1>4 DEF Ahead, IInv, Quiet, Entered
<1>. QED BY <1>1, <1>2, <1>5, AssembleQuiet

LEMMA CheckSafe ==
  ASSUME IInv, TypeOK', NEW t \in Threads, NEW from, NEW bad, NEW to, Check(t, from, bad, to),
         from \in {"check_left", "check_node", "check_adjacent"},
         to \in {"check_node", "check_adjacent", "delete_next"}
  PROVE  IInv'
<1>. USE DEF Check, Goto, memory, locals, ghosts
<1>1. Quiet /\ \A u \in Threads \ {t} : Same(u)
  BY DEF Quiet, Same, IInv, TypeOK
<1>2. pc[t] = from /\ pc'[t] \in {"delete", to}
  BY DEF IInv, TypeOK
<1>. QED
  BY <1>1, <1>2, ReadingSafe DEF Walking, Marking, Holding, Freeing, Inserting, Seeking

LEMMA ReadNextSafe ==
  ASSUME IInv, TypeOK', NEW t \in Threads, NEW from, NEW retry, NEW mark,
         ReadNext(t, from, retry, mark),
         \/ from = "delete_next" /\ retry = "delete" /\ mark = "delete_mark"
         \/ from = "first_next" /\ retry = "delete_first" /\ mark = "first_mark"
  PROVE  IInv'
<1>. USE DEF ReadNext, Goto, memory, ghosts
<1>1. Quiet /\ \A u \in Threads \ {t} : Same(u)
  BY DEF Quiet, Same, IInv, TypeOK
<1>2. pc[t] = from /\ pc'[t] \in {retry, mark} /\ (pc'[t] = mark => ~succ'[t].mark)
  BY DEF IInv, TypeOK, CheckMark
<1>. QED
  BY <1>1, <1>2, ReadingSafe DEF Walking, Marking, Holding, Freeing, Inserting, Seeking

LEMMA MarkFailsSafe ==
  ASSUME IInv, TypeOK', NEW t \in Threads, NEW from, NEW retry, NEW unlink,
         Mark(t, from, retry, unlink), CasFails(node[t], succ[t]), Goto(t, retry),
         \/ from = "delete_mark" /\ retry = "delete"
         \/ from = "first_mark" /\ retry = "delete_first"
  PROVE  IInv'
<1>. USE DEF Mark, CasFails, Goto, locals, ghosts
<1>1. Quiet /\ \A u \in Threads \ {t} : Same(u)
  BY DEF Quiet, Same, IInv, TypeOK
<1>2. pc[t] = from /\ pc'[t] = retry
  BY DEF IInv, TypeOK
<1>. QED
  BY <1>1, <1>2, ReadingSafe DEF Walking, Marking, Holding, Freeing, Inserting, Seeking

LEMMA UnlinkFailsSafe ==
  ASSUME IInv, TypeOK', NEW t \in Threads, NEW from, NEW unmark, NEW free,
         Unlink(t, from, unmark, free), CasFails(left[t], Ptr(node[t])),
         UNCHANGED linked, Goto(t, unmark),
         \/ from = "delete_unlink" /\ unmark = "delete_unmark"
         \/ from = "first_unlink" /\ unmark = "first_unmark"
  PROVE  IInv'
<1>. USE DEF Unlink, CasFails, Goto, locals
<1>1. Quiet /\ \A u \in Threads \ {t} : Same(u)
  BY DEF Quiet, Same, IInv, TypeOK
<1>2. pc[t] = from /\ pc'[t] = unmark
  BY DEF IInv, TypeOK
<1>. QED
  BY <1>1, <1>2, ReadingSafe DEF Walking, Marking, Holding, Freeing, Inserting, Seeking

LEMMA FirstReadSafe ==
  ASSUME IInv, TypeOK', NEW t \in Threads, FirstRead(t)
  PROVE  IInv'
<1>. USE DEF FirstRead, Goto, Return, memory, ghosts
<1>1. Quiet /\ \A u \in Threads \ {t} : Same(u)
  BY DEF Quiet, Same, IInv, TypeOK
<1>2. HEAD \in Entered /\ next[HEAD].ref \in Entered \cup {NULL} /\ next[HEAD].ref # HEAD
  BY StampFacts DEF IInv, Shape, Ordered
<1>3. /\ left'[t] = HEAD /\ node'[t] = next[HEAD].ref
      /\ pc[t] = "delete_first" /\ pc'[t] \in {"idle", "first_next"}
      /\ pc'[t] = "first_next" => node'[t] # NULL
  BY DEF IInv, TypeOK
<1>4. Keeps(t) /\ Knows(t)'
  BY <1>1, <1>2, <1>3 DEF Keeps, Knows, Quiet, Inserting, Holding, Freeing, Walking, Marking, Entered
<1>5. Ahead(t)'
  BY <1>1, <1>3 DEF Ahead, IInv, Seeking, Sought, Quiet, Entered
<1>. QED BY <1>1, <1>4, <1>5, AssembleQuiet

LEMMA FirstDataSafe ==
  ASSUME IInv, TypeOK', NEW t \in Threads, FirstData(t)
  PROVE  IInv'
<1>. USE DEF FirstData, Goto, memory, locals, ghosts
<1>1. Quiet /\ \A u \in Threads \ {t} : Same(u)
  BY DEF Quiet, Same, IInv, TypeOK
<1>2. pc[t] = "first_data" /\ pc'[t] = "first_free"
  BY DEF IInv, TypeOK
<1>3. Keeps(t) /\ Knows(t)'
  BY <1>1, <1>2 DEF Keeps, Knows, Quiet, Inserting, Holding, Freeing, Walking, Marking, Entered, IInv
<1>4. Ahead(t)'
  BY <1>1, <1>2 DEF Ahead, IInv, Seeking, Sought, Quiet, Entered
<1>. QED BY <1>1, <1>3, <1>4, AssembleQuiet

-----------------------------------------------------------------------------
(* The steps of an insert that write.                                      *)

(* With no reuse a cell malloc returns has never been in the list, nor is  *)
(* it another thread's.                                                    *)
LEMMA InsertAllocSafe ==
  ASSUME Reuse = FALSE, IInv, TypeOK', NEW t \in Threads, InsertAlloc(t)
  PROVE  IInv'
<1>. USE DEF InsertAlloc, Goto, memory, ghosts
<1>1. PICK n \in Available : /\ heap' = [heap EXCEPT ![n] = "allocated"]
                             /\ node' = [node EXCEPT ![t] = n]
  OBVIOUS
<1>2. n \in Cells /\ heap[n] = "unused" /\ n \notin Entered
  BY DEF Available, IInv, Shape, Allocated, Entered
<1>3. UNCHANGED <<data, next, linked, stamp>> /\ Entered' = Entered
      /\ \A p : Age(p)' = Age(p)
  BY DEF Entered, Age
<1>4. /\ pc[t] = "insert" /\ pc'[t] = "insert_read" /\ node'[t] = n /\ left'[t] = left[t]
      /\ heap'[n] = "allocated" /\ \A c \in Cells \ {n} : heap'[c] = heap[c]
  BY <1>1, <1>2 DEF IInv, TypeOK
<1>. HIDE DEF InsertAlloc
<1>5. Shape'
  <2>1. Ordered' /\ Closed' /\ Stamped' /\ Marked'
    BY <1>3 DEF IInv, Shape, Ordered, Closed, Stamped, Marked
  <2>2. Allocated'
    BY <1>2, <1>3, <1>4, StampFacts DEF IInv, Shape, Allocated
  <2>. QED BY <2>1, <2>2 DEF Shape
<1>6. \A u \in Threads \ {t} : Same(u)
  BY <1>1 DEF InsertAlloc, Same, IInv, TypeOK
<1>7. \A u \in Threads : (Inserting(u) \/ Freeing(u)) => node[u] \in Cells \ {n}
  BY <1>2, StampFacts DEF IInv, Shape, Knows, Private
<1>8. \A u \in Threads \ {t} : Gentle(u)
  BY <1>3, <1>4, <1>7 DEF Gentle, IInv, Knows, Private
<1>9. OneOwner'
  BY <1>4, <1>6, <1>7 DEF OneOwner, Same, IInv, Inserting, Holding, Freeing
<1>10. Knows(t)'
  BY <1>2, <1>3, <1>4 DEF Knows, Private, Inserting, Holding, Freeing, Walking, Marking, IInv
<1>11. Ahead(t)'
  BY <1>3, <1>4 DEF Ahead, IInv, Seeking, Sought, InsertAlloc
<1>. QED BY <1>5, <1>6, <1>8, <1>9, <1>10, <1>11, Assemble

(* The new cell's own words change; nobody else can have them in mind.     *)
LEMMA InsertWriteSafe ==
  ASSUME IInv, TypeOK', NEW t \in Threads, InsertSetNext(t) \/ InsertSetData(t)
  PROVE  IInv'
<1>. USE DEF InsertSetNext, InsertSetData, Goto, locals, ghosts
<1>1. /\ node[t] \in Cells \ Entered
      /\ Inserting(t) /\ Inserting(t)'
      /\ UNCHANGED <<heap, linked, stamp, left, node, succ, seen, program, called>>
      /\ \A u \in Threads \ {t} : Same(u)
      /\ \A c \in Cells \ {node[t]} : data'[c] = data[c] /\ next'[c] = next[c]
  <2>1. Inserting(t) /\ Inserting(t)'
    BY DEF Inserting, IInv, TypeOK
  <2>2. node[t] \in Cells \ Entered
    BY <2>1 DEF IInv, Knows, Private
  <2>3. \A c \in Cells \ {node[t]} : data'[c] = data[c] /\ next'[c] = next[c]
    BY <2>2 DEF IInv, TypeOK
  <2>4. \A u \in Threads \ {t} : Same(u)
    BY DEF Same, IInv, TypeOK
  <2>. QED BY <2>1, <2>2, <2>3, <2>4
<1>2. Private(t)'
  <2>1. CASE InsertSetNext(t)
    BY <1>1, <2>1 DEF Private, IInv, Knows, TypeOK, Entered
  <2>2. CASE InsertSetData(t)
    BY <1>1, <2>2 DEF Private, IInv, Knows, TypeOK, Entered, Key
  <2>. QED BY <2>1, <2>2
<1>3. pc[t] \in {"insert_next", "insert_data"} /\ pc'[t] \in {"insert_data", "insert_cas"}
  BY DEF IInv, TypeOK
<1>. HIDE DEF InsertSetNext, InsertSetData, Goto
<1>4. Entered' = Entered /\ (\A p : Age(p)' = Age(p))
      /\ \A c \in Entered : c \in Cells /\ data'[c] = data[c] /\ next'[c] = next[c]
  BY <1>1, StampFacts DEF Entered, Age, IInv, Shape
<1>5. Shape'
  <2>1. linked \subseteq Entered /\ HEAD \in Entered /\ TAIL \in Entered
    BY StampFacts DEF IInv, Shape
  <2>2. Ordered' /\ Closed' /\ Stamped' /\ Marked'
    BY <1>1, <1>4, <2>1 DEF IInv, Shape, Ordered, Closed, Stamped, Marked
  <2>3. Allocated'
    BY <1>1, <1>4, <2>1 DEF IInv, Shape, Allocated
  <2>. QED BY <2>2, <2>3 DEF Shape
<1>6. \A u \in Threads \ {t} : Gentle(u)
  <2>1. \A u \in Threads \ {t} : Inserting(u) => node[u] \in Cells \ {node[t]}
    BY <1>1 DEF IInv, OneOwner, Knows, Private
  <2>. QED BY <1>1, <1>4, <2>1 DEF Gentle, IInv, Knows, Private
<1>7. OneOwner'
  BY <1>1, <1>3, KeepOwner DEF Keeps, IInv, Inserting, Holding, Freeing
<1>8. Knows(t)'
  BY <1>1, <1>2, <1>3, <1>4 DEF Knows, Inserting, Holding, Freeing, Walking, Marking, IInv
<1>9. Ahead(t)'
  BY <1>1, <1>3, <1>4 DEF Ahead, IInv, Seeking, Sought
<1>. QED BY <1>1, <1>5, <1>6, <1>7, <1>8, <1>9, Assemble

-----------------------------------------------------------------------------
(* The steps of a deletion that write.                                     *)

(* Putting a mark on a cell of the list, or taking it off.                 *)
LEMMA FlipMark ==
  ASSUME IInv, NEW n \in linked \ {HEAD}, NEW p \in Pointers, p.ref = next[n].ref,
         next' = [next EXCEPT ![n] = p], UNCHANGED <<data, heap, linked, stamp>>
  PROVE  /\ Shape'
         /\ \A u \in Threads : (Holding(u) => node[u] # n) => Gentle(u)
<1>1. Entered' = Entered /\ (\A q : Age(q)' = Age(q)) /\ n \in Entered /\ Entered \subseteq Cells
  BY StampFacts DEF Entered, Age, IInv, Shape
<1>2. /\ \A c \in Entered : next'[c].ref = next[c].ref
      /\ \A c \in Cells \ {n} : next'[c] = next[c]
  BY <1>1 DEF IInv, TypeOK
<1>3. Ordered' /\ Closed' /\ Stamped' /\ Allocated'
  BY <1>1, <1>2, StampFacts DEF IInv, Shape, Ordered, Closed, Stamped, Allocated
<1>4. Marked'
  BY <1>1, <1>2 DEF IInv, Shape, Marked
<1>5. ASSUME NEW u \in Threads, Holding(u) => node[u] # n PROVE Gentle(u)
  <2>1. Inserting(u) => node[u] \in Cells \ {n}
    BY <1>1 DEF IInv, Knows, Private
  <2>2. Holding(u) => node[u] \in Cells \ {n}
    BY <1>1, <1>5, StampFacts DEF IInv, Shape, Knows
  <2>. QED BY <1>1, <1>2, <2>1, <2>2 DEF Gentle, IInv, Knows, Private
<1>. QED BY <1>3, <1>4, <1>5 DEF Shape

LEMMA MarkSucceedsSafe ==
  ASSUME IInv, TypeOK', NEW t \in Threads, NEW from, NEW retry, NEW unlink,
         Mark(t, from, retry, unlink), CasSucceeds(node[t], succ[t], SetMark(succ[t])),
         Goto(t, unlink),
         \/ from = "delete_mark" /\ unlink = "delete_unlink"
         \/ from = "first_mark" /\ unlink = "first_unlink"
  PROVE  IInv'
<1>1. /\ pc[t] = from /\ pc'[t] = unlink /\ \A u \in Threads \ {t} : Same(u)
      /\ UNCHANGED <<data, heap, linked, stamp, left, node, succ, seen, program, called>>
      /\ next' = [next EXCEPT ![node[t]] = SetMark(succ[t])] /\ next[node[t]] = succ[t]
  BY DEF Mark, CasSucceeds, Goto, Same, locals, ghosts, IInv, TypeOK
<1>2. Marking(t) /\ ~succ[t].mark /\ node[t] \in Entered \ {HEAD}
  BY <1>1 DEF Marking, IInv, Knows
<1>3. node[t] \in linked \ {HEAD}
  BY <1>1, <1>2 DEF IInv, Shape, Marked
<1>4. succ[t] \in Pointers
  BY DEF IInv, TypeOK
<1>5. SetMark(succ[t]) \in Pointers /\ SetMark(succ[t]).ref = next[node[t]].ref
  BY <1>1, <1>4, MarkType
<1>6. \A u \in Threads : (Holding(u) \/ Freeing(u)) => node[u] # node[t]
  <2>1. ASSUME NEW u \in Threads, Holding(u) PROVE next[node[u]].mark = TRUE
    <3>1. next[node[u]] = SetMark(succ[u]) /\ succ[u] \in Pointers
      BY <2>1 DEF IInv, TypeOK, Knows
    <3>. QED BY <3>1, MarkType
  <2>. QED BY <1>1, <1>2, <1>3, <2>1, ZenonT(60) DEF IInv, Knows
<1>7. Shape' /\ \A u \in Threads : Gentle(u)
  BY <1>1, <1>3, <1>5, <1>6, FlipMark
<1>8. OneOwner'
  BY <1>1, <1>6 DEF OneOwner, Same, IInv, Inserting, Holding, Freeing
<1>9. node[t] \in linked' /\ next'[node[t]] = SetMark(succ[t])' /\ left'[t] \in Entered'
      /\ Entered' = Entered
  BY <1>1, <1>3, StampFacts DEF IInv, Shape, TypeOK, Entered, SetMark, Knows
<1>10. Knows(t)'
  BY <1>1, <1>2, <1>3, <1>9 DEF Knows, Inserting, Holding, Freeing, Walking, Marking
<1>11. Seeking(t)' <=> Seeking(t)
  BY <1>1 DEF Seeking
<1>12. Ahead(t)'
  BY <1>1, <1>9, <1>11 DEF Ahead, IInv, Sought, Key
<1>. QED BY <1>1, <1>7, <1>8, <1>10, <1>12, Assemble

LEMMA UnmarkSafe ==
  ASSUME IInv, TypeOK', NEW t \in Threads, NEW from, NEW retry, Unmark(t, from, retry),
         \/ from = "delete_unmark" /\ retry = "delete"
         \/ from = "first_unmark" /\ retry = "delete_first"
  PROVE  IInv'
<1>1. /\ pc[t] = from /\ pc'[t] = retry /\ \A u \in Threads \ {t} : Same(u)
      /\ UNCHANGED <<data, heap, linked, stamp, left, node, succ, seen, program, called>>
  BY DEF Unmark, Goto, Same, locals, ghosts, IInv, TypeOK
<1>2. Holding(t)
  BY <1>1 DEF Holding
<1>3. node[t] \in linked \ {HEAD} /\ next[node[t]] = SetMark(succ[t]) /\ succ[t] \in Pointers
  BY <1>2 DEF IInv, Knows, TypeOK
<1>4. next' = [next EXCEPT ![node[t]] = DelMark(succ[t])]
  BY <1>3 DEF Unmark
<1>5. DelMark(succ[t]) \in Pointers /\ DelMark(succ[t]).ref = next[node[t]].ref
  BY <1>3, MarkType
<1>6. \A u \in Threads \ {t} : Holding(u) => node[u] # node[t]
  BY <1>2 DEF IInv, OneOwner
<1>7. Shape' /\ \A u \in Threads \ {t} : Gentle(u)
  BY <1>1, <1>3, <1>4, <1>5, <1>6, FlipMark
<1>8. OneOwner'
  BY <1>1, KeepOwner DEF Keeps, IInv, Inserting, Holding, Freeing
<1>9. Knows(t)'
  BY <1>1 DEF Knows, Inserting, Holding, Freeing, Walking, Marking, Entered, IInv
<1>10. Seeking(t)' <=> Seeking(t)
  BY <1>1 DEF Seeking
<1>11. Ahead(t)'
  BY <1>1, <1>10 DEF Ahead, IInv, Sought, Key, Entered
<1>. QED BY <1>1, <1>7, <1>8, <1>9, <1>11, Assemble

LEMMA FreeSafe ==
  ASSUME IInv, TypeOK', NEW t \in Threads, NEW from, Free(t, from),
         from \in {"delete_free", "first_free"}
  PROVE  IInv'
<1>1. PICK d \in {data[node[t]], Junk} : data' = [data EXCEPT ![node[t]] = d]
  BY DEF Free
<1>2. /\ pc[t] = from /\ pc'[t] = "idle" /\ ret'[t] = "ok" /\ \A u \in Threads \ {t} : Same(u)
      /\ UNCHANGED <<next, linked, stamp, left, node, succ, seen, program, called>>
      /\ heap' = [heap EXCEPT ![node[t]] = "freed"]
  BY DEF Free, Goto, Return, Same, locals, ghosts, IInv, TypeOK
<1>3. Freeing(t)
  BY <1>2 DEF Freeing
<1>4. node[t] \in Entered \ linked /\ node[t] \in Cells /\ node[t] # HEAD
  BY <1>3, StampFacts DEF IInv, Shape, Knows
<1>5. /\ Entered' = Entered /\ \A p : Age(p)' = Age(p)
      /\ \A c \in Cells \ {node[t]} : data'[c] = data[c] /\ heap'[c] = heap[c]
      /\ heap'[node[t]] = "freed" /\ data'[node[t]] = d
  BY <1>1, <1>2, <1>4 DEF Entered, Age, IInv, TypeOK
<1>6. Shape'
  <2>1. Ordered' /\ Closed' /\ Stamped' /\ Marked'
    BY <1>2, <1>5 DEF IInv, Shape, Ordered, Closed, Stamped, Marked
  <2>2. data'[HEAD] \in {NULL, Junk} /\ data'[TAIL] \in {NULL, Junk}
    BY <1>1, <1>4, <1>5 DEF IInv, Shape, Allocated
  <2>3. Allocated'
    BY <1>2, <1>4, <1>5, <2>2, StampFacts DEF IInv, Shape, Allocated
  <2>. QED BY <2>1, <2>3 DEF Shape
<1>7. \A u \in Threads \ {t} : Gentle(u)
  <2>1. \A u \in Threads \ {t} : Freeing(u) \/ Inserting(u) => node[u] \in Cells \ {node[t]}
    BY <1>3, <1>4, StampFacts DEF IInv, Shape, OneOwner, Knows, Private
  <2>2. linked \subseteq Cells \ {node[t]}
    BY <1>4 DEF IInv, TypeOK
  <2>. QED BY <1>2, <1>5, <2>1, <2>2 DEF Gentle, IInv, Knows, Private
<1>8. OneOwner'
  BY <1>2, KeepOwner DEF Keeps, IInv, Inserting, Holding, Freeing
<1>9. Knows(t)'
  BY <1>2, <1>5 DEF Knows, Inserting, Holding, Freeing, Walking, Marking, IInv
<1>10. Ahead(t)'
  BY <1>2, <1>5 DEF Ahead, IInv, Seeking
<1>. QED BY <1>2, <1>6, <1>7, <1>8, <1>9, <1>10, Assemble

(* Swinging left past n takes n, and only n, out of the list.              *)
LEMMA UnlinkShape ==
  ASSUME IInv, NEW l \in Entered, NEW n \in linked \ {HEAD}, NEW p \in Pointers,
         next[l] = Ptr(n), next[n].mark = TRUE, p.ref = next[n].ref, p.mark = FALSE,
         next' = [next EXCEPT ![l] = p], linked' = linked \ {n},
         UNCHANGED <<data, heap, stamp>>
  PROVE  Shape' /\ l \in linked /\ l # n
<1>. USE StampFacts DEF IInv, Shape
<1>1. /\ Entered' = Entered /\ (\A q : Age(q)' = Age(q))
      /\ n \in Entered /\ Entered \subseteq Cells
      /\ next[l].ref = n /\ next[l].mark = FALSE
  BY PtrType DEF Entered, Age
<1>2. l # n /\ l \in linked
  BY <1>1 DEF Marked
<1>3. next'[l] = p /\ \A c \in Cells \ {l} : next'[c] = next[c]
  BY <1>1 DEF TypeOK
<1>4. Age(n) = stamp[n] /\ stamp[n] < stamp[l] /\ Age(p.ref) < stamp[n] /\ p.ref # n
  <2>1. Age(next[l].ref) < stamp[l] /\ Age(next[n].ref) < stamp[n]
    BY <1>1 DEF Ordered
  <2>2. stamp[n] \in Nat /\ Age(n) = stamp[n]
    BY <1>1
  <2>. QED BY <1>1, <2>1, <2>2
<1>5. p.ref \in Entered \cup {NULL} /\ (p.ref = NULL \/ p.ref \in Entered)
  BY <1>1 DEF Ordered
<1>6. Ordered'
  <2>1. ASSUME NEW m \in Entered
        PROVE  /\ next'[m].ref \in Entered \cup {NULL}
               /\ Age(next'[m].ref) < stamp[m]
               /\ \A z \in linked' : stamp[z] < stamp[m] => stamp[z] <= Age(next'[m].ref)
    <3>1. CASE m = l
      <4>1. stamp[l] \in Nat /\ stamp[n] \in Nat /\ Age(p.ref) \in Nat
        BY <1>1, <1>5 DEF TypeOK
      <4>2. ASSUME NEW z \in linked \ {n}, stamp[z] < stamp[l] PROVE stamp[z] <= Age(p.ref)
        <5>1. stamp[z] <= stamp[n] /\ z \in Entered
          BY <1>1, <1>4, <4>2 DEF Ordered
        <5>2. stamp[z] < stamp[n]
          BY <1>1, <5>1, <4>1, <4>2 DEF Stamped, TypeOK
        <5>. QED BY <1>1, <5>2 DEF Ordered
      <4>. QED BY <1>3, <1>4, <1>5, <3>1, <4>1, <4>2
    <3>2. CASE m # l
      BY <1>1, <1>3, <3>2 DEF Ordered
    <3>. QED BY <3>1, <3>2
  <2>. QED BY <1>1, <2>1 DEF Ordered
<1>7. \A m \in linked : next[m].ref = n => m = l
  <2>1. ASSUME NEW m \in linked, next[m].ref = n, m # l PROVE FALSE
    <3>1. stamp[n] < stamp[m]
      BY <1>1, <1>4, <2>1 DEF Ordered
    <3>2. stamp[m] # stamp[l]
      BY <2>1, <1>2 DEF Stamped
    <3>3. stamp[m] \in Nat /\ stamp[l] \in Nat /\ stamp[n] \in Nat
      BY <1>1 DEF TypeOK
    <3>4. CASE stamp[m] < stamp[l]
      BY <1>1, <1>4, <3>1, <3>3, <3>4 DEF Ordered
    <3>5. CASE stamp[l] < stamp[m]
      <4>1. stamp[l] <= Age(next[m].ref)
        BY <1>2, <3>5, <2>1 DEF Ordered
      <4>. QED BY <1>4, <2>1, <3>3, <4>1
    <3>. QED BY <3>2, <3>3, <3>4, <3>5
  <2>. QED BY <2>1
<1>8. Closed'
  <2>1. ASSUME NEW m \in linked' PROVE next'[m].ref \in linked' \cup {NULL}
    BY <1>1, <1>3, <1>4, <1>7, <2>1 DEF Closed
  <2>2. ASSUME NEW z \in linked' \ {HEAD} PROVE \E m \in linked' : next'[m].ref = z
    <3>1. PICK m \in linked : next[m].ref = z
      BY <2>2 DEF Closed
    <3>2. CASE m = n
      BY <1>2, <1>3, <3>1, <3>2
    <3>3. CASE m # n
      BY <1>1, <1>3, <2>2, <3>1, <3>3
    <3>. QED BY <3>2, <3>3
  <2>. QED BY <2>1, <2>2 DEF Closed
<1>9. Stamped' /\ Allocated'
  BY <1>1 DEF Stamped, Allocated
<1>10. Marked'
  BY <1>1, <1>2, <1>3 DEF Marked, TypeOK
<1>. QED BY <1>2, <1>6, <1>8, <1>9, <1>10

LEMMA UnlinkSucceedsSafe ==
  ASSUME IInv, TypeOK', NEW t \in Threads, NEW from, NEW unmark, NEW free,
         Unlink(t, from, unmark, free), CasSucceeds(left[t], Ptr(node[t]), succ[t]),
         linked' = linked \ {node[t]}, Goto(t, free),
         \/ from = "delete_unlink" /\ free = "delete_free"
         \/ from = "first_unlink" /\ free = "first_data"
  PROVE  IInv'
<1>1. /\ pc[t] = from /\ pc'[t] = free /\ \A u \in Threads \ {t} : Same(u)
      /\ UNCHANGED <<data, heap, stamp, left, node, succ, seen, program, called>>
      /\ next' = [next EXCEPT ![left[t]] = succ[t]] /\ next[left[t]] = Ptr(node[t])
  BY DEF Unlink, CasSucceeds, Goto, Same, locals, IInv, TypeOK
<1>2. Holding(t)
  BY <1>1 DEF Holding
<1>3. /\ left[t] \in Entered /\ node[t] \in linked \ {HEAD} /\ succ[t] \in Pointers
      /\ next[node[t]] = SetMark(succ[t]) /\ ~succ[t].mark /\ succ[t].mark \in BOOLEAN
  BY <1>2, RefType DEF IInv, Knows, TypeOK
<1>4. next[node[t]].mark = TRUE /\ next[node[t]].ref = succ[t].ref /\ succ[t].mark = FALSE
  BY <1>3, MarkType
<1>5. Shape' /\ left[t] \in linked /\ left[t] # node[t]
  BY <1>1, <1>3, <1>4, UnlinkShape
<1>6. Entered' = Entered /\ (\A q : Age(q)' = Age(q)) /\ left[t] \in Cells
      /\ next[left[t]].mark = FALSE /\ \A c \in Cells \ {left[t]} : next'[c] = next[c]
  BY <1>1, <1>3, PtrType DEF Entered, Age, IInv, TypeOK
<1>7. ASSUME NEW u \in Threads \ {t} PROVE Gentle(u)
  <2>1. Holding(u) => node[u] # node[t]
    BY <1>2 DEF IInv, OneOwner
  <2>2. Holding(u) => node[u] \in Cells \ {left[t]}
    <3>1. SUFFICES ASSUME Holding(u) PROVE node[u] \in Cells \ {left[t]}
      OBVIOUS
    <3>2. next[node[u]] = SetMark(succ[u]) /\ succ[u] \in Pointers /\ node[u] \in Cells
      BY <3>1 DEF IInv, Knows, TypeOK
    <3>3. next[node[u]].mark = TRUE
      BY <3>2, MarkType
    <3>. QED BY <1>6, <3>2, <3>3
  <2>3. Inserting(u) => node[u] \in Cells \ {left[t]}
    BY <1>3 DEF IInv, Knows, Private
  <2>4. Holding(u) => node[u] \in linked \ {node[t]}
    BY <2>1 DEF IInv, Knows
  <2>. QED BY <1>1, <1>6, <2>2, <2>3, <2>4 DEF Gentle, IInv, Knows, Private
<1>8. OneOwner'
  BY <1>1, KeepOwner DEF Keeps, IInv, Inserting, Holding, Freeing
<1>9. heap[node[t]] = "allocated"
  BY <1>3 DEF IInv, Shape, Allocated
<1>10. Knows(t)'
  BY <1>1, <1>2, <1>3, <1>6, <1>9, StampFacts
     DEF Knows, Inserting, Holding, Freeing, Walking, Marking, IInv, Shape
<1>11. Ahead(t)'
  BY <1>1, <1>6 DEF Ahead, IInv, Seeking, Sought
<1>. QED BY <1>1, <1>5, <1>7, <1>8, <1>10, <1>11, Assemble

-----------------------------------------------------------------------------
(* The compare-and-swap that publishes a new cell n in front of the list.  *)

LEMMA PublishStamps ==
  ASSUME IInv, NEW n \in Cells \ Entered,
         stamp' = [stamp EXCEPT ![n] = stamp[HEAD], ![HEAD] = stamp[HEAD] + 1]
  PROVE  /\ stamp'[n] = stamp[HEAD] /\ stamp'[HEAD] = stamp[HEAD] + 1
         /\ \A c \in Cells \ {n, HEAD} : stamp'[c] = stamp[c]
         /\ Entered' = Entered \cup {n} /\ n # HEAD /\ n # TAIL
         /\ \A q \in (Entered \cup {NULL}) \ {HEAD} : Age(q)' = Age(q)
         /\ stamp[HEAD] \in Nat /\ stamp[HEAD] > 0
<1>1. n # HEAD /\ n # TAIL /\ stamp \in [Cells -> Nat] /\ stamp[HEAD] \in Nat /\ stamp[HEAD] > 0
  BY StampFacts DEF IInv, Shape, TypeOK
<1>2. stamp' = [[stamp EXCEPT ![n] = stamp[HEAD]] EXCEPT ![HEAD] = stamp[HEAD] + 1]
  OBVIOUS
<1>3. [stamp EXCEPT ![n] = stamp[HEAD]] \in [Cells -> Nat]
  BY <1>1
<1>4. /\ stamp'[n] = stamp[HEAD] /\ stamp'[HEAD] = stamp[HEAD] + 1
      /\ \A c \in Cells \ {n, HEAD} : stamp'[c] = stamp[c]
  BY <1>1, <1>2, <1>3
<1>5. Entered' = Entered \cup {n}
  BY <1>1, <1>4 DEF Entered
<1>6. \A q \in (Entered \cup {NULL}) \ {HEAD} : Age(q)' = Age(q)
  BY <1>4, StampFacts DEF Age, IInv, Shape
<1>. QED BY <1>1, <1>4, <1>5, <1>6

LEMMA PublishShape ==
  ASSUME TypeOK, Shape, NEW n \in Cells \ Entered, heap[n] = "allocated",
         next[n] = next[HEAD], next'[HEAD].ref = n, next'[HEAD].mark = FALSE,
         \A c \in Cells \ {HEAD} : next'[c] = next[c],
         linked' = linked \cup {n},
         stamp'[n] = stamp[HEAD], stamp'[HEAD] = stamp[HEAD] + 1,
         \A c \in Cells \ {n, HEAD} : stamp'[c] = stamp[c],
         Entered' = Entered \cup {n}, n # HEAD, n # TAIL,
         \A q \in (Entered \cup {NULL}) \ {HEAD} : Age(q)' = Age(q),
         UNCHANGED <<data, heap>>
  PROVE  Shape'
<1>1. /\ Entered \subseteq Cells /\ linked \subseteq Entered /\ HEAD \in Entered
      /\ stamp[HEAD] \in Nat /\ stamp[HEAD] > 0 /\ Age(HEAD) = stamp[HEAD]
      /\ \A c \in Entered : stamp[c] \in Nat
      /\ \A c \in Entered \ {HEAD} : stamp[c] < stamp[HEAD] /\ stamp'[c] = stamp[c]
      /\ Age(NULL) = 0 /\ \A c \in Entered : Age(c) = stamp[c]
  BY StampFacts DEF Shape
<1>2. Age(n)' = stamp[HEAD]
  BY CellsAssumption DEF Age
<1>3. ASSUME NEW c \in Entered
      PROVE  /\ next[c].ref \in (Entered \cup {NULL}) \ {HEAD}
             /\ Age(next[c].ref) < stamp[c] /\ Age(next[c].ref) \in Nat
             /\ c # HEAD => Age(next[c].ref)' = Age(next[c].ref)
  <2>1. next[c].ref \in Entered \cup {NULL} /\ Age(next[c].ref) < stamp[c]
    BY DEF Shape, Ordered
  <2>2. next[c].ref # HEAD
    BY <1>1, <2>1
  <2>. QED BY <1>1, <2>1, <2>2
<1>4. ASSUME NEW z \in linked, z # HEAD
      PROVE  z \in Entered /\ stamp'[z] = stamp[z] /\ stamp[z] < stamp[HEAD] /\ stamp[z] \in Nat
  BY <1>1, <1>4
<1>5. Ordered'
  <2>1. ASSUME NEW m \in Entered \cup {n}
        PROVE  /\ next'[m].ref \in Entered \cup {n, NULL}
               /\ Age(next[m].ref)' < stamp'[m]
               /\ \A z \in linked \cup {n} :
                    stamp'[z] < stamp'[m] => stamp'[z] <= Age(next[m].ref)'
    <3>1. CASE m = HEAD
      <4>1. next'[m].ref = n /\ Age(next[m].ref)' = stamp[HEAD] /\ stamp'[m] = stamp[HEAD] + 1
        BY <1>2, <3>1
      <4>2. ASSUME NEW z \in linked \cup {n}, stamp'[z] < stamp[HEAD] + 1
            PROVE  stamp'[z] <= stamp[HEAD]
        BY <1>1, <1>4, <4>2
      <4>. QED BY <1>1, <4>1, <4>2
    <3>2. CASE m = n
      <4>1. next'[m].ref = next[HEAD].ref /\ Age(next[m].ref)' = Age(next[HEAD].ref)
            /\ stamp'[m] = stamp[HEAD] /\ next[HEAD].ref \in Entered \cup {NULL}
            /\ Age(next[HEAD].ref) < stamp[HEAD]
        BY <1>1, <1>3, <3>2
      <4>2. ASSUME NEW z \in linked \cup {n}, stamp'[z] < stamp[HEAD]
            PROVE  stamp'[z] <= Age(next[HEAD].ref)
        <5>1. z \in linked /\ z # HEAD
          BY <1>1, <4>2
        <5>. QED BY <1>1, <1>4, <5>1 DEF Shape, Ordered
      <4>. QED BY <4>1, <4>2
    <3>3. CASE m \in Entered /\ m # HEAD
      <4>1. /\ next'[m].ref = next[m].ref /\ Age(next[m].ref)' = Age(next[m].ref)
            /\ stamp'[m] = stamp[m] /\ stamp[m] < stamp[HEAD] /\ stamp[m] \in Nat
            /\ next[m].ref \in Entered \cup {NULL} /\ Age(next[m].ref) < stamp[m]
        BY <1>1, <1>3, <3>3
      <4>2. ASSUME NEW z \in linked \cup {n}, stamp'[z] < stamp[m]
            PROVE  stamp'[z] <= Age(next[m].ref)
        <5>1. z \in linked /\ z # HEAD
          BY <1>1, <4>1, <4>2
        <5>2. stamp'[z] = stamp[z]
          BY <1>4, <5>1
        <5>. QED BY <3>3, <4>2, <5>1, <5>2 DEF Shape, Ordered
      <4>. QED BY <4>1, <4>2
    <3>. QED BY <3>1, <3>2, <3>3
  <2>. QED BY <2>1 DEF Ordered
<1>6. Closed'
  <2>1. ASSUME NEW m \in linked \cup {n} PROVE next'[m].ref \in linked \cup {n, NULL}
    <3>1. \A k \in linked : next[k].ref \in linked \cup {NULL}
      BY DEF Shape, Closed
    <3>2. HEAD \in linked
      BY DEF Shape, Stamped
    <3>. QED BY <1>1, <3>1, <3>2
  <2>2. ASSUME NEW z \in (linked \cup {n}) \ {HEAD}
        PROVE  \E m \in linked \cup {n} : next'[m].ref = z
    <3>1. CASE z = n
      BY <1>1, <3>1 DEF Shape, Stamped
    <3>2. CASE z # n
      <4>1. PICK m \in linked : next[m].ref = z
        BY <2>2, <3>2 DEF Shape, Closed
      <4>2. CASE m = HEAD
        BY <4>1, <4>2
      <4>3. CASE m # HEAD
        BY <1>1, <4>1, <4>3
      <4>. QED BY <4>2, <4>3
    <3>. QED BY <3>1, <3>2
  <2>. QED BY <2>1, <2>2 DEF Closed
<1>7. Stamped'
  <2>1. HEAD \in linked' /\ linked' \subseteq Entered' /\ stamp'[TAIL] = 1
    BY <1>1 DEF Shape, Stamped
  <2>2. ASSUME NEW c \in Cells \ {HEAD} PROVE stamp'[c] < stamp'[HEAD]
    <3>1. stamp[c] < stamp[HEAD] /\ stamp[c] \in Nat
      BY DEF Shape, Stamped, TypeOK
    <3>. QED BY <1>1, <3>1
  <2>3. ASSUME NEW m \in Entered \cup {n}, NEW k \in Entered \cup {n}, m # k
        PROVE  stamp'[m] # stamp'[k]
    BY <1>1, <2>3 DEF Shape, Stamped
  <2>. QED BY <2>1, <2>2, <2>3 DEF Stamped
<1>8. Marked' /\ Allocated'
  BY <1>1 DEF Shape, Marked, Allocated
<1>. QED BY <1>5, <1>6, <1>7, <1>8 DEF Shape

LEMMA InsertCasSucceedsSafe ==
  ASSUME IInv, TypeOK', NEW t \in Threads, InsertCas(t),
         CasSucceeds(left[t], succ[t], Ptr(node[t])),
         linked' = linked \cup {node[t]},
         stamp' = [stamp EXCEPT ![node[t]] = stamp[HEAD], ![HEAD] = stamp[HEAD] + 1],
         Return(t, "ok")
  PROVE  IInv'
<1>1. /\ pc[t] = "insert_cas" /\ pc'[t] = "idle" /\ ret'[t] = "ok"
      /\ \A u \in Threads \ {t} : Same(u)
      /\ UNCHANGED <<data, heap, left, node, succ, seen, program, called>>
      /\ next' = [next EXCEPT ![left[t]] = Ptr(node[t])] /\ next[left[t]] = succ[t]
  <2>1. UNCHANGED <<data, heap, left, node, succ, seen, program, called>>
        /\ pc[t] = "insert_cas"
    BY DEF InsertCas, locals
  <2>2. pc' = [pc EXCEPT ![t] = "idle"] /\ ret' = [ret EXCEPT ![t] = "ok"]
    BY DEF Return, Goto
  <2>3. next' = [next EXCEPT ![left[t]] = Ptr(node[t])] /\ next[left[t]] = succ[t]
    BY DEF CasSucceeds
  <2>. QED BY <2>1, <2>2, <2>3 DEF Same, IInv, TypeOK
<1>2. Inserting(t)
  BY <1>1 DEF Inserting
<1>3. /\ node[t] \in Cells \ Entered /\ heap[node[t]] = "allocated" /\ left[t] = HEAD
      /\ next[node[t]] = next[HEAD]
  BY <1>1, <1>2 DEF IInv, Knows, Private
<1>4. /\ stamp'[node[t]] = stamp[HEAD] /\ stamp'[HEAD] = stamp[HEAD] + 1
      /\ \A c \in Cells \ {node[t], HEAD} : stamp'[c] = stamp[c]
      /\ Entered' = Entered \cup {node[t]} /\ node[t] # HEAD /\ node[t] # TAIL
      /\ \A q \in (Entered \cup {NULL}) \ {HEAD} : Age(q)' = Age(q)
  BY <1>3, PublishStamps
<1>5. /\ Shape' /\ Entered \subseteq Cells
      /\ \A c \in Cells \ {HEAD} : next'[c] = next[c]
  <2>1. /\ next'[HEAD].ref = node[t] /\ next'[HEAD].mark = FALSE
        /\ \A c \in Cells \ {HEAD} : next'[c] = next[c]
    BY <1>1, <1>3, PtrType DEF IInv, TypeOK
  <2>2. Shape'
    BY <1>1, <1>3, <1>4, <2>1, PublishShape DEF IInv
  <2>. QED BY <2>1, <2>2 DEF Entered
<1>6. ASSUME NEW u \in Threads \ {t} PROVE Gentle(u)
  <2>1. Inserting(u) => node[u] \in Cells \ (Entered \cup {node[t], HEAD})
    BY <1>2, StampFacts DEF IInv, Shape, OneOwner, Knows, Private
  <2>2. Holding(u) => node[u] \in linked \ {HEAD} /\ node[u] \in Cells
    BY DEF IInv, Knows, TypeOK
  <2>3. Freeing(u) => node[u] \notin linked \cup {node[t]}
    BY <1>3 DEF IInv, Knows
  <2>4. Entered \subseteq Cells /\ \A z \in linked' \cap Entered : z \in linked
    BY <1>3 DEF Entered
  <2>. QED BY <1>1, <1>3, <1>4, <1>5, <2>1, <2>2, <2>3, <2>4 DEF Gentle
<1>7. OneOwner'
  BY <1>1, KeepOwner DEF Keeps, IInv, Inserting, Holding, Freeing
<1>8. Knows(t)'
  BY <1>1, <1>4 DEF Knows, Inserting, Holding, Freeing, Walking, Marking, IInv
<1>9. Ahead(t)'
  BY <1>1, <1>4 DEF Ahead, IInv, Seeking
<1>. QED BY <1>1, <1>5, <1>6, <1>7, <1>8, <1>9, Assemble

-----------------------------------------------------------------------------
(* IInv is inductive.                                                      *)

LEMMA InvInit == Init => IInv
<1>. SUFFICES ASSUME Init PROVE IInv
  OBVIOUS
<1>1. /\ Entered = {HEAD, TAIL} /\ linked = {HEAD, TAIL}
      /\ stamp[HEAD] = 2 /\ stamp[TAIL] = 1 /\ \A n \in Cells \ {HEAD, TAIL} : stamp[n] = 0
      /\ next[HEAD].ref = TAIL /\ next[HEAD].mark = FALSE /\ next[TAIL].ref = NULL
      /\ Age(TAIL) = 1 /\ Age(NULL) = 0
  BY PtrType, SMTT(20) DEF Init, Entered, Age
<1>2. Ordered /\ Closed
  BY <1>1 DEF Ordered, Closed
<1>3. Stamped /\ Marked
  BY <1>1 DEF Stamped, Marked
<1>4. Allocated
  BY <1>1 DEF Init, Allocated
<1>5. ASSUME NEW t \in Threads PROVE Knows(t) /\ Ahead(t)
  <2>1. pc[t] = "idle" /\ left[t] = HEAD /\ seen[t] = {} /\ ret[t] = "none"
    BY DEF Init
  <2>. QED BY <1>1, <2>1 DEF Knows, Ahead, Sought, Seeking, Inserting, Holding, Freeing, Walking,
       Marking
<1>6. OneOwner
  BY DEF Init, OneOwner, Inserting, Holding, Freeing
<1>. QED BY <1>2, <1>3, <1>4, <1>5, <1>6, TypeInit DEF IInv, Shape

LEMMA InvStep ==
  ASSUME Reuse = FALSE, IInv, [Next]_vars
  PROVE  IInv'
<1>1. TypeOK'
  BY TypeStep DEF IInv
<1>2. ASSUME NEW t \in Threads, Call(t) PROVE IInv'
  BY <1>1, <1>2, CallSafe
<1>3. ASSUME NEW t \in Threads, Insert(t) PROVE IInv'
  <2>1. CASE InsertAlloc(t)
    BY <1>1, <2>1, InsertAllocSafe
  <2>2. CASE InsertNoMemory(t) \/ InsertRead(t)
    BY <1>1, <2>2, InsertQuietSafe
  <2>3. CASE InsertSetNext(t) \/ InsertSetData(t)
    BY <1>1, <2>3, InsertWriteSafe
  <2>4. CASE InsertCas(t)
    <3>1. \/ /\ CasSucceeds(left[t], succ[t], Ptr(node[t]))
             /\ linked' = linked \cup {node[t]}
             /\ stamp' = [stamp EXCEPT ![node[t]] = stamp[HEAD], ![HEAD] = stamp[HEAD] + 1]
             /\ Return(t, "ok")
          \/ /\ CasFails(left[t], succ[t])
             /\ Goto(t, "insert_read")
             /\ UNCHANGED <<ret, linked, stamp>>
      BY <2>4 DEF InsertCas
    <3>. QED BY <1>1, <2>4, <3>1, InsertCasSucceedsSafe, InsertQuietSafe
  <2>. QED BY <1>3, <2>1, <2>2, <2>3, <2>4 DEF Insert
<1>4. ASSUME NEW t \in Threads, NEW from, NEW retry, NEW unlink, Mark(t, from, retry, unlink),
             \/ from = "delete_mark" /\ retry = "delete" /\ unlink = "delete_unlink"
             \/ from = "first_mark" /\ retry = "delete_first" /\ unlink = "first_unlink"
      PROVE  IInv'
  <2>1. CASE CasSucceeds(node[t], succ[t], SetMark(succ[t])) /\ Goto(t, unlink)
    BY <1>1, <1>4, <2>1, MarkSucceedsSafe
  <2>2. CASE CasFails(node[t], succ[t]) /\ Goto(t, retry)
    BY <1>1, <1>4, <2>2, MarkFailsSafe
  <2>. QED BY <1>4, <2>1, <2>2 DEF Mark
<1>5. ASSUME NEW t \in Threads, NEW from, NEW unmark, NEW free, Unlink(t, from, unmark, free),
             \/ from = "delete_unlink" /\ unmark = "delete_unmark" /\ free = "delete_free"
             \/ from = "first_unlink" /\ unmark = "first_unmark" /\ free = "first_data"
      PROVE  IInv'
  <2>1. CASE /\ CasSucceeds(left[t], Ptr(node[t]), succ[t])
             /\ linked' = linked \ {node[t]} /\ Goto(t, free)
    BY <1>1, <1>5, <2>1, UnlinkSucceedsSafe
  <2>2. CASE CasFails(left[t], Ptr(node[t])) /\ UNCHANGED linked /\ Goto(t, unmark)
    BY <1>1, <1>5, <2>2, UnlinkFailsSafe
  <2>. QED BY <1>5, <2>1, <2>2 DEF Unlink
<1>6. ASSUME NEW t \in Threads, Delete(t) PROVE IInv'
  <2>1. CASE Search(t)
    <3>1. CASE SearchCheckLeft(t) \/ SearchCheckNode(t) \/ SearchCheckAdjacent(t)
      BY <1>1, <3>1, CheckSafe DEF SearchCheckLeft, SearchCheckNode, SearchCheckAdjacent
    <3>. QED
      BY <1>1, <2>1, <3>1, SearchStartSafe, SearchCompareSafe, SearchAdvanceSafe DEF Search
  <2>2. CASE DeleteReadNext(t)
    BY <1>1, <2>2, ReadNextSafe DEF DeleteReadNext
  <2>3. CASE DeleteMark(t)
    BY <2>3, <1>4 DEF DeleteMark
  <2>4. CASE DeleteUnlink(t)
    BY <2>4, <1>5 DEF DeleteUnlink
  <2>5. CASE DeleteUnmark(t)
    BY <1>1, <2>5, UnmarkSafe DEF DeleteUnmark
  <2>6. CASE DeleteFree(t)
    BY <1>1, <2>6, FreeSafe DEF DeleteFree
  <2>. QED BY <1>6, <2>1, <2>2, <2>3, <2>4, <2>5, <2>6 DEF Delete
<1>7. ASSUME NEW t \in Threads, DeleteFirst(t) PROVE IInv'
  <2>1. CASE FirstRead(t) \/ FirstData(t)
    BY <1>1, <2>1, FirstReadSafe, FirstDataSafe
  <2>2. CASE FirstReadNext(t)
    BY <1>1, <2>2, ReadNextSafe DEF FirstReadNext
  <2>3. CASE FirstMark(t)
    BY <2>3, <1>4 DEF FirstMark
  <2>4. CASE FirstUnlink(t)
    BY <2>4, <1>5 DEF FirstUnlink
  <2>5. CASE FirstUnmark(t)
    BY <1>1, <2>5, UnmarkSafe DEF FirstUnmark
  <2>6. CASE FirstFree(t)
    BY <1>1, <2>6, FreeSafe DEF FirstFree
  <2>. QED BY <1>7, <2>1, <2>2, <2>3, <2>4, <2>5, <2>6 DEF DeleteFirst
<1>8. CASE UNCHANGED vars
  <2>1. Quiet /\ \A u \in Threads : Same(u)
    BY <1>8 DEF vars, Quiet, Same
  <2>2. \A u \in Threads : Knows(u)' /\ Ahead(u)'
    BY <2>1, QuietShape, SameKnows DEF IInv, Shape
  <2>3. OneOwner'
    BY <1>8 DEF vars, IInv, OneOwner, Inserting, Holding, Freeing
  <2>. QED BY <1>1, <2>1, <2>2, <2>3, QuietShape DEF IInv
<1>. QED BY <1>2, <1>3, <1>6, <1>7, <1>8 DEF Next, Step, Ended

(* The list is ordered, connected and owned as IInv says, for any number   *)
(* of threads, cells and calls, while freed cells are not handed out again.*)
THEOREM InvariantHolds == ASSUME Reuse = FALSE PROVE Spec => []IInv
<1>1. Init => IInv
  BY InvInit
<1>2. IInv /\ [Next]_vars => IInv'
  BY InvStep
<1>. QED BY <1>1, <1>2, PTL DEF Spec

(* A node that has been unlinked is freed by the thread that unlinked it,  *)
(* once, and no other thread is about to unlink, unmark or free it.        *)
THEOREM OneDeleterHolds == ASSUME Reuse = FALSE PROVE Spec => []OneDeleter
<1>1. IInv => OneDeleter
  BY DEF IInv, OneDeleter, OneOwner, Knows
<1>. QED BY <1>1, InvariantHolds, PTL

(* A delete fails only when every node that held its datum at the call has *)
(* been taken out of the list.                                             *)
THEOREM FailedDeletesOvertaken == ASSUME Reuse = FALSE PROVE Spec => []FailedDeleteOvertaken
<1>1. IInv => FailedDeleteOvertaken
  BY DEF IInv, FailedDeleteOvertaken, Ahead, Sought
<1>. QED BY <1>1, InvariantHolds, PTL

-----------------------------------------------------------------------------
(* Which cell a step writes the "next" word of.                            *)
LEMMA NextWrites ==
  ASSUME IInv, [Next]_vars
  PROVE  \A n \in Entered \ linked : next'[n] = next[n]
<1>. SUFFICES ASSUME NEW n \in Entered \ linked, next'[n] # next[n] PROVE FALSE
  OBVIOUS
<1>1. n \in Cells /\ HEAD \in linked /\ next \in [Cells -> Pointers]
  BY StampFacts DEF IInv, Shape, TypeOK, Stamped
<1>2. PICK t \in Threads : Step(t)
  BY DEF Next, Ended, vars
<1>3. InsertSetNext(t) \/ InsertCas(t) \/ DeleteMark(t) \/ DeleteUnlink(t) \/ DeleteUnmark(t)
        \/ FirstMark(t) \/ FirstUnlink(t) \/ FirstUnmark(t)
  <2>1. next' # next
    OBVIOUS
  <2>2. ~Call(t) /\ ~InsertAlloc(t) /\ ~InsertNoMemory(t) /\ ~InsertRead(t) /\ ~InsertSetData(t)
    BY <2>1 DEF Call, InsertAlloc, InsertNoMemory, InsertRead, InsertSetData, memory
  <2>3. ~Search(t)
    BY <2>1 DEF Search, SearchStart, SearchCompare, SearchAdvance, SearchCheckLeft,
       SearchCheckNode, SearchCheckAdjacent, Check, memory
  <2>4. /\ ~DeleteReadNext(t) /\ ~DeleteFree(t) /\ ~FirstRead(t) /\ ~FirstReadNext(t)
        /\ ~FirstData(t) /\ ~FirstFree(t)
    BY <2>1 DEF DeleteReadNext, DeleteFree, FirstRead, FirstReadNext, FirstData, FirstFree,
       ReadNext, Free, memory
  <2>. QED BY <1>2, <2>2, <2>3, <2>4 DEF Step, Insert, Delete, DeleteFirst
<1>4. CASE InsertSetNext(t)
  <2>1. node[t] \notin Entered
    BY <1>4 DEF InsertSetNext, IInv, Knows, Private, Inserting
  <2>. QED BY <1>1, <1>4, <2>1 DEF InsertSetNext
<1>5. CASE InsertCas(t)
  <2>1. left[t] = HEAD
    BY <1>5 DEF InsertCas, IInv, Knows, Private, Inserting
  <2>. QED BY <1>1, <1>5, <2>1 DEF InsertCas, CasSucceeds, CasFails
<1>6. ASSUME NEW from, NEW retry, NEW unlink, Mark(t, from, retry, unlink),
             from \in {"delete_mark", "first_mark"}
      PROVE  FALSE
  <2>1. Marking(t)
    BY <1>6 DEF Mark, Marking
  <2>2. ~succ[t].mark /\ node[t] \in Entered
    BY <2>1 DEF IInv, Knows
  <2>3. next[node[t]] = succ[t] => node[t] \in linked
    BY <2>2 DEF IInv, Shape, Marked
  <2>. QED BY <1>1, <1>6, <2>3 DEF Mark, CasSucceeds, CasFails
<1>7. ASSUME NEW from, NEW unmark, NEW free, Unlink(t, from, unmark, free)
      PROVE  FALSE
  <2>1. left[t] \in Entered
    BY DEF IInv, Knows
  <2>2. next[left[t]] = Ptr(node[t]) => left[t] \in linked
    BY <2>1 DEF IInv, Shape, Marked, Ptr
  <2>. QED BY <1>1, <1>7, <2>2 DEF Unlink, CasSucceeds, CasFails
<1>8. ASSUME NEW from, NEW retry, Unmark(t, from, retry),
             from \in {"delete_unmark", "first_unmark"}
      PROVE  FALSE
  <2>1. Holding(t)
    BY <1>8 DEF Unmark, Holding
  <2>2. node[t] \in linked
    BY <2>1 DEF IInv, Knows
  <2>. QED BY <1>1, <1>8, <2>2 DEF Unmark
<1>. QED BY <1>3, <1>4, <1>5, <1>6, <1>7, <1>8
     DEF DeleteMark, DeleteUnlink, DeleteUnmark, FirstMark, FirstUnlink, FirstUnmark

(* No step changes the "next" word of a node that has left the list.       *)
THEOREM FrozenHolds == ASSUME Reuse = FALSE PROVE Spec => FrozenAfterUnlink
<1>1. IInv /\ [Next]_vars => [\A n \in Entered \ linked : next'[n] = next[n]]_vars
  BY NextWrites
<1>. QED BY <1>1, InvariantHolds, PTL DEF Spec, FrozenAfterUnlink


-----------------------------------------------------------------------------
(* A set of numbers that is not empty has a least element.                 *)
LEMMA LeastNumber ==
  ASSUME NEW T \in SUBSET Nat, T # {}
  PROVE  \E x \in T : \A y \in T : x <= y
<1>1. PICK x \in T : \A y \in T : ~(<<y, x>> \in OpToRel(<, Nat))
  BY NatLessThanWellFounded, WFMin, Zenon
<1>2. \A y \in T : ~(y < x)
  BY <1>1, Zenon DEF OpToRel
<1>. QED BY <1>2

(* Among cells that have entered the list one is the youngest: stamps are  *)
(* numbers below head's.                                                   *)
LEMMA Youngest ==
  ASSUME TypeOK, Stamped, NEW S \in SUBSET Entered, S # {}
  PROVE  \E z \in S : \A y \in S : stamp[y] <= stamp[z]
<1>1. /\ Entered \subseteq Cells /\ HEAD \in Cells
      /\ \A n \in Cells : stamp[n] \in Nat /\ stamp[n] <= stamp[HEAD]
  BY StampFacts
<1> DEFINE T == {stamp[HEAD] - stamp[z] : z \in S}
<1>2. T \in SUBSET Nat /\ T # {}
  BY <1>1
<1>3. PICK x \in T : \A y \in T : x <= y
  BY <1>2, LeastNumber
<1>4. PICK z \in S : x = stamp[HEAD] - stamp[z]
  BY <1>3
<1>5. ASSUME NEW y \in S PROVE stamp[y] <= stamp[z]
  <2>1. stamp[HEAD] - stamp[z] <= stamp[HEAD] - stamp[y]
    BY <1>3, <1>4
  <2>. QED BY <2>1, <1>1
<1>. QED BY <1>5

(* No cell of the list is missed by a walk: the youngest that is would be  *)
(* led to by a younger one that is not.                                    *)
LEMMA WalkMeetsAll ==
  ASSUME IInv, NEW S \in SUBSET Cells, Walked(S)
  PROVE  linked \subseteq S
<1>. SUFFICES ASSUME linked \ S # {} PROVE FALSE
  OBVIOUS
<1>1. TypeOK /\ Stamped /\ Ordered /\ Closed
  BY DEF IInv, Shape
<1>2. linked \subseteq Entered /\ Entered \subseteq Cells /\ \A n \in Entered : Age(n) = stamp[n]
  BY <1>1, StampFacts
<1>3. PICK z \in linked \ S : \A y \in linked \ S : stamp[y] <= stamp[z]
  BY <1>1, <1>2, Youngest
<1>4. z # HEAD
  BY <1>3 DEF Walked
<1>5. PICK n \in linked : next[n].ref = z
  BY <1>1, <1>3, <1>4 DEF Closed
<1>6. stamp[z] < stamp[n]
  BY <1>1, <1>2, <1>3, <1>5 DEF Ordered
<1>7. n \in S
  BY <1>1, <1>2, <1>3, <1>5, <1>6, StampFacts
<1>8. z \in S \cup {NULL}
  BY <1>5, <1>7 DEF Walked
<1>. QED BY <1>2, <1>3, <1>8, StampFacts, <1>1

(* The list a walk from head meets is what was inserted and not deleted,   *)
(* whatever the clients do.                                                *)
THEOREM ListIsIntact == ASSUME Reuse = FALSE PROVE Spec => []ListIntact
<1>1. IInv => ListIntact
  <2>. SUFFICES ASSUME IInv PROVE ListIntact
    OBVIOUS
  <2>1. linked \in SUBSET Cells
    BY DEF IInv, TypeOK
  <2>2. Walked(linked)
    BY DEF IInv, Shape, Closed, Stamped, Walked
  <2>3. Reach = linked
    BY <2>1, <2>2, WalkMeetsAll DEF Reach
  <2>. QED BY <2>3 DEF ListIntact, IInv, Shape, Allocated
<1>. QED BY <1>1, InvariantHolds, PTL
=============================================================================
