----------------------------- MODULE AtomicList -----------------------------
(***************************************************************************)
(* atomic_list/atomic_list.c: a singly linked list shared by threads that  *)
(* insert at the head, delete the node that holds a given datum, and       *)
(* delete the first node, with compare-and-swap and no lock.  Bit 0 of a   *)
(* node's "next" word marks the node as being deleted.                     *)
(*                                                                         *)
(* Every read, write and CAS of a word another thread can reach is one     *)
(* action.  The locals of the three operations are the per-thread          *)
(* variables below; a thread runs the calls of its program one by one.     *)
(* free() leaves the "next" word alone and may overwrite the first word    *)
(* (glibc keeps its free-list link there), and malloc() hands freed cells  *)
(* out again only when Reuse is TRUE.                                      *)
(***************************************************************************)
EXTENDS Integers, FiniteSets, Sequences

CONSTANTS
  Threads,    \* threads sharing the list
  Cells,      \* addresses malloc can return, the two sentinels included
  HEAD, TAIL, \* the sentinels atomic_list_init allocated
  NULL,
  Keys,       \* the data pointers clients insert
  Junk,       \* what free() may leave in the first word of a block
  Programs,   \* the client programs: functions from Threads to call sequences
  Reuse       \* does malloc return freed cells?

Calls == [op : {"insert", "delete", "delete_first"}, key : Keys]

ASSUME CellsAssumption ==
  /\ HEAD \in Cells /\ TAIL \in Cells /\ HEAD # TAIL /\ NULL \notin Cells
ASSUME KeysAssumption == NULL \notin Keys /\ Junk \notin Keys
ASSUME ProgramsAssumption == Programs \subseteq [Threads -> Seq(Calls)]
ASSUME ReuseAssumption == Reuse \in BOOLEAN

VARIABLES
  data, next, \* the two words of every cell
  heap,       \* the allocator's view of every cell
  program, called, \* the calls of each thread and how many it has begun
  pc, left, node, succ, \* the locals: cur_left/left, new_node/cur/del_node,
                        \* right/del_node_next
  ret, out,   \* what the last call of a thread returned
  linked,     \* history: the cells in the list
  stamp,      \* history: insertion order, 0 before it; HEAD's is always the largest
  seen        \* history: cells that held its datum when a delete was called

memory == <<data, next, heap>>
locals == <<left, node, succ>>
ghosts == <<linked, stamp, seen>>
vars   == <<data, next, heap, program, called, pc, left, node, succ, ret, out,
            linked, stamp, seen>>

-----------------------------------------------------------------------------
(* Pointers with a mark in bit 0.                                          *)

Ptr(n)      == [ref |-> n, mark |-> FALSE]
SetMark(p)  == [ref |-> p.ref, mark |-> TRUE]
DelMark(p)  == [ref |-> p.ref, mark |-> FALSE]
CheckMark(p) == p.mark

Pointers == [ref : Cells \cup {NULL}, mark : BOOLEAN]
Data     == Keys \cup {NULL, Junk}

(* What malloc can return now.                                             *)
Available == {n \in Cells : heap[n] = "unused" \/ (Reuse /\ heap[n] = "freed")}

(* The key argument of the call the thread is in.                          *)
Key(t) == program[t][called[t]].key

Goto(t, label) == pc' = [pc EXCEPT ![t] = label]

Return(t, r) == /\ ret' = [ret EXCEPT ![t] = r]
                /\ Goto(t, "idle")

(* lock;cmpxchg on the "next" word of n.                                   *)
CasSucceeds(n, old, new) == next[n] = old /\ next' = [next EXCEPT ![n] = new]
CasFails(n, old)         == next[n] # old /\ UNCHANGED next

-----------------------------------------------------------------------------
(* Mutants: the operations below with a slip a programmer could make.  No  *)
(* behaviour of the specification uses them; they show that the properties *)
(* would notice.                                                           *)

(* The insert does not look at the result of its CAS.                      *)
InsertCasOnce(t) ==
  /\ pc[t] = "insert_cas"
  /\ \/ /\ CasSucceeds(left[t], succ[t], Ptr(node[t]))
        /\ linked' = linked \cup {node[t]}
        /\ stamp' = [stamp EXCEPT ![node[t]] = stamp[HEAD], ![HEAD] = @ + 1]
     \/ CasFails(left[t], succ[t]) /\ UNCHANGED <<linked, stamp>>
  /\ Return(t, "ok")
  /\ UNCHANGED <<data, heap, locals, program, called, out, seen>>

(* The search gives up where it should look again.                         *)
CheckOnce(t, from, bad, to) ==
  /\ pc[t] = from
  /\ IF bad THEN Return(t, "fail") ELSE Goto(t, to) /\ UNCHANGED ret
  /\ UNCHANGED <<memory, locals, program, called, out, ghosts>>

(* The mark is set with a store.                                           *)
MarkStore(t, from, retry, unlink) ==
  /\ pc[t] = from
  /\ next' = [next EXCEPT ![node[t]] = SetMark(succ[t])]
  /\ Goto(t, unlink)
  /\ UNCHANGED <<data, heap, locals, program, called, ret, out, ghosts>>

(* The CAS compares addresses without the mark of the left node.           *)
UnlinkIgnoringMark(t, from, unmark, free) ==
  /\ pc[t] = from
  /\ \/ /\ next[left[t]].ref = node[t]
        /\ next' = [next EXCEPT ![left[t]] = succ[t]]
        /\ linked' = linked \ {node[t]}
        /\ Goto(t, free)
     \/ /\ next[left[t]].ref # node[t]
        /\ UNCHANGED <<next, linked>>
        /\ Goto(t, unmark)
  /\ UNCHANGED <<data, heap, locals, program, called, ret, out, stamp, seen>>

(* The node is freed whatever became of the CAS that unlinks it.           *)
UnlinkOnce(t, from, unmark, free) ==
  /\ pc[t] = from
  /\ \/ /\ CasSucceeds(left[t], Ptr(node[t]), succ[t])
        /\ linked' = linked \ {node[t]}
     \/ CasFails(left[t], Ptr(node[t])) /\ UNCHANGED linked
  /\ Goto(t, free)
  /\ UNCHANGED <<data, heap, locals, program, called, ret, out, stamp, seen>>

(* The unlinking is a store.                                               *)
UnlinkStore(t, from, unmark, free) ==
  /\ pc[t] = from
  /\ next' = [next EXCEPT ![left[t]] = succ[t]]
  /\ linked' = linked \ {node[t]}
  /\ Goto(t, free)
  /\ UNCHANGED <<data, heap, locals, program, called, ret, out, stamp, seen>>

(* The mark stays on when the deletion starts again.                       *)
KeepMark(t, from, retry) ==
  /\ pc[t] = from
  /\ Goto(t, retry)
  /\ UNCHANGED <<memory, locals, program, called, ret, out, ghosts>>

(* ... or when it fails.                                                   *)
KeepMarkAndFail(t, from, retry) ==
  /\ pc[t] = from
  /\ Return(t, "fail")
  /\ UNCHANGED <<memory, locals, program, called, out, ghosts>>

(* The node is cleared before it is given back.                            *)
FreeCleared(t, from) ==
  /\ pc[t] = from
  /\ heap' = [heap EXCEPT ![node[t]] = "freed"]
  /\ data' = [data EXCEPT ![node[t]] = NULL]
  /\ next' = [next EXCEPT ![node[t]] = Ptr(NULL)]
  /\ Return(t, "ok")
  /\ UNCHANGED <<locals, program, called, out, ghosts>>

(* The node is not given back.                                             *)
Leak(t, from) ==
  /\ pc[t] = from
  /\ Return(t, "ok")
  /\ UNCHANGED <<memory, locals, program, called, out, ghosts>>

-----------------------------------------------------------------------------
(* The list atomic_list_init leaves, and threads at their first call.      *)

Init ==
  /\ data = [n \in Cells |-> NULL]
  /\ next = [n \in Cells |-> IF n = HEAD THEN Ptr(TAIL) ELSE Ptr(NULL)]
  /\ heap = [n \in Cells |-> IF n \in {HEAD, TAIL} THEN "allocated" ELSE "unused"]
  /\ program \in Programs
  /\ called = [t \in Threads |-> 0]
  /\ pc   = [t \in Threads |-> "idle"]
  /\ left = [t \in Threads |-> HEAD]
  /\ node = [t \in Threads |-> NULL]
  /\ succ = [t \in Threads |-> Ptr(NULL)]
  /\ ret  = [t \in Threads |-> "none"]
  /\ out  = [t \in Threads |-> NULL]
  /\ linked = {HEAD, TAIL}
  /\ stamp = [n \in Cells |-> IF n = TAIL THEN 1 ELSE IF n = HEAD THEN 2 ELSE 0]
  /\ seen = [t \in Threads |-> {}]

(* A client thread makes the next call of its program.                     *)
Call(t) ==
  /\ pc[t] = "idle"
  /\ called[t] < Len(program[t])
  /\ called' = [called EXCEPT ![t] = @ + 1]
  /\ LET c == program[t][called[t] + 1] IN
       /\ Goto(t, c.op)
       /\ seen' = [seen EXCEPT ![t] =
                     IF c.op = "delete" THEN {n \in linked : data[n] = c.key} ELSE {}]
  /\ UNCHANGED <<memory, locals, program, ret, out, linked, stamp>>

-----------------------------------------------------------------------------
(* atomic_list_insert                                                      *)

InsertAlloc(t) ==
  /\ pc[t] = "insert"
  /\ \E n \in Available :
       /\ heap' = [heap EXCEPT ![n] = "allocated"]
       /\ node' = [node EXCEPT ![t] = n]
  /\ Goto(t, "insert_read")
  /\ UNCHANGED <<data, next, program, called, left, succ, ret, out, ghosts>>

InsertNoMemory(t) ==
  /\ pc[t] = "insert"
  /\ Available = {}
  /\ Return(t, "fail")
  /\ UNCHANGED <<memory, locals, program, called, out, ghosts>>

InsertRead(t) ==
  /\ pc[t] = "insert_read"
  /\ left' = [left EXCEPT ![t] = HEAD]
  /\ succ' = [succ EXCEPT ![t] = next[HEAD]]
  /\ Goto(t, "insert_next")
  /\ UNCHANGED <<memory, node, program, called, ret, out, ghosts>>

InsertSetNext(t) ==
  /\ pc[t] = "insert_next"
  /\ next' = [next EXCEPT ![node[t]] = succ[t]]
  /\ Goto(t, "insert_data")
  /\ UNCHANGED <<data, heap, locals, program, called, ret, out, ghosts>>

InsertSetData(t) ==
  /\ pc[t] = "insert_data"
  /\ data' = [data EXCEPT ![node[t]] = Key(t)]
  /\ Goto(t, "insert_cas")
  /\ UNCHANGED <<next, heap, locals, program, called, ret, out, ghosts>>

InsertCas(t) ==
  /\ pc[t] = "insert_cas"
  /\ \/ /\ CasSucceeds(left[t], succ[t], Ptr(node[t]))
        /\ linked' = linked \cup {node[t]}
        /\ stamp' = [stamp EXCEPT ![node[t]] = stamp[HEAD], ![HEAD] = @ + 1]
        /\ Return(t, "ok")
     \/ /\ CasFails(left[t], succ[t])
        /\ Goto(t, "insert_read")
        /\ UNCHANGED <<ret, linked, stamp>>
  /\ UNCHANGED <<data, heap, locals, program, called, out, seen>>

-----------------------------------------------------------------------------
(* atomic_list_search, called by atomic_list_delete.  A walk that reaches  *)
(* the address of the tail sentinel ends with -1 from the caller.          *)

Visit(t, n) ==
  /\ node' = [node EXCEPT ![t] = n]
  /\ IF n = TAIL THEN Return(t, "fail")
                 ELSE Goto(t, "compare") /\ UNCHANGED ret

SearchStart(t) ==
  /\ pc[t] = "delete"
  /\ left' = [left EXCEPT ![t] = HEAD]
  /\ Visit(t, next[HEAD].ref)
  /\ UNCHANGED <<memory, succ, program, called, out, ghosts>>

(* Reading cur->data through a NULL pointer kills every thread.            *)
SearchCompare(t) ==
  /\ pc[t] = "compare"
  /\ \/ /\ node[t] = NULL
        /\ pc' = [u \in Threads |-> "killed"]
     \/ /\ node[t] # NULL
        /\ data[node[t]] = Key(t)
        /\ Goto(t, "check_left")
     \/ /\ node[t] # NULL
        /\ data[node[t]] # Key(t)
        /\ Goto(t, "advance")
  /\ UNCHANGED <<memory, locals, program, called, ret, out, ghosts>>

SearchAdvance(t) ==
  /\ pc[t] = "advance"
  /\ left' = [left EXCEPT ![t] = node[t]]
  /\ Visit(t, DelMark(next[node[t]]).ref)
  /\ UNCHANGED <<memory, succ, program, called, out, ghosts>>

(* The three reads that validate what the walk found, in the order of the  *)
(* code; any of them sends the search back to the head.                    *)
Check(t, from, bad, to) ==
  /\ pc[t] = from
  /\ Goto(t, IF bad THEN "delete" ELSE to)
  /\ UNCHANGED <<memory, locals, program, called, ret, out, ghosts>>

SearchCheckLeft(t) == Check(t, "check_left", CheckMark(next[left[t]]), "check_node")
SearchCheckNode(t) == Check(t, "check_node", CheckMark(next[node[t]]), "check_adjacent")
SearchCheckAdjacent(t) ==
  Check(t, "check_adjacent", DelMark(next[left[t]]).ref # node[t], "delete_next")

-----------------------------------------------------------------------------
(* Both deletions mark the node's "next" word, swing the left node past it *)
(* and, when that fails, take the mark off and start again.                *)

ReadNext(t, from, retry, mark) ==
  /\ pc[t] = from
  /\ succ' = [succ EXCEPT ![t] = next[node[t]]]
  /\ Goto(t, IF CheckMark(next[node[t]]) THEN retry ELSE mark)
  /\ UNCHANGED <<memory, left, node, program, called, ret, out, ghosts>>

Mark(t, from, retry, unlink) ==
  /\ pc[t] = from
  /\ \/ CasSucceeds(node[t], succ[t], SetMark(succ[t])) /\ Goto(t, unlink)
     \/ CasFails(node[t], succ[t]) /\ Goto(t, retry)
  /\ UNCHANGED <<data, heap, locals, program, called, ret, out, ghosts>>

Unlink(t, from, unmark, free) ==
  /\ pc[t] = from
  /\ \/ /\ CasSucceeds(left[t], Ptr(node[t]), succ[t])
        /\ linked' = linked \ {node[t]}
        /\ Goto(t, free)
     \/ /\ CasFails(left[t], Ptr(node[t]))
        /\ UNCHANGED linked
        /\ Goto(t, unmark)
  /\ UNCHANGED <<data, heap, locals, program, called, ret, out, stamp, seen>>

Unmark(t, from, retry) ==
  /\ pc[t] = from
  /\ next' = [next EXCEPT ![node[t]] = IF @ = SetMark(succ[t]) THEN DelMark(succ[t]) ELSE @]
  /\ Goto(t, retry)
  /\ UNCHANGED <<data, heap, locals, program, called, ret, out, ghosts>>

Free(t, from) ==
  /\ pc[t] = from
  /\ heap' = [heap EXCEPT ![node[t]] = "freed"]
  /\ \E d \in {data[node[t]], Junk} : data' = [data EXCEPT ![node[t]] = d]
  /\ Return(t, "ok")
  /\ UNCHANGED <<next, locals, program, called, out, ghosts>>

(* atomic_list_delete                                                      *)
DeleteReadNext(t) == ReadNext(t, "delete_next", "delete", "delete_mark")
DeleteMark(t)     == Mark(t, "delete_mark", "delete", "delete_unlink")
DeleteUnlink(t)   == Unlink(t, "delete_unlink", "delete_unmark", "delete_free")
DeleteUnmark(t)   == Unmark(t, "delete_unmark", "delete")
DeleteFree(t)     == Free(t, "delete_free")

(* atomic_list_delete_first: the only test for an empty list is for a NULL *)
(* first node, which a list that still has its tail sentinel never has.    *)
FirstRead(t) ==
  /\ pc[t] = "delete_first"
  /\ left' = [left EXCEPT ![t] = HEAD]
  /\ node' = [node EXCEPT ![t] = next[HEAD].ref]
  /\ \/ next[HEAD].ref = NULL /\ Return(t, "fail")
     \/ next[HEAD].ref # NULL /\ Goto(t, "first_next") /\ UNCHANGED ret
  /\ UNCHANGED <<memory, succ, program, called, out, ghosts>>

FirstReadNext(t) == ReadNext(t, "first_next", "delete_first", "first_mark")
FirstMark(t)     == Mark(t, "first_mark", "delete_first", "first_unlink")
FirstUnlink(t)   == Unlink(t, "first_unlink", "first_unmark", "first_data")
FirstUnmark(t)   == Unmark(t, "first_unmark", "delete_first")

FirstData(t) ==
  /\ pc[t] = "first_data"
  /\ out' = [out EXCEPT ![t] = data[node[t]]]
  /\ Goto(t, "first_free")
  /\ UNCHANGED <<memory, locals, program, called, ret, ghosts>>

FirstFree(t) == Free(t, "first_free")

-----------------------------------------------------------------------------
Insert(t) ==
  InsertAlloc(t) \/ InsertNoMemory(t) \/ InsertRead(t) \/ InsertSetNext(t)
    \/ InsertSetData(t) \/ InsertCas(t)

Search(t) ==
  SearchStart(t) \/ SearchCompare(t) \/ SearchAdvance(t) \/ SearchCheckLeft(t)
    \/ SearchCheckNode(t) \/ SearchCheckAdjacent(t)

Delete(t) ==
  Search(t) \/ DeleteReadNext(t) \/ DeleteMark(t) \/ DeleteUnlink(t)
    \/ DeleteUnmark(t) \/ DeleteFree(t)

DeleteFirst(t) ==
  FirstRead(t) \/ FirstReadNext(t) \/ FirstMark(t) \/ FirstUnlink(t)
    \/ FirstUnmark(t) \/ FirstData(t) \/ FirstFree(t)

Step(t) == Call(t) \/ Insert(t) \/ Delete(t) \/ DeleteFirst(t)

Finished(t) == pc[t] = "idle" /\ called[t] = Len(program[t])

(* Nothing is left to run: every thread has returned or was killed.        *)
Ended == /\ \A t \in Threads : Finished(t) \/ pc[t] = "killed"
         /\ UNCHANGED vars

Next == (\E t \in Threads : Step(t)) \/ Ended

Spec == Init /\ [][Next]_vars

-----------------------------------------------------------------------------
(* Properties                                                              *)

Labels == {"idle", "killed", "insert", "insert_read", "insert_next", "insert_data",
  "insert_cas", "delete", "compare", "advance", "check_left", "check_node",
  "check_adjacent", "delete_next", "delete_mark", "delete_unlink", "delete_unmark",
  "delete_free", "delete_first", "first_next", "first_mark", "first_unlink",
  "first_unmark", "first_data", "first_free"}

Inserting(t) == pc[t] \in {"insert_read", "insert_next", "insert_data", "insert_cas"}
Holding(t)   == pc[t] \in {"delete_unlink", "delete_unmark", "first_unlink", "first_unmark"}
Freeing(t)   == pc[t] \in {"delete_free", "first_data", "first_free"}

(* Where a thread dereferences node[t] without a test for NULL.            *)
HasNode(t) == pc[t] \notin {"idle", "killed", "insert", "delete", "delete_first", "compare"}

(* Every variable has its type; a thread in a call is in one its program   *)
(* has, and no code but the comparison in search meets a NULL node.        *)
TypeOK ==
  /\ data \in [Cells -> Data]
  /\ next \in [Cells -> Pointers]
  /\ heap \in [Cells -> {"unused", "allocated", "freed"}]
  /\ program \in [Threads -> Seq(Calls)]
  /\ called \in [Threads -> Nat]
  /\ \A t \in Threads : called[t] <= Len(program[t])
  /\ pc \in [Threads -> Labels]
  /\ \A t \in Threads : pc[t] \notin {"idle", "killed"} => called[t] > 0
  /\ left \in [Threads -> Cells]
  /\ node \in [Threads -> Cells \cup {NULL}]
  /\ \A t \in Threads : HasNode(t) => node[t] # NULL
  /\ succ \in [Threads -> Pointers]
  /\ ret \in [Threads -> {"none", "ok", "fail"}]
  /\ out \in [Threads -> Data]
  /\ linked \subseteq Cells
  /\ stamp \in [Cells -> Nat]
  /\ seen \in [Threads -> SUBSET Cells]

(* The cells that are or were in the list, and how recent a pointer is.    *)
Entered == {n \in Cells : stamp[n] > 0}
Age(p)  == IF p = NULL THEN 0 ELSE stamp[p]

(* The "next" words order the list from the youngest cell to the oldest,   *)
(* and no cell of the list lies between a cell and its successor, whether  *)
(* the cell is still in the list or a stale walk is standing on it.        *)
Ordered ==
  \A n \in Entered :
    /\ next[n].ref \in Entered \cup {NULL}
    /\ Age(next[n].ref) < stamp[n]
    /\ \A z \in linked : stamp[z] < stamp[n] => stamp[z] <= Age(next[n].ref)

(* Every cell of the list leads to a cell of the list or ends it, and      *)
(* every cell but head is led to by one.                                   *)
Closed ==
  /\ \A n \in linked : next[n].ref \in linked \cup {NULL}
  /\ \A z \in linked \ {HEAD} : \E n \in linked : next[n].ref = z

(* Insertion stamps tell the cells apart, and head's is the largest.       *)
Stamped ==
  /\ HEAD \in linked /\ linked \subseteq Entered /\ stamp[TAIL] = 1
  /\ \A m, n \in Entered : m # n => stamp[m] # stamp[n]
  /\ \A n \in Cells \ {HEAD} : stamp[n] < stamp[HEAD]

(* Cells out of the list keep their mark, head never has one.              *)
Marked ==
  /\ \A n \in Entered \ linked : next[n].mark
  /\ ~next[HEAD].mark

(* What the allocator thinks of a cell fits what the list does with it,    *)
(* and the sentinels hold no datum.                                        *)
Allocated ==
  /\ \A n \in linked : heap[n] = "allocated"
  /\ \A n \in Entered : heap[n] # "unused"
  /\ \A n \in Cells : heap[n] = "freed" => n \in Entered
  /\ data[HEAD] \in {NULL, Junk} /\ data[TAIL] \in {NULL, Junk}

Shape == Ordered /\ Closed /\ Stamped /\ Marked /\ Allocated

(* What a thread knows of the cells in its locals.                         *)
Private(t) ==
  /\ node[t] \in Cells \ Entered /\ heap[node[t]] = "allocated"
  /\ pc[t] \in {"insert_next", "insert_data", "insert_cas"} => left[t] = HEAD
  /\ pc[t] \in {"insert_data", "insert_cas"} => next[node[t]] = succ[t]
  /\ pc[t] = "insert_cas" => data[node[t]] = Key(t)

Walking(t) == pc[t] \in {"compare", "advance", "check_left", "check_node",
                         "check_adjacent", "delete_next", "first_next"}
Marking(t) == pc[t] \in {"delete_mark", "first_mark"}

Knows(t) ==
  /\ left[t] \in Entered
  /\ Inserting(t) => Private(t)
  /\ Walking(t) => node[t] \in Entered \cup {NULL} /\ node[t] # HEAD
  /\ Walking(t) /\ pc[t] # "compare" => node[t] # NULL
  /\ Marking(t) \/ Holding(t) \/ Freeing(t) => node[t] \in Entered \ {HEAD}
  /\ Marking(t) \/ Holding(t) => ~succ[t].mark
  /\ Holding(t) => node[t] \in linked /\ next[node[t]] = SetMark(succ[t])
  /\ Freeing(t) => node[t] \notin linked /\ heap[node[t]] = "allocated"

(* A cell being inserted, or unlinked and freed, belongs to one thread.    *)
OneOwner ==
  \A t, u \in Threads : t # u =>
    /\ Inserting(t) /\ Inserting(u) => node[t] # node[u]
    /\ (Holding(t) \/ Freeing(t)) /\ (Holding(u) \/ Freeing(u)) => node[t] # node[u]

(* The cells a delete still has to find are in the list with its datum and *)
(* ahead of its walk; when it has failed there is none of them left.       *)
Seeking(t) == pc[t] \in {"delete", "compare", "advance", "check_left", "check_node",
  "check_adjacent", "delete_next", "delete_mark", "delete_unlink", "delete_unmark"}

Sought(t) == seen[t] \cap linked

Ahead(t) ==
  /\ seen[t] \subseteq Entered
  /\ Seeking(t) => \A z \in Sought(t) : data[z] = Key(t)
  /\ pc[t] \in {"compare", "advance"} => \A z \in Sought(t) : stamp[z] <= Age(node[t])
  /\ pc[t] = "advance" => node[t] \notin Sought(t)
  /\ ~Seeking(t) /\ pc[t] \notin {"idle", "killed", "delete_free"} => seen[t] = {}
  /\ pc[t] = "idle" /\ ret[t] = "fail" => Sought(t) = {}

IInv == TypeOK /\ Shape /\ OneOwner /\ \A t \in Threads : Knows(t) /\ Ahead(t)

(* The cells a walk of any length from the head sentinel reaches: the      *)
(* least set that has head and where the "next" words of its cells lead.   *)
Walked(S) == HEAD \in S /\ \A n \in S : next[n].ref \in S \cup {NULL}

Reach == {n \in Cells : \A S \in SUBSET Cells : Walked(S) => n \in S}

(* The list is exactly what was inserted and not yet deleted: the walk of  *)
(* "next" words from head visits the cells a successful insert CAS put in  *)
(* and no successful unlink CAS took out, all of them still allocated.     *)
ListIntact ==
  /\ Reach = linked
  /\ \A n \in linked : heap[n] = "allocated"

(* A node being deleted belongs to one thread: once it is out of the list  *)
(* no other thread can unlink, unmark or free it, and it is freed once.    *)
OneDeleter ==
  \A t, u \in Threads :
    Freeing(t) => /\ heap[node[t]] = "allocated" /\ node[t] \notin linked
                  /\ t # u /\ (Holding(u) \/ Freeing(u)) => node[t] # node[u]

(* atomic_list.c:222-227: a delete that fails has been overtaken.  Every   *)
(* cell that held the datum when the call was made is out of the list.     *)
FailedDeleteOvertaken ==
  \A t \in Threads :
    pc[t] = "idle" /\ called[t] > 0 /\ ret[t] = "fail" => seen[t] \cap linked = {}

(* A step never changes the "next" word of a node that has left the list:  *)
(* what a walk standing on it reads there still leads back to the list.    *)
FrozenAfterUnlink ==
  [][\A n \in Entered \ linked : next'[n] = next[n]]_vars

(* The tail sentinel, which delete_first takes for a node (its only test   *)
(* is for NULL), is lost only by a delete_first on an empty list: none     *)
(* passes over a node that was inserted meanwhile, and no delete does it.  *)
SentinelLast ==
  [][(TAIL \in linked \ linked') => linked = {HEAD, TAIL}]_vars

=============================================================================
