-------------------------- MODULE AtomicListRefines --------------------------
(***************************************************************************)
(* atomic_list implements SharedList.  An insert takes effect at the CAS   *)
(* that publishes its node, a deletion at the CAS that unlinks its node, a *)
(* failing call where the code decides to return -1.                       *)
(***************************************************************************)
EXTENDS AtomicList

ASSUME CallsAssumption == NULL \notin Calls

(* The abstract list are the nodes between the sentinels, youngest first,  *)
(* which is the order in which a walk of the "next" words meets them.      *)
Inner == linked \ {HEAD, TAIL}
Position(n) == Cardinality({m \in Inner : stamp[m] >= stamp[n]})
At(i) == CHOOSE n \in Inner : Position(n) = i

AbstractList == [i \in 1..Cardinality(Inner) |-> [cell |-> At(i), key |-> data[At(i)]]]

(* The abstract list is what memory holds: a walk of the "next" words from *)
(* head meets its elements in their order, then the tail sentinel.         *)
WalkIsList ==
  LET size == Len(AbstractList)
      Cell(i) == IF i <= size THEN AbstractList[i].cell ELSE TAIL
  IN  TAIL \in linked =>
        /\ next[HEAD].ref = Cell(1)
        /\ \A i \in 1..size : next[Cell(i)].ref = Cell(i + 1)

(* A call is pending until the step that gives it its effect.              *)
AbstractPending ==
  [t \in Threads |-> IF pc[t] = "idle" \/ Freeing(t) THEN NULL
                     ELSE program[t][called[t]]]

AbstractResult == [t \in Threads |-> IF Freeing(t) THEN "ok" ELSE ret[t]]
AbstractGot    == [t \in Threads |-> IF pc[t] = "first_data" THEN data[node[t]] ELSE out[t]]

Abstract == INSTANCE SharedList WITH
  list <- AbstractList, pending <- AbstractPending, watch <- seen,
  result <- AbstractResult, got <- AbstractGot

(* atomic_list.c:80-286: its clients cannot tell it from a list whose      *)
(* operations are atomic, unless a delete_first from an empty list takes   *)
(* the tail sentinel out of it.                                            *)
ImplementsSharedList ==
  Abstract!Init /\ [][(TAIL \in linked') => Abstract!Next]_(Abstract!vars)

=============================================================================
