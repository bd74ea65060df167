----------------------------- MODULE SharedList -----------------------------
(***************************************************************************)
(* What atomic_list promises its clients: a list, newest element first,    *)
(* whose operations take effect at one instant between call and return.    *)
(* insert puts an element in front.  delete takes out one element that     *)
(* holds the datum, delete_first takes out the element in front and        *)
(* returns its datum.  A delete may fail once every element that held the  *)
(* datum when it was called is gone, even when a newer one holds it again. *)
(***************************************************************************)
EXTENDS Naturals, Sequences, SequencesExt

CONSTANTS Threads, Cells, Keys, Data, NULL

VARIABLES
  list,    \* the elements [cell, key], newest first
  pending, \* the call a thread is in that has not taken effect, or NULL
  watch,   \* the cells a pending delete has to find
  result, got \* what the last effect of a thread returned

vars == <<list, pending, watch, result, got>>

CellsOf(l) == {l[i].cell : i \in 1..Len(l)}

Init ==
  /\ list = <<>>
  /\ pending = [t \in Threads |-> NULL]
  /\ watch = [t \in Threads |-> {}]
  /\ result = [t \in Threads |-> "none"]
  /\ got \in [Threads -> Data]

Invoke(t, op, key) ==
  /\ pending[t] = NULL
  /\ pending' = [pending EXCEPT ![t] = [op |-> op, key |-> key]]
  /\ watch' = [watch EXCEPT ![t] =
       IF op = "delete" THEN {list[i].cell : i \in {j \in 1..Len(list) : list[j].key = key}}
                        ELSE {}]
  /\ UNCHANGED <<list, result, got>>

(* The pending call of t takes effect and turns the list into l.           *)
Effect(t, op, l) ==
  /\ pending[t] # NULL /\ pending[t].op = op
  /\ pending' = [pending EXCEPT ![t] = NULL]
  /\ result' = [result EXCEPT ![t] = "ok"]
  /\ list' = l
  /\ UNCHANGED watch

Insert(t, n) ==
  /\ Effect(t, "insert", <<[cell |-> n, key |-> pending[t].key]>> \o list)
  /\ n \notin CellsOf(list)
  /\ UNCHANGED got

Delete(t, i) ==
  /\ Effect(t, "delete", RemoveAt(list, i))
  /\ list[i].key = pending[t].key
  /\ UNCHANGED got

DeleteFirst(t) ==
  /\ Effect(t, "delete_first", Tail(list))
  /\ list # <<>>
  /\ got' = [got EXCEPT ![t] = Head(list).key]

Fail(t) ==
  /\ pending[t] # NULL
  /\ CASE pending[t].op = "insert" -> TRUE
       [] pending[t].op = "delete" -> watch[t] \cap CellsOf(list) = {}
       [] OTHER -> list = <<>>
  /\ pending' = [pending EXCEPT ![t] = NULL]
  /\ result' = [result EXCEPT ![t] = "fail"]
  /\ UNCHANGED <<list, watch, got>>

Next ==
  \E t \in Threads :
    \/ \E op \in {"insert", "delete", "delete_first"}, key \in Keys : Invoke(t, op, key)
    \/ \E n \in Cells : Insert(t, n)
    \/ \E i \in 1..Len(list) : Delete(t, i)
    \/ DeleteFirst(t)
    \/ Fail(t)

Spec == Init /\ [][Next]_vars

=============================================================================
