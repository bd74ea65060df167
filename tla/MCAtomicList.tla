--------------------------- MODULE MCAtomicList ---------------------------
EXTENDS AtomicListRefines, TLC
CONSTANTS t1, t2, t3, h, z, c1, c2, c3, k1, k2

Ins(k) == [op |-> "insert", key |-> k]
Del(k) == [op |-> "delete", key |-> k]
First  == [op |-> "delete_first", key |-> k1]

(* Clients whose every removal follows an insertion of their own.          *)
Pair(k, remove) == <<Ins(k), remove>>
PairPrograms == {p \in [Threads -> {Pair(k1, Del(k1)), Pair(k1, First), Pair(k2, Del(k2))}] :
                   {Pair(k1, Del(k1)), Pair(k1, First)} \subseteq {p[t] : t \in Threads}}

(* Clients that also delete from an empty list.                            *)
EmptyPrograms == [Threads -> {<<Ins(k1)>>, <<Del(k1)>>, <<First>>, <<Ins(k2), Ins(k1)>>, <<First, Ins(k2)>>}]

AnyPrograms == PairPrograms \cup EmptyPrograms

Sym == Permutations(Threads) \cup Permutations(Cells \ {HEAD, TAIL})
=============================================================================
