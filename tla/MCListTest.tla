----------------------------- MODULE MCListTest -----------------------------
(* The four thread-safety tests of atomic_list/test on small instances.    *)
EXTENDS ListTest, TLC

CONSTANTS m, t1, t2, t3, h, z, c1, c2, c3, k1, k2, k3

Ins(k) == [op |-> "insert", key |-> k]
Del(k) == [op |-> "delete", key |-> k]
First  == [op |-> "delete_first", key |-> k1]

Test(main, p1, p2, p3) ==
  [t \in Threads |-> CASE t = MAIN -> main [] t = t1 -> p1 [] t = t2 -> p2 [] OTHER -> p3]

(* test_atomic_list_all, _insert, _delete and _delete_first with one to    *)
(* two loops, and an init_test that runs out of memory.                    *)
TestPrograms == {
  Test(<<>>, <<Ins(k1), Del(k1)>>, <<Ins(k2), Del(k2)>>, <<Ins(k3)>>),
  Test(<<>>, <<Ins(k1), Ins(k1)>>, <<Ins(k2)>>, <<>>),
  Test(<<Ins(k1), Ins(k2), Ins(k3)>>, <<Del(k1)>>, <<Del(k2)>>, <<Del(k3)>>),
  Test(<<Ins(k1), Ins(k1), Ins(k2)>>, <<Del(k1), Del(k1)>>, <<Del(k2)>>, <<>>),
  Test(<<Ins(k1), Ins(k2), Ins(k3)>>, <<First>>, <<First>>, <<First>>),
  Test(<<Ins(k1), Ins(k1), Ins(k1), Ins(k1)>>, <<>>, <<>>, <<>>) }

TestWorkers == <<t1, t2, t3>>

(* Two loops of test_atomic_list_all in one of three workers.              *)
LoopPrograms == {
  Test(<<>>, <<Ins(k1), Del(k1)>>, <<Ins(k2), Del(k2), Ins(k2), Del(k2)>>, <<Ins(k3), Del(k3)>>) }

(* What the proofs about the tests suppose of their programs.              *)
ASSUME TestsArePaired == Balanced /\ OwnKeys

CellSymmetry == Permutations({c1, c2, c3})

=============================================================================
