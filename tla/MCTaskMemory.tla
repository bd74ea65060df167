----------------------------- MODULE MCTaskMemory -----------------------------
(* A machine with pages of 16 bytes and four pages to the megabyte; three  *)
(* tasks for a table of two.                                               *)
EXTENDS TaskMemory, TLC
CONSTANTS a, k1, k2, k3
SomeHolders == {a} \cup (Tasks \X {"pgd", "pte", "tcb", "task_addr"})
Sym == Permutations(Tasks)
===============================================================================
