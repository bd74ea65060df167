------------------------------ MODULE ListTest ------------------------------
(***************************************************************************)
(* The thread-safety harness (threadsafety_test/thrsafe.c) running the     *)
(* list's tests (atomic_list/test): the main thread inserts the data of    *)
(* init_test, creates the workers, joins them, lets verify_test count the  *)
(* nodes left and lets final_test free the list.  A worker runs its        *)
(* program until a call of it fails.                                       *)
(***************************************************************************)
EXTENDS AtomicList

CONSTANTS
  MAIN,   \* the thread of main()
  WORKERS \* the other threads, in the order of their thread_num

Workers == {WORKERS[i] : i \in 1..Len(WORKERS)}

ASSUME WorkersAssumption ==
  /\ MAIN \in Threads /\ WORKERS \in Seq(Threads \ {MAIN})
  /\ Threads = {MAIN} \cup Workers
ASSUME CellsFinite == IsFiniteSet(Cells)

VARIABLES
  phase,   \* where main() is
  thr_num, \* how many workers pthread_create has started
  cursor,  \* the node verify_test or final_test looks at
  count,   \* the nodes verify_test counted
  verdict  \* what verify_test returned

harness  == <<phase, thr_num, cursor, count, verdict>>
testVars == <<vars, harness>>

Created == {WORKERS[i] : i \in 1..thr_num}

(* A worker's loop ends with its program or with the first call that fails.*)
Stopped(t) == pc[t] = "idle" /\ (called[t] = Len(program[t]) \/ ret[t] = "fail")

(* The nodes a test expects verify_test to find.                           *)
Insertions(K) == [op : {"insert"}, key : K]
Removals(K)   == [op : {"delete", "delete_first"}, key : K]

CallsIn(p, kinds) == UNION {{<<t, i>> : i \in {j \in 1..Len(p[t]) : p[t][j] \in kinds}} :
                             t \in Threads}
CallsOf(kinds) == CallsIn(program, kinds)

Expected == Cardinality(CallsOf(Insertions(Keys))) - Cardinality(CallsOf(Removals(Keys)))
MaxCount == Cardinality(Cells)

TestInit ==
  /\ Init
  /\ phase = "init" /\ thr_num = 0 /\ cursor = HEAD /\ count = 0 /\ verdict = "none"

(* main() runs init_test; the workers do not exist yet.                    *)
InitTest ==
  /\ phase = "init"
  /\ ~Stopped(MAIN)
  /\ Step(MAIN)
  /\ UNCHANGED harness

(* TEST_FAIL frees the harness's tables and returns.                       *)
InitFails ==
  /\ phase = "init" /\ Stopped(MAIN) /\ ret[MAIN] = "fail"
  /\ phase' = "exit"
  /\ UNCHANGED <<vars, thr_num, cursor, count, verdict>>

(* The loop that creates the workers ends when n of them have been.        *)
Creating(n) == IF n = Len(WORKERS) THEN "join" ELSE "create"

InitSucceeds ==
  /\ phase = "init" /\ Stopped(MAIN) /\ ret[MAIN] # "fail"
  /\ phase' = Creating(thr_num)
  /\ UNCHANGED <<vars, thr_num, cursor, count, verdict>>

CreateThread ==
  /\ phase = "create"
  /\ thr_num' = thr_num + 1
  /\ phase' = Creating(thr_num')
  /\ UNCHANGED <<vars, cursor, count, verdict>>

(* THREAD_FAIL frees the tables while the workers created so far go on ... *)
CreateFails ==
  /\ phase = "create"
  /\ phase' = "abandoned"
  /\ UNCHANGED <<vars, thr_num, cursor, count, verdict>>

(* ... until main() returns and the process ends.                          *)
Abandon ==
  /\ phase = "abandoned"
  /\ phase' = "exit"
  /\ UNCHANGED <<vars, thr_num, cursor, count, verdict>>

Work(t) ==
  /\ t \in Created /\ phase \in {"create", "join", "abandoned"}
  /\ ~Stopped(t)
  /\ Step(t)
  /\ UNCHANGED harness

Join ==
  /\ phase = "join"
  /\ \A t \in Workers : Stopped(t)
  /\ phase' = "verify"
  /\ cursor' = next[HEAD].ref
  /\ UNCHANGED <<vars, thr_num, count, verdict>>

VerifyNode ==
  /\ phase = "verify" /\ cursor # TAIL /\ count <= MaxCount
  /\ cursor' = next[cursor].ref
  /\ count' = count + 1
  /\ UNCHANGED <<vars, phase, thr_num, verdict>>

VerifyDone ==
  /\ phase = "verify" /\ (cursor = TAIL \/ count > MaxCount)
  /\ verdict' = IF count = Expected THEN "success" ELSE "fail"
  /\ phase' = "final"
  /\ cursor' = next[HEAD].ref
  /\ UNCHANGED <<vars, thr_num, count>>

(* atomic_list_final: each node, then the two sentinels.                   *)
FinalNode ==
  /\ phase = "final" /\ cursor # TAIL
  /\ cursor' = next[cursor].ref
  /\ heap' = [heap EXCEPT ![cursor] = "freed"]
  /\ UNCHANGED <<data, next, program, called, pc, locals, ret, out, ghosts,
                 phase, thr_num, count, verdict>>

FinalSentinels ==
  /\ phase = "final" /\ cursor = TAIL
  /\ heap' = [heap EXCEPT ![HEAD] = "freed", ![TAIL] = "freed"]
  /\ phase' = "exit"
  /\ UNCHANGED <<data, next, program, called, pc, locals, ret, out, ghosts,
                 thr_num, cursor, count, verdict>>

Exited == phase = "exit" /\ UNCHANGED testVars

Main == InitTest \/ InitFails \/ InitSucceeds \/ CreateThread
          \/ Join \/ VerifyNode \/ VerifyDone \/ FinalNode \/ FinalSentinels

TestNext == Main \/ CreateFails \/ Abandon \/ (\E t \in Workers : Work(t)) \/ Exited

TestSpec == TestInit /\ [][TestNext]_testVars

(* The kernel schedules every runnable thread; creating one need not fail. *)
FairTestSpec == /\ TestSpec
                /\ WF_testVars(Main)
                /\ WF_testVars(Abandon)
                /\ \A t \in Workers : WF_testVars(Work(t))

-----------------------------------------------------------------------------
(* test_atomic_list_all.c:165 and the verify_test of the other tests: once *)
(* every worker has returned, the nodes on the list are those inserted and *)
(* not deleted.                                                            *)
VerifySucceeds == verdict # "fail"

(* test_atomic_list_delete.c:116 "every deleting must succeed".            *)
EveryDeletingSucceeds == \A t \in Workers : ret[t] # "fail"

(* With no deletion under way no node is left marked, so verify_test and   *)
(* final_test, which follow "next" without removing a mark, read real      *)
(* addresses.                                                              *)
NoMarkLeft ==
  phase \in {"verify", "final"} => \A n \in linked : ~next[n].mark

(* Every block is freed exactly once: none by a worker or by final_test    *)
(* that was freed before, and after final_test none is left.               *)
FreedOnce ==
  /\ \A t \in Threads : Freeing(t) => heap[node[t]] = "allocated"
  /\ phase = "final" /\ cursor # TAIL => heap[cursor] = "allocated"
  /\ phase = "exit" /\ verdict # "none" => \A n \in Cells : heap[n] # "allocated"

(* What the tests take for granted of their programs.  A call has returned *)
(* when another begins if it comes first in the same program, or is one    *)
(* of main() and the other one of a worker.                                *)
Before(c, d) == \/ c[1] = d[1] /\ c[2] < d[2]
                \/ c[1] = MAIN /\ d[1] # MAIN

(* Each removal with a key in K follows an insertion of its own.           *)
Paired(p, K) ==
  \E pair \in [CallsIn(p, Removals(K)) -> CallsIn(p, Insertions(K))] :
    /\ \A c, d \in CallsIn(p, Removals(K)) : c # d => pair[c] # pair[d]
    /\ \A c \in CallsIn(p, Removals(K)) : Before(pair[c], c)

Balanced == \A p \in Programs : Paired(p, Keys)

(* A datum is deleted by one thread at most, and no delete_first may take  *)
(* it away before.                                                         *)
OwnKeys ==
  \A p \in Programs, k \in Keys :
    LET deletes == CallsIn(p, [op : {"delete"}, key : {k}])
    IN  deletes # {} => /\ Paired(p, {k})
                        /\ \A c, d \in deletes : c[1] = d[1]
                        /\ CallsIn(p, [op : {"delete_first"}, key : Keys]) = {}

(* malloc never fails a worker.                                            *)
MemorySuffices == \A t \in Workers : pc[t] = "insert" => Available # {}

(* The harness always comes to an end: no worker spins for ever.           *)
TestEnds == <>(phase = "exit")

=============================================================================
