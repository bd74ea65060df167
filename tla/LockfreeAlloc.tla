---------------------------- MODULE LockfreeAlloc ----------------------------
(***************************************************************************)
(* lockfree_mem_manager: threads take blocks of one size from the active   *)
(* superblock of a heap.  The heap's word names a descriptor and a number  *)
(* of credits; the descriptor's anchor heads the list of free blocks.      *)
(* Both change by compare-and-swap only, and blocks never come back.       *)
(***************************************************************************)
EXTENDS Integers, FiniteSets

CONSTANTS
  Threads,     \* the callers of lockfree_alloc
  Descs,       \* where malloc puts a descriptor and its superblock
  NONE,        \* ZERO_ACTIVE names no descriptor
  BLOCKS,      \* sbsize / sz, the blocks of a superblock
  MAXCREDITS,
  AVAILS, COUNTERS, TAGS, CREDITS, \* values of the packed fields
  Data,        \* what clients write into their blocks
  SPAN,        \* words of a block that clients write, of the two it has
  CALLS        \* bound on the calls, for TLC

ASSUME BlocksAssumption == BLOCKS \in Nat \ {0, 1} /\ BLOCKS < AVAILS /\ BLOCKS < COUNTERS
ASSUME FieldsAssumption ==
  /\ {AVAILS, COUNTERS, TAGS, CREDITS, MAXCREDITS} \subseteq Nat \ {0}
  /\ MAXCREDITS <= CREDITS
ASSUME DataAssumption == Data \subseteq Nat /\ Data # {} /\ SPAN \in {1, 2} /\ CALLS \in Nat
ASSUME NoneAssumption == NONE \notin Descs

VARIABLES
  start,      \* how far init_mem_man is, and what became of the manager
  objects,    \* what init_mem_man has allocated and not given back
  active,     \* heap->active
  anchor,     \* desc->anchor
  word,       \* the first word of every block: next index, owner or data
  taken,      \* the descriptors with their superblocks that are allocated
  given,      \* history: how often each block was returned
  calls,      \* history: calls made
  pc, old_active, old_anchor, next_index, new_desc, \* of every thread
  answer      \* what a thread's last call returned

manVars == <<start, objects>>
heapVars == <<start, objects, active, anchor, word, taken>>
threadVars == <<pc, old_active, old_anchor, next_index, new_desc, answer>>
vars == <<heapVars, given, calls, threadVars>>

Blocks == 0..(BLOCKS - 1)
MIN(a, b) == IF a < b THEN a ELSE b

(* The words of active and anchor keep as many bits of a field as it has.  *)
make_active(st) == [desc |-> st.desc, credits |-> st.credits % CREDITS]
make_anchor(st) == [avail |-> st.avail % AVAILS, counter |-> st.counter % COUNTERS,
                    state |-> st.state, tag |-> st.tag % TAGS]
ZERO_ACTIVE == [desc |-> NONE, credits |-> 0]

(* A word in the superblock, or behind it.                                 *)
WordAt(d, i) == IF i \in Blocks THEN {word[d][i]} ELSE Data

ZERO_ANCHOR == [avail |-> 0, counter |-> 0, state |-> "ACTIVE", tag |-> 0]

Goto(t, label) == pc' = [pc EXCEPT ![t] = label]

(* A call ends, and with it its local variables.                           *)
Return(t, value) ==
  /\ answer' = [answer EXCEPT ![t] = value]
  /\ Goto(t, "idle")
  /\ old_active' = [old_active EXCEPT ![t] = ZERO_ACTIVE]
  /\ old_anchor' = [old_anchor EXCEPT ![t] = ZERO_ANCHOR]
  /\ next_index' = [next_index EXCEPT ![t] = 0]
  /\ new_desc' = [new_desc EXCEPT ![t] = NONE]

(* Mutant: every block names itself.                                       *)
setup_sb_itself == [i \in Blocks |-> i]

(* setup_sb: every block holds the index of the one behind it.             *)
setup_sb == [i \in Blocks |-> i + 1]

Init ==
  /\ start = "manager" /\ objects = {}
  /\ active = ZERO_ACTIVE /\ taken = {}
  /\ anchor = [d \in Descs |-> ZERO_ANCHOR]
  /\ word = [d \in Descs |-> setup_sb]
  /\ given = [d \in Descs |-> [i \in 0..BLOCKS |-> 0]]
  /\ calls = 0
  /\ pc = [t \in Threads |-> "idle"]
  /\ old_active = [t \in Threads |-> ZERO_ACTIVE]
  /\ old_anchor = [t \in Threads |-> ZERO_ANCHOR]
  /\ next_index = [t \in Threads |-> 0]
  /\ new_desc = [t \in Threads |-> NONE]
  /\ answer = [t \in Threads |-> "none"]

-----------------------------------------------------------------------------
(* init_mem_man allocates the manager, a heap and a size class, ...        *)
Parts == [manager |-> "heap", heap |-> "size", size |-> "ready"]

InitPart ==
  /\ start \in DOMAIN Parts
  /\ objects' = objects \cup {start}
  /\ start' = Parts[start]
  /\ UNCHANGED <<active, anchor, word, taken, given, calls, threadVars>>

(* ... and gives back what it has when an allocation fails.                *)
Failed(given_back) ==
  /\ start \in DOMAIN Parts
  /\ objects' = objects \ given_back
  /\ start' = "failed"
  /\ UNCHANGED <<active, anchor, word, taken, given, calls, threadVars>>

InitFails == Failed({"heap", "size", "manager"})

(* final_mem_man, which leaves the superblock of the heap where it is.     *)
FinalManager ==
  /\ start = "ready" /\ \A t \in Threads : pc[t] = "idle"
  /\ start' = "final" /\ objects' = {}
  /\ UNCHANGED <<active, anchor, word, taken, given, calls, threadVars>>

-----------------------------------------------------------------------------
(* lockfree_alloc tries the active superblock first.                       *)
Call(t) ==
  /\ start = "ready" /\ pc[t] = "idle" /\ calls < CALLS
  /\ calls' = calls + 1
  /\ Goto(t, "read_active")
  /\ UNCHANGED <<heapVars, given, old_active, old_anchor, next_index, new_desc, answer>>

(* alloc_active, <1> reserve block: without one alloc_newsb goes on.       *)
ReadActive(t) ==
  /\ pc[t] = "read_active"
  /\ old_active' = [old_active EXCEPT ![t] = active]
  /\ Goto(t, IF active = ZERO_ACTIVE THEN "get_desc" ELSE "cas_active")
  /\ UNCHANGED <<heapVars, given, calls, old_anchor, next_index, new_desc, answer>>

(* ZERO_ACTIVE is chosen for the last credit, and make_active writes the   *)
(* word extracted from the old one over it: it stays as it is.             *)
Reserved(old) == make_active([old EXCEPT !.credits = IF @ = 0 THEN @ ELSE @ - 1])

CasActive(t) ==
  /\ pc[t] = "cas_active"
  /\ active' = IF active = old_active[t] THEN Reserved(active) ELSE active
  /\ Goto(t, IF active = old_active[t] THEN "read_anchor" ELSE "read_active")
  /\ UNCHANGED <<manVars, anchor, word, taken, given, calls,
                 old_active, old_anchor, next_index, new_desc, answer>>

(* <2> pop block: the anchor, then the index in the block it heads, ...    *)
ReadAnchor(t) ==
  /\ pc[t] = "read_anchor"
  /\ old_anchor' = [old_anchor EXCEPT ![t] = anchor[old_active[t].desc]]
  /\ Goto(t, "read_next")
  /\ UNCHANGED <<heapVars, given, calls, old_active, next_index, new_desc, answer>>

ReadNext(t) ==
  /\ pc[t] = "read_next"
  /\ \E w \in WordAt(old_active[t].desc, old_anchor[t].avail) :
       next_index' = [next_index EXCEPT ![t] = w]
  /\ Goto(t, "cas_anchor")
  /\ UNCHANGED <<heapVars, given, calls, old_active, old_anchor, new_desc, answer>>

(* ... and both go into the new anchor.  The one who found no credit left  *)
(* takes some from the counter, or calls the superblock full.              *)
Popped(t) ==
  LET old == old_anchor[t]
      last == old_active[t].credits = 0
  IN make_anchor(
       [avail |-> next_index[t],
        counter |-> IF last THEN old.counter - MIN(old.counter, MAXCREDITS) ELSE old.counter,
        state |-> IF last /\ old.counter = 0 THEN "FULL" ELSE old.state,
        tag |-> old.tag + 1])

(* What lies behind the superblock counts as one block.                    *)
Give(d, i) == given' = [given EXCEPT ![d][MIN(i, BLOCKS)] = @ + 1]

CasAnchor(t) ==
  LET d == old_active[t].desc IN
  /\ pc[t] = "cas_anchor" /\ anchor[d] = old_anchor[t]
  /\ anchor' = [anchor EXCEPT ![d] = Popped(t)]
  /\ Give(d, old_anchor[t].avail)
  /\ Return(t, "block")
  /\ UNCHANGED <<manVars, active, word, taken, calls>>

(* Mutant: the anchor is not read again.                                   *)
CasAnchorAgain(t) ==
  /\ pc[t] = "cas_anchor" /\ anchor[old_active[t].desc] # old_anchor[t]
  /\ UNCHANGED vars

CasAnchorFails(t) ==
  /\ pc[t] = "cas_anchor" /\ anchor[old_active[t].desc] # old_anchor[t]
  /\ Goto(t, "read_anchor")
  /\ UNCHANGED <<heapVars, given, calls, old_active, old_anchor, next_index, new_desc, answer>>

-----------------------------------------------------------------------------
(* alloc_newsb: a descriptor and a superblock are set up before the swap   *)
(* that shows them to others.  Nothing sets the tag.                       *)
NewCredits == MIN(BLOCKS, MAXCREDITS) - 1
(* Mutant: the blocks behind the credits are counted with them.            *)
NewAnchorAll(tag) == make_anchor([avail |-> 1, counter |-> BLOCKS, state |-> "ACTIVE", tag |-> tag])

NewAnchor(tag) == make_anchor([avail |-> 1, counter |-> BLOCKS - NewCredits - 1,
                               state |-> "ACTIVE", tag |-> tag])

GetDesc(t) ==
  /\ pc[t] = "get_desc"
  /\ \E d \in Descs \ taken, tag \in 0..(TAGS - 1) :
       /\ taken' = taken \cup {d}
       /\ new_desc' = [new_desc EXCEPT ![t] = d]
       /\ word' = [word EXCEPT ![d] = setup_sb]
       /\ anchor' = [anchor EXCEPT ![d] = NewAnchor(tag)]
  /\ Goto(t, "cas_new")
  /\ UNCHANGED <<manVars, active, given, calls, old_active, old_anchor, next_index, answer>>

(* Mutant: the loser keeps its superblock.                                 *)
RollBackNot(t) ==
  /\ pc[t] = "cas_new" /\ active # ZERO_ACTIVE
  /\ Return(t, "NULL")
  /\ UNCHANGED <<heapVars, given, calls>>

InstallActive(t) ==
  /\ pc[t] = "cas_new" /\ active = ZERO_ACTIVE
  /\ active' = make_active([desc |-> new_desc[t], credits |-> NewCredits])
  /\ Goto(t, "write_owner")
  /\ UNCHANGED <<manVars, anchor, word, taken, given, calls,
                 old_active, old_anchor, next_index, new_desc, answer>>

(* The winner keeps block 0: its first word names the descriptor, the      *)
(* caller is given the second.                                             *)
WriteOwner(t) ==
  /\ pc[t] = "write_owner"
  /\ \E w \in Data : word' = [word EXCEPT ![new_desc[t]][0] = w]
  /\ Give(new_desc[t], 0)
  /\ Return(t, "block")
  /\ UNCHANGED <<manVars, active, anchor, taken, calls>>

(* The loser rolls back, and its call fails.                               *)
RollBack(t) ==
  /\ pc[t] = "cas_new" /\ active # ZERO_ACTIVE
  /\ taken' = taken \ {new_desc[t]}
  /\ Return(t, "NULL")
  /\ UNCHANGED <<manVars, active, anchor, word, given, calls>>

(* A client writes what it was given.  From the second word of block 0 on  *)
(* it meets the first word of block 1.                                     *)
Reached(i) == IF i > 0 THEN {i} ELSE {j \in {1} : SPAN = 2}

ClientWrite ==
  /\ \E d \in Descs, i \in Blocks, w \in Data :
       /\ given[d][i] > 0
       /\ word' = [word EXCEPT ![d] = [j \in Blocks |->
                     IF j \in Reached(i) THEN w ELSE word[d][j]]]
  /\ UNCHANGED <<manVars, active, anchor, taken, given, calls, threadVars>>

Step(t) ==
  \/ ReadActive(t) \/ CasActive(t) \/ ReadAnchor(t) \/ ReadNext(t)
  \/ CasAnchor(t) \/ CasAnchorFails(t)
  \/ GetDesc(t) \/ InstallActive(t) \/ WriteOwner(t) \/ RollBack(t)

Next == InitPart \/ InitFails \/ FinalManager \/ ClientWrite \/ \E t \in Threads : Call(t) \/ Step(t)

(* A thread inside a call is scheduled again and again.                    *)
Spec == Init /\ [][Next]_vars /\ \A t \in Threads : WF_vars(Step(t))

-----------------------------------------------------------------------------
AnchorWords == [avail : 0..(AVAILS - 1), counter : 0..(COUNTERS - 1),
                state : {"ACTIVE", "FULL"}, tag : 0..(TAGS - 1)]
ActiveWords == [desc : Descs \cup {NONE}, credits : 0..(CREDITS - 1)]

TypeOK ==
  /\ start \in {"manager", "heap", "size", "ready", "failed", "final"}
  /\ objects \subseteq DOMAIN Parts
  /\ active \in ActiveWords /\ anchor \in [Descs -> AnchorWords]
  /\ word \in [Descs -> [Blocks -> Nat]]
  /\ taken \subseteq Descs
  /\ given \in [Descs -> [0..BLOCKS -> Nat]] /\ calls \in Nat
  /\ pc \in [Threads -> {"idle", "read_active", "cas_active", "read_anchor", "read_next",
                         "cas_anchor", "get_desc", "cas_new", "write_owner"}]
  /\ old_active \in [Threads -> ActiveWords] /\ old_anchor \in [Threads -> AnchorWords]
  /\ next_index \in [Threads -> Nat]
  /\ new_desc \in [Threads -> Descs \cup {NONE}]
  /\ answer \in [Threads -> {"none", "block", "NULL"}]

Overrun(d) == given[d][BLOCKS] > 0
Left(d) == {i \in Blocks \ {0} : given[d][i] = 0}

(* main.c:267: no block is given to two callers, and none behind the       *)
(* superblock before every block of it has been given.                     *)
BlocksDistinct ==
  \A d \in Descs :
    /\ Overrun(d) => Left(d) = {}
    /\ ~Overrun(d) => \A i \in Blocks : given[d][i] <= 1

(* main.c:294: what the counter still promises is there to be given.       *)
CounterHonest ==
  active # ZERO_ACTIVE => anchor[active.desc].counter <= Cardinality(Left(active.desc))

(* main.c:80, 202: a manager that could not be set up leaves nothing, and  *)
(* a superblock that lost the race is given back: when no call is under    *)
(* way the heap's is the only one.                                         *)
OneSuperblock ==
  /\ start \in {"failed", "final"} => objects = {}
  /\ (\A t \in Threads : pc[t] = "idle") =>
       taken = (IF active = ZERO_ACTIVE THEN {} ELSE {active.desc})

(* main.c:252, 310: whoever has to try again has been overtaken by another *)
(* caller, so every one of finitely many calls ends.                       *)
CallsReturn == \A t \in Threads : pc[t] # "idle" ~> pc[t] = "idle"

=============================================================================
