----------------------------- MODULE CheckedStack -----------------------------
(***************************************************************************)
(* c_int_imp/stack.c on mem.c: a stack whose head and elements are blocks  *)
(* of the checked memory, beside a client that allocates and frees blocks  *)
(* of its own.  NEW and FREE, of a header that is not in the repository,   *)
(* are mem_alloc and mem_free; FREE clears the pointer.                    *)
(***************************************************************************)
EXTENDS CheckedMem

CONSTANTS Values, STACK_SIZE, ELEM_SIZE \* what is pushed; sizes of the structures

ASSUME StackAssumption == {STACK_SIZE, ELEM_SIZE} \subseteq Nat \ {0}

VARIABLES
  stk,       \* the client's Stack_T
  head, count, \* of the stack
  elem,      \* the elements by address
  releasing, t, \* Stack_free runs; the element it has come to
  pushed,    \* history: the elements pushed and not popped, last first
  mine       \* history: the blocks that the client has of its own

stackVars == <<stk, head, count, elem, releasing, t, pushed, mine>>

Init ==
  /\ MemInit
  /\ stk = NULL /\ head = NULL /\ count = 0 /\ elem = <<>>
  /\ releasing = FALSE /\ t = NULL /\ pushed = <<>> /\ mine = {}

(* The block the last call of mem_alloc gave out.                          *)
NewBlock == desc'[Len(desc')].ptr

(* What is freed can be read no more.                                      *)
Without(p) == [q \in DOMAIN elem \ {p} |-> elem[q]]

Usable == stk # NULL /\ ~releasing

Stack_new ==
  /\ stk = NULL
  /\ mem_alloc(STACK_SIZE)
  /\ stk' = NewBlock /\ head' = NULL /\ count' = 0
  /\ UNCHANGED <<elem, releasing, t, pushed, mine>>

Stack_push(x) ==
  /\ Usable
  /\ mem_alloc(ELEM_SIZE)
  /\ elem' = [p \in DOMAIN elem \cup {NewBlock} |->
                IF p = NewBlock THEN [x |-> x, link |-> head] ELSE elem[p]]
  /\ head' = NewBlock /\ count' = count + 1
  /\ pushed' = <<[at |-> NewBlock, x |-> x]>> \o pushed
  /\ UNCHANGED <<stk, releasing, t, mine>>

(* NEW ends the program when there is no memory.                           *)
NewFails ==
  /\ ~releasing /\ (mem_alloc_fails(ELEM_SIZE) \/ mem_alloc_fails(STACK_SIZE))
  /\ UNCHANGED stackVars

(* Mutant: the element is freed and the head left where it was.            *)
Stack_pop_stays ==
  /\ Usable /\ count > 0
  /\ mem_free(head)
  /\ count' = count - 1 /\ pushed' = Tail(pushed)
  /\ UNCHANGED <<stk, head, elem, releasing, t, mine>>

(* The assertion: the count says that there is an element.                 *)
Stack_pop ==
  /\ Usable /\ count > 0
  /\ mem_free(head)
  /\ head' = elem[head].link /\ count' = count - 1
  /\ elem' = Without(head)
  /\ pushed' = Tail(pushed)
  /\ UNCHANGED <<stk, releasing, t, mine>>

(* Stack_free: every element, its link read before it is freed, ...        *)
FreeStart ==
  /\ Usable /\ Running
  /\ releasing' = TRUE /\ t' = head
  /\ UNCHANGED <<memVars, stk, head, count, elem, pushed, mine>>

(* Mutant: the last element is left.                                       *)
FreeElemShort ==
  /\ releasing /\ t # NULL
  /\ mem_free(t)
  /\ t' = IF elem[t].link = NULL THEN NULL
          ELSE IF elem[elem[t].link].link = NULL THEN NULL ELSE elem[t].link
  /\ elem' = Without(t)
  /\ pushed' = Tail(pushed)
  /\ UNCHANGED <<stk, head, count, releasing, mine>>

FreeElem ==
  /\ releasing /\ t # NULL
  /\ mem_free(t)
  /\ t' = elem[t].link /\ elem' = Without(t)
  /\ pushed' = Tail(pushed)
  /\ UNCHANGED <<stk, head, count, releasing, mine>>

(* ... and the head of the stack.                                          *)
FreeHead ==
  /\ releasing /\ t = NULL
  /\ mem_free(stk)
  /\ stk' = NULL /\ releasing' = FALSE
  /\ head' = NULL /\ count' = 0 /\ elem' = <<>>
  /\ UNCHANGED <<t, pushed, mine>>

(* The blocks of the stack, while it is not being freed.                   *)
Own == DOMAIN elem \cup {stk}

(* The client frees any address but those of the stack.                    *)
ClientAlloc ==
  /\ ~releasing
  /\ \E n \in Requests : mem_alloc(n) /\ mine' = mine \cup {NewBlock}
  /\ UNCHANGED <<stk, head, count, elem, releasing, t, pushed>>

ClientAllocFails ==
  /\ ~releasing
  /\ \E n \in Requests : mem_alloc_fails(n)
  /\ UNCHANGED stackVars

ClientFree ==
  /\ ~releasing
  /\ \E p \in 0..brk \ Own : mem_free(p) /\ mine' = mine \ {p}
  /\ UNCHANGED <<stk, head, count, elem, releasing, t, pushed>>

Next ==
  \/ Stack_new \/ NewFails \/ \E x \in Values : Stack_push(x)
  \/ Stack_pop \/ FreeStart \/ FreeElem \/ FreeHead
  \/ ClientAlloc \/ ClientAllocFails \/ ClientFree

vars == <<memVars, stackVars>>
Spec == Init /\ [][Next]_vars

-----------------------------------------------------------------------------
(* The address of the element i of the history, NULL behind the last.      *)
Address(i) == IF i <= Len(pushed) THEN pushed[i].at ELSE NULL

(* stack.c:45: the elements from the head on are what was pushed and not   *)
(* popped, last first; count says how many there are.                      *)
LastInFirstOut ==
  Usable /\ Running =>
    /\ count = Len(pushed) /\ head = Address(1)
    /\ \A i \in 1..count : /\ pushed[i].at \in DOMAIN elem
                          /\ elem[pushed[i].at] = [x |-> pushed[i].x, link |-> Address(i + 1)]

(* stack.c:57: the blocks in use are the client's and those of the stack,  *)
(* so freeing a stack gives back every block of it, and none twice.        *)
NothingLost ==
  Running => /\ {b.ptr : b \in live} = mine \cup (Own \ {NULL})
             /\ mine \cap Own = {}

=============================================================================
