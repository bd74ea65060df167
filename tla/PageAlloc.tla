------------------------------ MODULE PageAlloc ------------------------------
(***************************************************************************)
(* caos32/page_alloc.c and the calls of memory.c that lead to it: runs of  *)
(* 2^order pages are taken first fit from a table of usage counts and are  *)
(* given back by address and order.  Callers keep what they were given in  *)
(* held, and give it back with the order they asked for.                   *)
(***************************************************************************)
EXTENDS Integers, FiniteSets

CONSTANTS
  Holders,        \* the callers, each with at most one run of pages
  NOBLOCK,        \* held by a caller that has none
  Orders,         \* the orders callers ask for
  MAX_PAGE_ORDER, \* 3 in the code
  WORD,           \* zone->pages is an unsigned word of this many values
  BEYOND          \* what the memory after mem_map reads as, taken for a count

ASSUME OrdersAssumption == Orders \subseteq Nat /\ MAX_PAGE_ORDER \in Nat
ASSUME WordAssumption == WORD \in Nat \ {0} /\ BEYOND \in Int
ASSUME NoBlockAssumption == NOBLOCK \notin [first : Nat, order : Nat]

VARIABLES
  page_count, \* the pages of the machine
  mem_map,    \* the usage count of every page
  zone_pages, \* zone->pages, the bound of the search
  held,       \* the run of pages a caller was given
  answer,     \* what get_free_pages last returned to a caller
  reserved    \* history: the pages boot marked as used

pageVars == <<page_count, mem_map, zone_pages, held, answer, reserved>>

Pages     == 0..(page_count - 1)
Size(order) == 2^order
Run(b)    == IF b = NOBLOCK THEN {} ELSE b.first..(b.first + Size(b.order) - 1)

(* The search reads past the end of mem_map near the last page.            *)
CountAt(p) == IF p \in Pages THEN mem_map[p] ELSE BEYOND

(* The first page must have count zero, the others no positive count.      *)
Fits(first, order) ==
  /\ CountAt(first) = 0
  /\ \A p \in first..(first + Size(order) - 1) : CountAt(p) <= 0

(* Mutant: the search does not stop at the zone's last page.               *)
Unbounded(order) == {p \in 0..page_count : Fits(p, order)}

(* The pages __alloc_pages may return.                                     *)
Candidates(order) == {p \in Pages : p < zone_pages /\ Fits(p, order)}

-----------------------------------------------------------------------------
(* Mutants: slips of a programmer.                                         *)

(* The counts of the run are not raised.                                   *)
GetUncounted(o, order) ==
  /\ held[o] = NOBLOCK /\ order <= MAX_PAGE_ORDER
  /\ \E first \in Candidates(order) :
       /\ \A p \in Candidates(order) : first <= p
       /\ zone_pages' = (zone_pages - Size(order)) % WORD
       /\ held' = [held EXCEPT ![o] = [first |-> first, order |-> order]]
  /\ answer' = [answer EXCEPT ![o] = "pages"]
  /\ UNCHANGED <<page_count, mem_map, reserved>>

(* The loop that gives pages back runs once too often.                     *)
FreeOneMore(o) ==
  /\ held[o] # NOBLOCK
  /\ mem_map' = [mem_map EXCEPT ![held[o].first] = @ - (Size(held[o].order) + 1)]
  /\ held' = [held EXCEPT ![o] = NOBLOCK]
  /\ UNCHANGED <<page_count, zone_pages, answer, reserved>>

-----------------------------------------------------------------------------
(* get_free_pages: the first run that fits.  The zone's size shrinks with  *)
(* every allocation; node_size and zone->size, which nothing reads, are    *)
(* left out.                                                               *)
GetFreePages(o, order) ==
  /\ held[o] = NOBLOCK /\ order <= MAX_PAGE_ORDER
  /\ \E first \in Candidates(order) :
       /\ \A p \in Candidates(order) : first <= p
       /\ mem_map' = [p \in Pages |-> IF p \in first..(first + Size(order) - 1)
                                      THEN mem_map[p] + 1 ELSE mem_map[p]]
       /\ zone_pages' = (zone_pages - Size(order)) % WORD
       /\ held' = [held EXCEPT ![o] = [first |-> first, order |-> order]]
  /\ answer' = [answer EXCEPT ![o] = "pages"]
  /\ UNCHANGED <<page_count, reserved>>

(* __alloc_pages returns NULL, and page_to_virt(NULL) is an address, not   *)
(* NULL: pg - mem_map, shifted and moved into kernel space.                *)
GetFreePagesNoMemory(o, order) ==
  /\ held[o] = NOBLOCK /\ order <= MAX_PAGE_ORDER
  /\ Candidates(order) = {} /\ zone_pages <= page_count
  /\ answer' = [answer EXCEPT ![o] = "wild"]
  /\ UNCHANGED <<page_count, mem_map, zone_pages, held, reserved>>

GetFreePagesRefused(o, order) ==
  /\ held[o] = NOBLOCK /\ order > MAX_PAGE_ORDER
  /\ answer' = [answer EXCEPT ![o] = "NULL"]
  /\ UNCHANGED <<page_count, mem_map, zone_pages, held, reserved>>

(* free_pages: the loop lowers the count of the first page 2^order times.  *)
FreePages(o) ==
  /\ held[o] # NOBLOCK
  /\ mem_map' = [mem_map EXCEPT ![held[o].first] = @ - Size(held[o].order)]
  /\ held' = [held EXCEPT ![o] = NOBLOCK]
  /\ UNCHANGED <<page_count, zone_pages, answer, reserved>>

PageNext ==
  \E o \in Holders :
    \/ \E order \in Orders : \/ GetFreePages(o, order)
                             \/ GetFreePagesNoMemory(o, order)
                             \/ GetFreePagesRefused(o, order)
    \/ FreePages(o)

(* init_node, after init_mem_map marked the pages in use at boot.          *)
PageInit ==
  /\ page_count \in 1..(WORD - 1)
  /\ reserved \subseteq Pages
  /\ mem_map = [p \in Pages |-> IF p \in reserved THEN 1 ELSE 0]
  /\ zone_pages = page_count
  /\ held = [o \in Holders |-> NOBLOCK]
  /\ answer = [o \in Holders |-> "none"]

PageSpec == PageInit /\ [][PageNext]_pageVars

-----------------------------------------------------------------------------
(* What the table, the zone and the callers' runs are made of; the zone is *)
(* never larger than the machine.                                          *)
PageTypeOK ==
  /\ page_count \in 1..(WORD - 1)
  /\ mem_map \in [Pages -> Int]
  /\ zone_pages \in 0..page_count
  /\ held \in [Holders -> [first : Pages, order : Orders] \cup {NOBLOCK}]
  /\ answer \in [Holders -> {"none", "pages", "NULL", "wild"}]
  /\ reserved \subseteq Pages

(* The holders of a page.                                                  *)
HoldersOf(p) == {o \in Holders : p \in Run(held[o])}

(* The usage counts are exact: a page counts one when boot or one caller   *)
(* has it and none when it is free.                                        *)
Counted ==
  \A p \in Pages :
    /\ mem_map[p] \in {0, 1}
    /\ mem_map[p] = 1 <=> p \in reserved \/ HoldersOf(p) # {}

(* page_alloc.c:55 "following pages are free": no page is given to two     *)
(* callers, or to one while boot has it.                                   *)
Exclusive ==
  \A o \in Holders :
    /\ Run(held[o]) \subseteq Pages \ reserved
    /\ \A h \in Holders : h # o => Run(held[o]) \cap Run(held[h]) = {}

PageInv == PageTypeOK /\ Counted /\ Exclusive

=============================================================================
