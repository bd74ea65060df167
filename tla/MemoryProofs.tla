----------------------------- MODULE MemoryProofs -----------------------------
(***************************************************************************)
(* Theorems about the memory of caos32, for any machine and any callers.   *)
(* The page allocator, when every request is for one page as CaOS's own    *)
(* are: counts are exact and no page has two owners; with larger requests  *)
(* neither holds.  Then boot, which hands over everything it took, and     *)
(* create_task, which gives back what it took when it fails.               *)
(***************************************************************************)
EXTENDS TaskMemory, SequenceTheorems, FiniteSetTheorems, TLAPS

USE OrdersAssumption, WordAssumption, NoBlockAssumption

OnePage == \A order \in Orders : order <= MAX_PAGE_ORDER => order = 0

LEMMA OnePageSize == Size(0) = 1
BY DEF Size

(* A caller that holds something holds the one page its run begins with.   *)
LEMMA OnePageRun ==
  ASSUME NEW b \in [first : Nat, order : Nat], b.order = 0
  PROVE  Run(b) = {b.first}
<1>1. b # NOBLOCK
  BY NoBlockAssumption
<1>2. Run(b) = b.first..(b.first + 1 - 1)
  BY <1>1, OnePageSize DEF Run
<1>. QED BY <1>2

(* With one-page requests a caller's run is no page or one.                *)
Single ==
  \A o \in Holders : held[o] # NOBLOCK => held[o].order = 0

Inv == PageInv /\ Single

LEMMA RunFacts ==
  ASSUME Inv
  PROVE  \A o \in Holders :
           IF held[o] = NOBLOCK THEN Run(held[o]) = {} ELSE Run(held[o]) = {held[o].first}
<1>. SUFFICES ASSUME NEW o \in Holders
              PROVE  IF held[o] = NOBLOCK THEN Run(held[o]) = {}
                     ELSE Run(held[o]) = {held[o].first}
  OBVIOUS
<1>1. CASE held[o] = NOBLOCK
  BY <1>1 DEF Run
<1>2. CASE held[o] # NOBLOCK
  <2>1. held[o] \in [first : Pages, order : Orders] /\ held[o].order = 0
    BY <1>2 DEF Inv, PageInv, PageTypeOK, Single
  <2>2. held[o] \in [first : Nat, order : Nat]
    BY <2>1 DEF Pages
  <2>. QED BY <1>2, <2>1, <2>2, OnePageRun
<1>. QED BY <1>1, <1>2

(* Counted, without the set of holders.                                    *)
LEMMA CountedFacts ==
  ASSUME Counted, NEW p \in Pages
  PROVE  /\ mem_map[p] \in {0, 1}
         /\ mem_map[p] = 1 <=> p \in reserved \/ \E o \in Holders : p \in Run(held[o])
BY DEF Counted, HoldersOf

LEMMA InvInit ==
  ASSUME PageInit
  PROVE  Inv
<1>1. page_count \in Nat /\ page_count > 0 /\ page_count < WORD
  BY DEF PageInit
<1>2. PageTypeOK
  BY <1>1 DEF PageInit, PageTypeOK
<1>3. \A o \in Holders : held[o] = NOBLOCK /\ Run(held[o]) = {}
  BY DEF PageInit, Run
<1>4. Counted
  BY <1>3 DEF PageInit, Counted, HoldersOf
<1>5. Exclusive /\ Single
  BY <1>3 DEF Exclusive, Single
<1>. QED BY <1>2, <1>4, <1>5 DEF Inv, PageInv

(* The page a one-page request is given is free.                           *)
LEMMA GivenPage ==
  ASSUME Inv, NEW first \in Candidates(0)
  PROVE  /\ first \in Pages /\ first < zone_pages /\ mem_map[first] = 0
         /\ first \notin reserved /\ \A h \in Holders : first \notin Run(held[h])
<1>1. first \in Pages /\ first < zone_pages /\ CountAt(first) = 0
  BY DEF Candidates, Fits
<1>2. mem_map[first] = 0
  BY <1>1 DEF CountAt
<1>. QED BY <1>1, <1>2, CountedFacts DEF Inv, PageInv

LEMMA GetKeeps ==
  ASSUME Inv, OnePage, NEW o \in Holders, NEW order \in Orders, GetFreePages(o, order)
  PROVE  Inv'
<1>1. order = 0
  BY DEF GetFreePages, OnePage
<1>2. PICK first \in Candidates(0) :
        /\ mem_map' = [p \in Pages |-> IF p \in first..(first + Size(0) - 1)
                                       THEN mem_map[p] + 1 ELSE mem_map[p]]
        /\ zone_pages' = (zone_pages - Size(0)) % WORD
        /\ held' = [held EXCEPT ![o] = [first |-> first, order |-> 0]]
  BY <1>1 DEF GetFreePages
<1>3. /\ first \in Pages /\ first < zone_pages /\ mem_map[first] = 0
      /\ first \notin reserved /\ \A h \in Holders : first \notin Run(held[h])
  BY <1>2, GivenPage
<1>4. /\ page_count' = page_count /\ reserved' = reserved /\ held[o] = NOBLOCK
      /\ answer' = [answer EXCEPT ![o] = "pages"] /\ Pages' = Pages
  BY DEF GetFreePages, Pages
<1>5. /\ page_count \in Nat /\ page_count < WORD /\ zone_pages \in 0..page_count
      /\ mem_map \in [Pages -> Int] /\ reserved \subseteq Pages
      /\ held \in [Holders -> [first : Pages, order : Orders] \cup {NOBLOCK}]
      /\ answer \in [Holders -> {"none", "pages", "NULL", "wild"}]
  BY DEF Inv, PageInv, PageTypeOK
<1>6. \A p \in Pages : mem_map'[p] = IF p = first THEN 1 ELSE mem_map[p]
  <2>1. first..(first + Size(0) - 1) = {first}
    BY <1>3, OnePageSize DEF Pages
  <2>. QED BY <1>2, <1>3, <1>5, <2>1
<1>7. PageTypeOK'
  <2>1. zone_pages' = zone_pages - 1
    <3>1. zone_pages - 1 \in 0..(WORD - 1)
      BY <1>3, <1>5 DEF Pages
    <3>. QED BY <1>2, <1>5, <3>1, OnePageSize
  <2>2. zone_pages' \in 0..page_count
    BY <1>3, <1>5, <2>1 DEF Pages
  <2>3. mem_map' \in [Pages -> Int]
    <3>1. mem_map' = [p \in Pages |-> mem_map'[p]]
      BY <1>2
    <3>2. \A p \in Pages : mem_map'[p] \in Int
      BY <1>5, <1>6
    <3>. QED BY <3>1, <3>2
  <2>4. held' \in [Holders -> [first : Pages, order : Orders] \cup {NOBLOCK}]
    BY <1>1, <1>2, <1>3, <1>5
  <2>5. page_count \in 1..(WORD - 1)
    BY DEF Inv, PageInv, PageTypeOK
  <2>. QED BY <1>4, <1>5, <2>2, <2>3, <2>4, <2>5 DEF PageTypeOK
<1>8. /\ Run(held'[o]) = {first}
      /\ \A h \in Holders \ {o} : held'[h] = held[h]
      /\ Run(held[o]) = {} /\ held'[o] = [first |-> first, order |-> 0]
  <2>1. held'[o] = [first |-> first, order |-> 0]
    BY <1>2, <1>5
  <2>2. first \in Nat
    BY <1>3 DEF Pages
  <2>. QED BY <1>2, <1>4, <1>5, <2>1, <2>2, OnePageRun DEF Run
<1>9. Counted'
  <2>. SUFFICES ASSUME NEW p \in Pages
                PROVE  /\ mem_map'[p] \in {0, 1}
                       /\ mem_map'[p] = 1 <=>
                            p \in reserved \/ \E h \in Holders : p \in Run(held'[h])
    BY <1>4 DEF Counted, HoldersOf, Run
  <2>1. CASE p = first
    BY <1>6, <1>8, <2>1
  <2>2. CASE p # first
    <3>1. \A h \in Holders : p \in Run(held'[h]) <=> p \in Run(held[h])
      BY <1>8, <2>2
    <3>. QED BY <1>6, <2>2, <3>1, CountedFacts DEF Inv, PageInv
  <2>. QED BY <2>1, <2>2
<1>10. Exclusive'
  <2>1. \A h \in Holders : Run(held'[h]) \subseteq Pages \ reserved
    BY <1>3, <1>8 DEF Inv, PageInv, Exclusive
  <2>2. \A h, g \in Holders : h # g => Run(held'[h]) \cap Run(held'[g]) = {}
    BY <1>3, <1>8 DEF Inv, PageInv, Exclusive
  <2>. QED BY <1>4, <2>1, <2>2 DEF Exclusive, Run
<1>11. Single'
  BY <1>8 DEF Inv, Single
<1>. QED BY <1>7, <1>9, <1>10, <1>11 DEF Inv, PageInv

LEMMA FreeKeeps ==
  ASSUME Inv, NEW o \in Holders, FreePages(o)
  PROVE  Inv'
<1>. DEFINE first == held[o].first
<1>1. /\ page_count' = page_count /\ reserved' = reserved /\ zone_pages' = zone_pages
      /\ answer' = answer /\ Pages' = Pages /\ held[o] # NOBLOCK
      /\ held' = [held EXCEPT ![o] = NOBLOCK]
  BY DEF FreePages, Pages
<1>2. /\ mem_map \in [Pages -> Int]
      /\ held \in [Holders -> [first : Pages, order : Orders] \cup {NOBLOCK}]
  BY DEF Inv, PageInv, PageTypeOK
<1>3. first \in Pages /\ held[o].order = 0 /\ Run(held[o]) = {first}
  BY <1>1, <1>2, RunFacts DEF Inv, Single
<1>4. mem_map' = [mem_map EXCEPT ![first] = @ - 1]
  BY <1>3, OnePageSize DEF FreePages
<1>5. first \notin reserved /\ mem_map[first] = 1
  BY <1>3, CountedFacts DEF Inv, PageInv, Exclusive
<1>6. \A p \in Pages : mem_map'[p] = IF p = first THEN 0 ELSE mem_map[p]
  BY <1>2, <1>3, <1>4, <1>5
<1>7. /\ held'[o] = NOBLOCK /\ Run(held'[o]) = {}
      /\ \A h \in Holders \ {o} : held'[h] = held[h] /\ first \notin Run(held[h])
  BY <1>1, <1>2, <1>3 DEF Run, Inv, PageInv, Exclusive
<1>8. PageTypeOK'
  BY <1>1, <1>2, <1>3, <1>4 DEF Inv, PageInv, PageTypeOK
<1>9. Counted'
  <2>. SUFFICES ASSUME NEW p \in Pages
                PROVE  /\ mem_map'[p] \in {0, 1}
                       /\ mem_map'[p] = 1 <=>
                            p \in reserved \/ \E h \in Holders : p \in Run(held'[h])
    BY <1>1 DEF Counted, HoldersOf, Run
  <2>1. CASE p = first
    BY <1>5, <1>6, <1>7, <2>1
  <2>2. CASE p # first
    <3>1. \A h \in Holders : p \in Run(held'[h]) <=> p \in Run(held[h])
      BY <1>3, <1>7, <2>2
    <3>. QED BY <1>6, <2>2, <3>1, CountedFacts DEF Inv, PageInv
  <2>. QED BY <2>1, <2>2
<1>10. Exclusive'
  <2>1. \A h \in Holders : Run(held'[h]) \subseteq Pages \ reserved
    BY <1>7 DEF Inv, PageInv, Exclusive
  <2>2. \A h, g \in Holders : h # g => Run(held'[h]) \cap Run(held'[g]) = {}
    BY <1>7 DEF Inv, PageInv, Exclusive
  <2>. QED BY <1>1, <2>1, <2>2 DEF Exclusive, Run
<1>11. Single'
  BY <1>7 DEF Inv, Single
<1>. QED BY <1>8, <1>9, <1>10, <1>11 DEF Inv, PageInv

(* Every other step leaves the pages and their holders as they are.        *)
LEMMA QuietKeeps ==
  ASSUME Inv, UNCHANGED <<page_count, mem_map, zone_pages, held, reserved>>,
         answer' \in [Holders -> {"none", "pages", "NULL", "wild"}]
  PROVE  Inv'
BY DEF Inv, PageInv, PageTypeOK, Counted, Exclusive, Single, HoldersOf, Run, Pages

LEMMA InvStep ==
  ASSUME Inv, OnePage, [PageNext]_pageVars
  PROVE  Inv'
<1>1. CASE UNCHANGED pageVars
  <2>1. answer' \in [Holders -> {"none", "pages", "NULL", "wild"}]
    BY <1>1 DEF pageVars, Inv, PageInv, PageTypeOK
  <2>. QED BY <1>1, <2>1, QuietKeeps DEF pageVars
<1>2. ASSUME NEW o \in Holders, NEW order \in Orders, GetFreePages(o, order)
      PROVE  Inv'
  BY <1>2, GetKeeps
<1>3. ASSUME NEW o \in Holders, NEW order \in Orders,
             GetFreePagesNoMemory(o, order) \/ GetFreePagesRefused(o, order)
      PROVE  Inv'
  <2>1. answer' \in [Holders -> {"none", "pages", "NULL", "wild"}]
    BY <1>3 DEF GetFreePagesNoMemory, GetFreePagesRefused, Inv, PageInv, PageTypeOK
  <2>. QED BY <1>3, <2>1, QuietKeeps DEF GetFreePagesNoMemory, GetFreePagesRefused
<1>4. ASSUME NEW o \in Holders, FreePages(o)
      PROVE  Inv'
  BY <1>4, FreeKeeps
<1>. QED BY <1>1, <1>2, <1>3, <1>4 DEF PageNext

(* get_free_pages and free_pages never give a page to two callers, or one  *)
(* that boot has, and the counts in mem_map are exact, whatever the size   *)
(* of the machine and the order of the calls, when requests are for one    *)
(* page each.                                                              *)
THEOREM PagesSafe == ASSUME OnePage PROVE PageSpec => []PageInv
<1>1. PageInit => Inv
  BY InvInit
<1>2. Inv /\ [PageNext]_pageVars => Inv'
  BY InvStep
<1>3. Inv => PageInv
  BY DEF Inv
<1>. QED BY <1>1, <1>2, <1>3, PTL DEF PageSpec

(* mem_map says of every page whether somebody holds it.                   *)
THEOREM PagesCounted == ASSUME OnePage PROVE PageSpec => []Counted
<1>1. PageInv => Counted
  BY DEF PageInv
<1>. QED BY <1>1, PagesSafe, PTL

(* No page is given to two callers, or to one while boot has it.           *)
THEOREM PagesExclusive == ASSUME OnePage PROVE PageSpec => []Exclusive
<1>1. PageInv => Exclusive
  BY DEF PageInv
<1>. QED BY <1>1, PagesSafe, PTL


-----------------------------------------------------------------------------
(* Boot.  The pages paging_init takes, and init_mem_map.                   *)
AtLeastOne(n) == IF n = 0 THEN 1 ELSE n
TableCount == AtLeastOne(pgd_count)
MapCount   == AtLeastOne(mem_map_page)
MapStart   == BOOT_PAGES + TableCount

(* The pages taken since page first, one after the other.                  *)
TakenFrom(first) == \A i \in 1..Len(taken) : taken[i] = first + i - 1

Entered(n) == Len(directory) = n /\ \A i \in 1..n : directory[i] = BOOT_PAGES + i - 1

BootShape ==
  /\ phy_mem_size \in MemorySizes
  /\ page_count = (phy_mem_size * ONE_MB) \div PAGE_SIZE
  /\ taken \in Seq(Nat) /\ directory \in Seq(Nat)
  /\ step \in {"bootmem", "paging", "map", "running"}
  /\ step = "bootmem" => boot_bitmap = {} /\ taken = <<>> /\ directory = <<>>
  /\ step = "paging" =>
       /\ boot_bitmap = 0..(BOOT_PAGES + Len(taken) - 1)
       /\ TakenFrom(BOOT_PAGES) /\ Len(taken) <= TableCount
       /\ Entered(IF taken = <<>> THEN 0 ELSE Len(taken) - 1)
  /\ step \in {"bootmem", "paging"} => tables = {}
  /\ step = "map" =>
       /\ boot_bitmap = 0..(MapStart + Len(taken) - 1)
       /\ TakenFrom(MapStart) /\ Len(taken) <= MapCount
  /\ step \in {"map", "running"} =>
       Entered(TableCount - 1) /\ tables = BOOT_PAGES..(MapStart - 2)
  /\ step # "running" =>
       map_pages = {} /\ mem_map = [p \in Pages |-> 0] /\ reserved = {}
         /\ \A o \in Holders : held[o] = NOBLOCK
  /\ step = "running" =>
       /\ boot_bitmap = 0..(MapStart + MapCount)
       /\ map_pages = Spanned(MapStart, mem_map_size)
       /\ 0..(MapStart + MapCount - 1) \cap Pages \subseteq reserved

-----------------------------------------------------------------------------
(* create_task.                                                            *)
Without(role) == held[Page(role)] = NOBLOCK

CreateInv ==
  /\ \/ creating = Nobody
     \/ creating \in [task : Tasks,
                      step : {"pgd", "pte", "tcb", "task_addr", "add", "fill",
                              "err_task", "err_tcb", "err_pte", "err_pgd"}]
  /\ creating # Nobody => step = "running"
  /\ creating.step = "err_tcb" => Without("task_addr")
  /\ creating.step = "err_pte" => Without("task_addr") /\ Without("tcb")
  /\ creating.step = "err_pgd" => Without("task_addr") /\ Without("tcb") /\ Without("pte")

TableInv ==
  /\ task_table \in [Pids -> Tasks \cup {NOBLOCK}] /\ task_count \in Nat
  /\ filled \subseteq Tasks /\ deleted \subseteq Tasks
  /\ creating.task \notin filled
  /\ creating.step = "fill" => creating.task \in InTable
  /\ InTable \cup deleted = IF creating.step = "fill" THEN filled \cup {creating.task} ELSE filled
  /\ IsFiniteSet(filled) /\ task_count = Cardinality(filled)
  /\ \A l, m \in Pids : l # m /\ task_table[l] # NOBLOCK => task_table[l] # task_table[m]

TaskIInv == Inv /\ BootShape /\ CreateInv /\ TableInv /\ FailedGivesBack

-----------------------------------------------------------------------------
(* The bitmap of boot memory fills without holes.                          *)

LEMMA NextPage ==
  ASSUME NEW n \in Nat, boot_bitmap = 0..(n - 1)
  PROVE  NextBootPage = n /\ boot_bitmap \cup {NextBootPage} = 0..n
<1>1. Cardinality(boot_bitmap) = n
  BY FS_Interval
<1>2. \A p \in 0..n : p \notin boot_bitmap /\ 0..(p - 1) \subseteq boot_bitmap <=> p = n
  OBVIOUS
<1>3. n \in 0..n
  OBVIOUS
<1>4. NextBootPage = n
  BY <1>1, <1>2, <1>3 DEF NextBootPage
<1> QED BY <1>4

LEMMA Quotients ==
  ASSUME BootAssumption
  PROVE  /\ \A n \in Nat : n \div TABLE_MB \in Nat /\ n \div PAGE_SIZE \in Nat
         /\ PAGE_SIZE \in Nat \ {0} /\ MEM_MAP_T \in Nat \ {0} /\ BOOT_PAGES \in Nat \ {0}
<1>1. /\ TABLE_MB \in Nat \ {0} /\ PAGE_SIZE \in Nat \ {0}
      /\ MEM_MAP_T \in Nat \ {0} /\ BOOT_PAGES \in Nat \ {0}
  BY DEF BootAssumption
<1>2. \A n \in Nat, d \in Nat \ {0} : n \div d \in Nat
  OBVIOUS
<1> QED BY <1>1, <1>2

LEMMA BootSizes ==
  ASSUME BootAssumption, BootShape, page_count \in Nat
  PROVE  /\ pgd_count \in Nat /\ TableCount \in Nat \ {0} /\ pgd_count <= TableCount
         /\ mem_map_size \in Nat /\ mem_map_page \in Nat /\ MapCount \in Nat \ {0}
         /\ mem_map_page <= MapCount
         /\ MapStart \in Nat /\ MapStart = BOOT_PAGES + TableCount
<1>1. phy_mem_size \in Nat /\ MEM_MAP_T \in Nat
  BY Quotients DEF BootAssumption, BootShape
<1>2. pgd_count \in Nat
  BY <1>1, Quotients DEF pgd_count
<1>3. mem_map_size \in Nat
  BY <1>1 DEF mem_map_size
<1>4. mem_map_page \in Nat
  BY <1>3, Quotients DEF mem_map_page
<1> QED BY <1>2, <1>3, <1>4, Quotients DEF AtLeastOne, TableCount, MapCount, MapStart

LEMMA AllocTakes ==
  ASSUME NEW first \in Nat, taken \in Seq(Nat), boot_bitmap = 0..(first + Len(taken) - 1),
         TakenFrom(first), AllocBootmem
  PROVE  /\ taken' \in Seq(Nat) /\ Len(taken') = Len(taken) + 1 /\ taken' # <<>>
         /\ boot_bitmap' = 0..(first + Len(taken') - 1)
         /\ \A i \in 1..Len(taken') : taken'[i] = first + i - 1
<1> DEFINE n == first + Len(taken)
<1>1. Len(taken) \in Nat /\ n \in Nat /\ boot_bitmap = 0..(n - 1)
  BY LenProperties
<1> HIDE DEF n
<1>2. taken' = Append(taken, n) /\ boot_bitmap' = 0..n
  BY <1>1, NextPage DEF AllocBootmem
<1>3. /\ taken' \in Seq(Nat) /\ Len(taken') = Len(taken) + 1
      /\ \A i \in 1..Len(taken) : taken'[i] = taken[i]
      /\ taken'[Len(taken) + 1] = n
  BY <1>1, <1>2, AppendProperties
<1>4. \A i \in 1..(Len(taken) + 1) : i \in 1..Len(taken) \/ i = Len(taken) + 1
  BY <1>1
<1>5. n = first + Len(taken') - 1 /\ n = first + (Len(taken) + 1) - 1
  BY <1>1, <1>3 DEF n
<1>6. \A i \in 1..Len(taken') : taken'[i] = first + i - 1
  BY <1>3, <1>4, <1>5 DEF TakenFrom
<1>7. taken' # <<>>
  BY <1>1, <1>3
<1> QED BY <1>2, <1>3, <1>5, <1>6, <1>7

LEMMA TakenEmpty ==
  ASSUME taken \in Seq(Nat)
  PROVE  Len(taken) \in Nat /\ (taken = <<>> <=> Len(taken) = 0)
BY EmptySeq, LenProperties

(* The sizes the boot goes by do not change.                               *)
LEMMA SizesStay ==
  ASSUME UNCHANGED <<phy_mem_size, page_count>>
  PROVE  UNCHANGED <<pgd_count, TableCount, mem_map_size, mem_map_page, MapCount, MapStart, Pages>>
BY DEF pgd_count, AtLeastOne, TableCount, mem_map_size, mem_map_page, MapCount, MapStart, Pages

LEMMA BootmemShape ==
  ASSUME BootAssumption, BootShape, page_count \in Nat, BootmemInit
  PROVE  BootShape'
<1>1. /\ step = "bootmem" /\ step' = "paging" /\ boot_bitmap' = 0..(BOOT_PAGES - 1)
      /\ UNCHANGED <<phy_mem_size, taken, directory, tables, map_pages, page_count, mem_map,
                     held, reserved>>
  BY DEF BootmemInit, pageVars
<1>2. UNCHANGED <<TableCount, Pages>>
  BY <1>1, SizesStay
<1>3. taken = <<>> /\ directory = <<>> /\ taken' = <<>> /\ Len(taken') = 0 /\ directory' = <<>>
  BY <1>1 DEF BootShape
<1>4. boot_bitmap' = 0..(BOOT_PAGES + Len(taken') - 1) /\ Len(taken') <= TableCount
  <2>1. BOOT_PAGES \in Nat /\ TableCount \in Nat \ {0}
    BY BootSizes, Quotients
  <2>2. BOOT_PAGES + Len(taken') - 1 = BOOT_PAGES - 1 /\ Len(taken') <= TableCount
    BY <1>3, <2>1
  <2> QED BY <1>1, <2>2
<1>5. TakenFrom(BOOT_PAGES)' /\ Entered(0)'
  BY <1>3 DEF TakenFrom, Entered
<1> QED BY <1>1, <1>2, <1>3, <1>4, <1>5 DEF BootShape

LEMMA PagingShape ==
  ASSUME BootAssumption, BootShape, page_count \in Nat, PagingStart \/ PagingEntry
  PROVE  BootShape'
<1>1. /\ step = "paging" /\ AllocBootmem
      /\ UNCHANGED <<phy_mem_size, step, tables, map_pages, page_count, mem_map, held, reserved>>
  BY DEF PagingStart, PagingEntry, pageVars
<1>2. UNCHANGED <<TableCount, Pages>>
  BY <1>1, SizesStay
<1>3. /\ taken \in Seq(Nat) /\ boot_bitmap = 0..(BOOT_PAGES + Len(taken) - 1)
      /\ TakenFrom(BOOT_PAGES) /\ directory \in Seq(Nat) /\ Len(taken) <= TableCount
      /\ Entered(IF taken = <<>> THEN 0 ELSE Len(taken) - 1)
  BY <1>1 DEF BootShape
<1>4. BOOT_PAGES \in Nat /\ pgd_count \in Nat /\ TableCount \in Nat \ {0} /\ pgd_count <= TableCount
      /\ Len(taken) \in Nat
  BY <1>3, BootSizes, Quotients, LenProperties
<1>5. /\ taken' \in Seq(Nat) /\ Len(taken') = Len(taken) + 1 /\ taken' # <<>>
      /\ boot_bitmap' = 0..(BOOT_PAGES + Len(taken') - 1)
      /\ TakenFrom(BOOT_PAGES)'
  BY <1>1, <1>3, <1>4, AllocTakes DEF TakenFrom
<1>6. /\ Len(taken') <= TableCount /\ directory' \in Seq(Nat) /\ Len(directory') = Len(taken)
      /\ \A i \in 1..Len(taken) : directory'[i] = BOOT_PAGES + i - 1
  <2>1. CASE PagingStart
    <3>1. taken = <<>> /\ directory' = directory /\ Len(taken) = 0
      BY <2>1 DEF PagingStart
    <3>2. Len(directory) = 0
      BY <1>3, <3>1 DEF Entered
    <3>3. Len(taken') <= TableCount
      BY <1>4, <1>5, <3>1
    <3> QED BY <1>3, <3>1, <3>2, <3>3
  <2>2. CASE PagingEntry
    <3>1. taken # <<>> /\ Len(taken) < pgd_count /\ directory' = Append(directory, taken[Len(taken)])
      BY <2>2 DEF PagingEntry
    <3>2. Len(taken) \in 1..Len(taken) /\ Len(directory) = Len(taken) - 1
      BY <1>3, <1>4, <3>1, TakenEmpty DEF Entered
    <3>3. taken[Len(taken)] = BOOT_PAGES + Len(taken) - 1 /\ taken[Len(taken)] \in Nat
      BY <1>3, <3>2, ElementOfSeq DEF TakenFrom
    <3>4. /\ directory' \in Seq(Nat) /\ Len(directory') = Len(directory) + 1
          /\ \A i \in 1..Len(directory) : directory'[i] = directory[i]
          /\ directory'[Len(directory) + 1] = taken[Len(taken)]
      BY <1>3, <3>1, <3>3, AppendProperties
    <3>5. \A i \in 1..Len(taken) : i \in 1..(Len(taken) - 1) \/ i = Len(taken)
      BY <1>4
    <3>6. Len(directory') = Len(taken) /\ \A i \in 1..Len(taken) : directory'[i] = BOOT_PAGES + i - 1
      <4>1. Len(directory') = Len(taken) /\ Len(directory) + 1 = Len(taken)
        BY <1>4, <3>2, <3>4
      <4>2. \A i \in 1..(Len(taken) - 1) : directory[i] = BOOT_PAGES + i - 1
        BY <1>3, <3>1, <3>2 DEF Entered
      <4>3. \A i \in 1..(Len(taken) - 1) : directory'[i] = BOOT_PAGES + i - 1
        BY <3>2, <3>4, <4>2
      <4>4. directory'[Len(taken)] = BOOT_PAGES + Len(taken) - 1
        BY <3>3, <3>4, <4>1
      <4> QED BY <3>5, <4>1, <4>3, <4>4
    <3>7. Len(taken') <= TableCount
      BY <1>4, <1>5, <3>1
    <3> QED BY <3>4, <3>6, <3>7
  <2> QED BY <1>1, <2>1, <2>2
<1>7. Len(taken') - 1 = Len(taken)
  BY <1>4, <1>5
<1>8. Entered(IF taken = <<>> THEN 0 ELSE Len(taken) - 1)'
  BY <1>5, <1>6, <1>7 DEF Entered
<1> QED BY <1>1, <1>2, <1>5, <1>6, <1>8 DEF BootShape

(* All tables are taken, and written where they were taken.                *)
LEMMA TablesShape ==
  ASSUME BootAssumption, BootShape, page_count \in Nat, WriteTables
  PROVE  BootShape'
<1>1. /\ step = "paging" /\ taken # <<>> /\ Len(taken) >= pgd_count
      /\ tables' = taken[1]..(taken[1] + pgd_count - 2)
      /\ taken' = <<>> /\ step' = "map"
      /\ UNCHANGED <<phy_mem_size, boot_bitmap, directory, map_pages, page_count, mem_map, held, reserved>>
  BY DEF WriteTables, pageVars
<1>2. UNCHANGED <<TableCount, MapCount, MapStart, Pages>>
  BY <1>1, SizesStay
<1>3. /\ taken \in Seq(Nat) /\ boot_bitmap = 0..(BOOT_PAGES + Len(taken) - 1)
      /\ TakenFrom(BOOT_PAGES) /\ directory \in Seq(Nat) /\ Len(taken) <= TableCount
      /\ Entered(Len(taken) - 1)
  BY <1>1 DEF BootShape
<1>4. /\ BOOT_PAGES \in Nat /\ pgd_count \in Nat /\ TableCount \in Nat \ {0} /\ MapCount \in Nat \ {0}
      /\ MapStart = BOOT_PAGES + TableCount /\ Len(taken) \in Nat \ {0}
  BY <1>1, <1>3, BootSizes, Quotients, TakenEmpty
<1>5. Len(taken) = TableCount /\ taken[1] = BOOT_PAGES
  <2>1. Len(taken) = TableCount
    <3>1. \A l \in Nat \ {0}, n \in Nat : n <= l /\ l <= (IF n = 0 THEN 1 ELSE n) => l = IF n = 0 THEN 1 ELSE n
      OBVIOUS
    <3>2. pgd_count <= Len(taken) /\ Len(taken) <= IF pgd_count = 0 THEN 1 ELSE pgd_count
      BY <1>1, <1>3, <1>4 DEF AtLeastOne, TableCount
    <3> QED BY <1>4, <3>1, <3>2 DEF AtLeastOne, TableCount
  <2>2. 1 \in 1..Len(taken)
    BY <1>4
  <2> QED BY <1>3, <1>4, <2>1, <2>2 DEF TakenFrom
<1>6. tables' = BOOT_PAGES..(MapStart - 2)
  BY <1>1, <1>4, <1>5 DEF AtLeastOne, TableCount
<1>7. Entered(TableCount - 1)' /\ boot_bitmap' = 0..(MapStart + 0 - 1)
  BY <1>1, <1>2, <1>3, <1>4, <1>5 DEF Entered
<1>8. taken' \in Seq(Nat) /\ TakenFrom(MapStart)' /\ Len(taken') = 0
  BY <1>1 DEF TakenFrom
<1>9. Len(taken') <= MapCount
  BY <1>4, <1>8
<1> QED BY <1>1, <1>2, <1>3, <1>6, <1>7, <1>8, <1>9 DEF BootShape

LEMMA MapShape ==
  ASSUME BootAssumption, BootShape, page_count \in Nat, TakeMapPage
  PROVE  BootShape'
<1>1. /\ step = "map" /\ AllocBootmem /\ (taken = <<>> \/ Len(taken) < mem_map_page)
      /\ UNCHANGED <<phy_mem_size, step, directory, tables, map_pages, page_count, mem_map, held, reserved>>
  BY DEF TakeMapPage, pageVars
<1>2. UNCHANGED <<TableCount, MapCount, MapStart, Pages>>
  BY <1>1, SizesStay
<1>3. /\ taken \in Seq(Nat) /\ boot_bitmap = 0..(MapStart + Len(taken) - 1)
      /\ TakenFrom(MapStart) /\ Len(taken) <= MapCount /\ MapStart \in Nat
  BY <1>1, BootSizes DEF BootShape
<1>4. /\ taken' \in Seq(Nat) /\ Len(taken') = Len(taken) + 1
      /\ boot_bitmap' = 0..(MapStart + Len(taken') - 1)
      /\ \A i \in 1..Len(taken') : taken'[i] = MapStart + i - 1
  BY <1>1, <1>3, AllocTakes
<1>5. Len(taken') <= MapCount
  <2>1. Len(taken) \in Nat /\ mem_map_page <= MapCount /\ MapCount \in Nat \ {0} /\ mem_map_page \in Nat
    BY <1>3, BootSizes, LenProperties
  <2>2. taken = <<>> => Len(taken) = 0
    OBVIOUS
  <2> QED BY <1>1, <1>4, <2>1, <2>2
<1>6. Entered(TableCount - 1)'
  BY <1>1, <1>2 DEF BootShape, Entered
<1>7. TakenFrom(MapStart)'
  BY <1>2, <1>4 DEF TakenFrom
<1> QED BY <1>1, <1>2, <1>4, <1>5, <1>6, <1>7 DEF BootShape

(* Boot ends: what it took is marked in mem_map, and the zone opens.       *)
LEMMA ZoneOpens ==
  ASSUME BootAssumption, BootShape, page_count \in Nat, InitMemMap
  PROVE  BootShape'
<1>1. /\ step = "map" /\ taken # <<>> /\ Len(taken) >= mem_map_page
      /\ map_pages' = Spanned(taken[1], mem_map_size)
      /\ boot_bitmap' = boot_bitmap \cup {NextBootPage}
      /\ reserved' = (0..(NextBootPage - 1) \cup KERNEL_START..KERNEL_PAGES) \cap Pages
      /\ step' = "running"
      /\ UNCHANGED <<phy_mem_size, taken, directory, tables, page_count, held>>
  BY DEF InitMemMap
<1>2. UNCHANGED <<TableCount, MapCount, MapStart, Pages, mem_map_size>>
  BY <1>1, SizesStay
<1>3. /\ taken \in Seq(Nat) /\ boot_bitmap = 0..(MapStart + Len(taken) - 1)
      /\ TakenFrom(MapStart) /\ Len(taken) <= MapCount /\ MapStart \in Nat
      /\ Len(taken) \in Nat \ {0} /\ MapCount \in Nat /\ mem_map_page \in Nat
  BY <1>1, BootSizes, TakenEmpty DEF BootShape
<1>4. Len(taken) = MapCount /\ taken[1] = MapStart
  <2>1. Len(taken) = MapCount
    <3>1. \A l \in Nat \ {0}, n \in Nat : n <= l /\ l <= (IF n = 0 THEN 1 ELSE n) => l = IF n = 0 THEN 1 ELSE n
      OBVIOUS
    <3>2. mem_map_page <= Len(taken) /\ Len(taken) <= IF mem_map_page = 0 THEN 1 ELSE mem_map_page
      BY <1>1, <1>3 DEF AtLeastOne, MapCount
    <3> QED BY <1>3, <3>1, <3>2 DEF AtLeastOne, MapCount
  <2>2. 1 \in 1..Len(taken) /\ MapStart + 1 - 1 = MapStart
    BY <1>3
  <2> QED BY <1>3, <2>1, <2>2 DEF TakenFrom
<1>5. NextBootPage = MapStart + MapCount /\ boot_bitmap' = 0..(MapStart + MapCount)
  <2>1. MapStart + MapCount \in Nat /\ boot_bitmap = 0..((MapStart + MapCount) - 1)
    BY <1>3, <1>4
  <2> QED BY <1>1, <2>1, NextPage
<1>6. map_pages' = Spanned(MapStart, mem_map_size)'
  BY <1>1, <1>2, <1>4 DEF Spanned
<1>7. 0..(MapStart + MapCount - 1) \cap Pages \subseteq reserved'
  BY <1>1, <1>5
<1>8. Entered(TableCount - 1)'
  BY <1>1, <1>2 DEF BootShape, Entered
<1> QED BY <1>1, <1>2, <1>5, <1>6, <1>7, <1>8 DEF BootShape

(* After that nothing of boot changes.                                     *)
LEMMA BootStays ==
  ASSUME BootShape, UNCHANGED <<bootVars, page_count, reserved>>,
         step = "running" \/ UNCHANGED pageVars
  PROVE  BootShape'
<1>1. /\ UNCHANGED <<phy_mem_size, step, boot_bitmap, taken, directory, tables, map_pages, page_count,
                     reserved>>
      /\ step # "running" => UNCHANGED <<mem_map, held>>
  BY DEF bootVars, pageVars
<1>2. UNCHANGED <<TableCount, MapCount, MapStart, Pages, mem_map_size>>
  BY <1>1, SizesStay
<1>3. /\ \A n : Entered(n)' <=> Entered(n)
      /\ \A n : TakenFrom(n)' <=> TakenFrom(n)
      /\ Spanned(MapStart, mem_map_size)' = Spanned(MapStart, mem_map_size)
  BY <1>1, <1>2 DEF Entered, TakenFrom, Spanned
<1> QED BY <1>1, <1>2, <1>3 DEF BootShape

-----------------------------------------------------------------------------
(* The pages through boot and create_task.                                 *)

LEMMA TaskPageHolder ==
  ASSUME TaskPagesAssumption, NEW k \in Tasks, NEW role \in Roles
  PROVE  <<k, role>> \in Holders /\ <<k, role>> \notin Callers /\ 0 \in Orders
BY DEF TaskPagesAssumption, Roles, Callers

(* What CreateInv says while a task is being created.                      *)
LEMMA WhileCreating ==
  ASSUME CreateInv, creating.step # "none"
  PROVE  /\ creating # Nobody /\ creating.task \in Tasks /\ step = "running"
         /\ creating \in [task : Tasks,
                          step : {"pgd", "pte", "tcb", "task_addr", "add", "fill",
                                  "err_task", "err_tcb", "err_pte", "err_pgd"}]
         /\ \A s : /\ [creating EXCEPT !.step = s] = [task |-> creating.task, step |-> s]
                   /\ [creating EXCEPT !.step = s].task = creating.task
                   /\ [creating EXCEPT !.step = s].step = s
<1>1. creating # Nobody
  BY DEF Nobody
<1>2. creating \in [task : Tasks,
                    step : {"pgd", "pte", "tcb", "task_addr", "add", "fill",
                            "err_task", "err_tcb", "err_pte", "err_pgd"}]
  BY <1>1 DEF CreateInv
<1> QED BY <1>1, <1>2 DEF CreateInv

LEMMA RoleTables ==
  /\ \A role \in Roles : TakeOrder[role] \in {"pte", "tcb", "task_addr", "add"} /\ role # "none"
  /\ Releases["err_task"] = "task_addr" /\ err_labels["err_task"] = "err_tcb"
  /\ Releases["err_tcb"] = "tcb" /\ err_labels["err_tcb"] = "err_pte"
  /\ Releases["err_pte"] = "pte" /\ err_labels["err_pte"] = "err_pgd"
  /\ Releases["err_pgd"] = "pgd" /\ err_labels["err_pgd"] = "failed"
BY DEF Roles, TakeOrder, Releases, err_labels

Labels == {"err_task", "err_tcb", "err_pte", "err_pgd"}

LEMMA StepIsPage ==
  ASSUME TaskPagesAssumption, CreateInv, TaskNext, ~InitMemMap
  PROVE  /\ [PageNext]_pageVars
         /\ step = "running" \/ UNCHANGED pageVars
<1>1. CASE Boot
  BY <1>1 DEF Boot, BootmemInit, PagingStart, PagingEntry, WriteTables, TakeMapPage
<1>2. CASE Others
  BY <1>2 DEF Others, Callers, PageNext
<1>3. ASSUME NEW role \in Roles, CreatePage(role) PROVE PageNext /\ step = "running"
  <2>1. creating.step # "none"
    BY <1>3, RoleTables DEF CreatePage, Taking
  <2>2. creating.task \in Tasks /\ step = "running"
    BY <2>1, WhileCreating
  <2>3. Page(role) \in Holders /\ 0 \in Orders
    BY <2>2, TaskPageHolder DEF Page
  <2> QED BY <1>3, <2>2, <2>3 DEF CreatePage, PageNext
<1>4. ASSUME NEW label \in Labels, GiveBack(label)
      PROVE  [PageNext]_pageVars /\ step = "running"
  <2>1. creating.step # "none" /\ Releases[label] \in Roles
    BY <1>4, RoleTables DEF GiveBack, Labels, Roles
  <2>2. creating.task \in Tasks /\ step = "running"
    BY <2>1, WhileCreating
  <2>3. Page(Releases[label]) \in Holders
    BY <2>1, <2>2, TaskPageHolder DEF Page
  <2> QED BY <1>4, <2>2, <2>3 DEF GiveBack, PageNext
<1>5. CASE (\E k \in Tasks : CreateStart(k)) \/ AddTask \/ AddTaskFails \/ FillTask
             \/ (\E id \in Pids : DelTask(id))
  BY <1>5 DEF CreateStart, AddTask, AddTaskFails, FillTask, DelTask
<1> QED BY <1>1, <1>2, <1>3, <1>4, <1>5 DEF TaskNext, Labels

(* Boot opens the zone with nothing given to anybody.                      *)
LEMMA ZoneOpensCounted ==
  ASSUME Inv, BootShape, InitMemMap
  PROVE  Inv'
<1>1. /\ step = "map" /\ reserved' \subseteq Pages
      /\ mem_map' = [p \in Pages |-> IF p \in reserved' THEN 1 ELSE 0]
      /\ zone_pages' = page_count
      /\ UNCHANGED <<page_count, held, answer>>
  BY DEF InitMemMap
<1>2. \A o \in Holders : held[o] = NOBLOCK /\ held'[o] = NOBLOCK
  BY <1>1 DEF BootShape
<1>3. Pages' = Pages /\ \A o \in Holders : Run(held[o])' = {}
  BY <1>1, <1>2 DEF Run, Pages
<1>4. page_count \in 1..(WORD - 1)
  BY DEF Inv, PageInv, PageTypeOK
<1>5. zone_pages' \in 0..page_count
  BY <1>1, <1>4
<1>6. PageTypeOK'
  BY <1>1, <1>3, <1>4, <1>5 DEF Inv, PageInv, PageTypeOK
<1>7. Counted'
  <2>1. \A p \in Pages : HoldersOf(p)' = {}
    BY <1>3 DEF HoldersOf
  <2> QED BY <1>1, <1>3, <2>1 DEF Counted
<1>8. Exclusive' /\ Single'
  BY <1>2, <1>3 DEF Exclusive, Single
<1> QED BY <1>6, <1>7, <1>8 DEF Inv, PageInv

LEMMA PageStays ==
  ASSUME [PageNext]_pageVars
  PROVE  UNCHANGED <<page_count, reserved>>
BY DEF PageNext, GetFreePages, GetFreePagesNoMemory, GetFreePagesRefused, FreePages, pageVars

LEMMA PagesAndBootStep ==
  ASSUME BootAssumption, TaskPagesAssumption, OnePage, Inv, BootShape, CreateInv,
         [TaskNext]_<<bootVars, pageVars, taskVars>>
  PROVE  Inv' /\ BootShape'
<1>1. page_count \in Nat
  BY DEF Inv, PageInv, PageTypeOK
<1>2. CASE InitMemMap
  BY <1>1, <1>2, ZoneOpens, ZoneOpensCounted
<1>3. CASE UNCHANGED <<bootVars, pageVars, taskVars>>
  <2>1. UNCHANGED <<bootVars, pageVars, page_count, reserved>>
    BY <1>3 DEF pageVars
  <2> QED BY <2>1, BootStays, InvStep
<1>4. CASE TaskNext /\ ~InitMemMap
  <2>1. [PageNext]_pageVars /\ (step = "running" \/ UNCHANGED pageVars)
    BY <1>4, StepIsPage
  <2>2. Inv'
    BY <2>1, InvStep
  <2>3. CASE Boot
    <3>1. BootmemInit \/ PagingStart \/ PagingEntry \/ WriteTables \/ TakeMapPage
      BY <1>4, <2>3 DEF Boot
    <3> QED BY <1>1, <2>2, <3>1, BootmemShape, PagingShape, TablesShape, MapShape
  <2>4. CASE ~Boot
    <3>1. UNCHANGED bootVars
      BY <1>4, <2>4 DEF TaskNext, Others, CreateStart, CreatePage, GiveBack, AddTask, AddTaskFails,
                       FillTask, DelTask
    <3> QED BY <2>1, <2>2, <3>1, BootStays, PageStays
  <2> QED BY <2>3, <2>4
<1> QED BY <1>2, <1>3, <1>4

-----------------------------------------------------------------------------
(* create_task and del_task.                                               *)
KeepInv == CreateInv /\ TableInv /\ FailedGivesBack

(* What a task's pages are after a call of the page allocator.             *)
LEMMA HeldAfter ==
  ASSUME Inv, NEW o \in Holders,
         \/ FreePages(o)
         \/ \E order \in Orders : \/ GetFreePages(o, order) \/ GetFreePagesNoMemory(o, order)
                                  \/ GetFreePagesRefused(o, order)
  PROVE  /\ \A h \in Holders : h # o => held'[h] = held[h]
         /\ FreePages(o) => held'[o] = NOBLOCK
<1>1. held \in [Holders -> [first : Pages, order : Orders] \cup {NOBLOCK}]
  BY DEF Inv, PageInv, PageTypeOK
<1>2. held' = held \/ \E x : held' = [held EXCEPT ![o] = x]
  BY DEF FreePages, GetFreePages, GetFreePagesNoMemory, GetFreePagesRefused
<1>3. FreePages(o) => held' = [held EXCEPT ![o] = NOBLOCK]
  BY DEF FreePages
<1> QED BY <1>1, <1>2, <1>3

LEMMA TasksStay ==
  ASSUME KeepInv, TaskPagesAssumption, UNCHANGED taskVars, step' = step \/ creating = Nobody,
         \A k \in Tasks, role \in Roles : held'[<<k, role>>] = held[<<k, role>>]
  PROVE  KeepInv'
<1>1. /\ UNCHANGED <<task_table, task_count, creating, filled, deleted, InTable>>
  BY DEF taskVars, InTable
<1>2. FailedGivesBack'
  BY <1>1 DEF KeepInv, FailedGivesBack
<1>3. TableInv'
  BY <1>1 DEF KeepInv, TableInv
<1>4. CreateInv'
  <2>1. CASE creating = Nobody
    BY <1>1, <2>1 DEF CreateInv, Nobody
  <2>2. CASE creating # Nobody
    <3>1. creating.task \in Tasks
      BY <2>2 DEF KeepInv, CreateInv
    <3>2. \A role \in Roles : Without(role)' <=> Without(role)
      BY <1>1, <3>1 DEF Without, Page
    <3> QED BY <1>1, <2>2, <3>2 DEF KeepInv, CreateInv, Roles
  <2> QED BY <2>1, <2>2
<1> QED BY <1>2, <1>3, <1>4 DEF KeepInv

LEMMA TasksStart ==
  ASSUME KeepInv, NobodyAssumption, NEW k \in Tasks, CreateStart(k)
  PROVE  KeepInv'
<1>1. /\ step' = "running" /\ creating = Nobody /\ k \notin filled
      /\ creating' = [task |-> k, step |-> "pgd"]
      /\ UNCHANGED <<held, task_table, task_count, filled, deleted, InTable>>
  BY DEF CreateStart, bootVars, pageVars, InTable
<1>2. creating.task = NOBLOCK /\ creating.step = "none"
  BY <1>1 DEF Nobody
<1>3. CreateInv'
  BY <1>1 DEF CreateInv
<1>4. TableInv'
  BY <1>1, <1>2 DEF KeepInv, TableInv
<1>5. FailedGivesBack'
  BY <1>1, <1>2, NobodyAssumption DEF NobodyAssumption, KeepInv, FailedGivesBack
<1> QED BY <1>3, <1>4, <1>5 DEF KeepInv

LEMMA TasksPage ==
  ASSUME KeepInv, Inv, TaskPagesAssumption, NEW role \in Roles, CreatePage(role)
  PROVE  KeepInv'
<1>1. /\ creating.step = role /\ creating' = [creating EXCEPT !.step = TakeOrder[role]]
      /\ UNCHANGED <<step, task_table, task_count, filled, deleted, InTable>>
      /\ GetFreePages(Page(role), 0) \/ GetFreePagesNoMemory(Page(role), 0)
  BY DEF CreatePage, Taking, bootVars, InTable
<1>2. /\ creating.step # "none" /\ TakeOrder[role] \in {"pte", "tcb", "task_addr", "add"}
      /\ role \notin Labels /\ role # "fill"
  BY <1>1, RoleTables DEF Roles, Labels
<1>3. /\ creating.task \in Tasks /\ step = "running"
      /\ creating' = [task |-> creating.task, step |-> TakeOrder[role]]
      /\ creating'.task = creating.task /\ creating'.step = TakeOrder[role]
  BY <1>1, <1>2, WhileCreating DEF KeepInv
<1>4. Page(role) \in Holders /\ 0 \in Orders
  BY <1>3, TaskPageHolder DEF Page
<1>5. \A h \in Holders : h # Page(role) => held'[h] = held[h]
  BY <1>1, <1>4, HeldAfter
<1>6. CreateInv'
  BY <1>1, <1>2, <1>3 DEF CreateInv
<1>7. TableInv'
  BY <1>1, <1>2, <1>3 DEF KeepInv, TableInv
<1>8. FailedGivesBack'
  <2> SUFFICES ASSUME NEW k \in Tasks, NEW r \in Roles, held'[<<k, r>>] # NOBLOCK
               PROVE  k \in InTable \cup deleted \cup {creating.task}
    BY <1>1, <1>3 DEF FailedGivesBack
  <2>1. CASE k = creating.task
    BY <2>1
  <2>2. CASE k # creating.task
    <3>1. <<k, r>> # Page(role) /\ <<k, r>> \in Holders
      BY <2>2, TaskPageHolder DEF Page
    <3> QED BY <1>5, <3>1 DEF KeepInv, FailedGivesBack
  <2> QED BY <2>1, <2>2
<1> QED BY <1>6, <1>7, <1>8 DEF KeepInv

LEMMA TasksAdd ==
  ASSUME KeepInv, NobodyAssumption, AddTask
  PROVE  KeepInv'
<1>1. /\ creating.step = "add" /\ creating' = [creating EXCEPT !.step = "fill"]
      /\ UNCHANGED <<step, held, task_count, filled, deleted>>
  BY DEF AddTask, Taking, bootVars, pageVars
<1>2. PICK l \in Pids : task_table[l] = NOBLOCK /\ task_table' = [task_table EXCEPT ![l] = creating.task]
  BY DEF AddTask, Empty
<1>3. /\ creating.task \in Tasks /\ step = "running"
      /\ creating' = [task |-> creating.task, step |-> "fill"]
      /\ creating'.task = creating.task /\ creating'.step = "fill"
  BY <1>1, WhileCreating DEF KeepInv
<1>4. task_table \in [Pids -> Tasks \cup {NOBLOCK}]
  BY DEF KeepInv, TableInv
<1>5. /\ task_table' \in [Pids -> Tasks \cup {NOBLOCK}] /\ task_table'[l] = creating.task
      /\ \A m \in Pids : m # l => task_table'[m] = task_table[m]
  BY <1>2, <1>3, <1>4
<1>6. creating.task # NOBLOCK
  BY <1>3 DEF NobodyAssumption
<1>7. InTable' = InTable \cup {creating.task}
  <2>1. \A x : x \in InTable' <=> x # NOBLOCK /\ \E m \in Pids : task_table'[m] = x
    BY DEF InTable
  <2>2. \A x : x \in InTable <=> x # NOBLOCK /\ \E m \in Pids : task_table[m] = x
    BY DEF InTable
  <2>3. \A x : (\E m \in Pids : task_table'[m] = x)
               => x = creating.task \/ \E m \in Pids : task_table[m] = x
    BY <1>5
  <2>4. \A x : x # NOBLOCK /\ (\E m \in Pids : task_table[m] = x) => \E m \in Pids : task_table'[m] = x
    BY <1>2, <1>5
  <2>5. creating.task \in InTable'
    BY <1>5, <1>6, <2>1
  <2> QED BY <2>1, <2>2, <2>3, <2>4, <2>5
<1>8. /\ creating.task \notin filled
      /\ InTable \cup deleted = filled
      /\ IsFiniteSet(filled) /\ task_count = Cardinality(filled)
      /\ task_count \in Nat /\ filled \subseteq Tasks /\ deleted \subseteq Tasks
  BY <1>1 DEF KeepInv, TableInv
<1>9. ASSUME NEW i \in Pids, NEW m \in Pids, i # m, task_table'[i] # NOBLOCK
      PROVE  task_table'[i] # task_table'[m]
  <2>1. \A p \in Pids : task_table[p] # creating.task
    BY <1>6, <1>8 DEF InTable
  <2>2. CASE i = l
    BY <1>5, <1>9, <2>1, <2>2
  <2>3. CASE m = l
    BY <1>5, <1>9, <2>1, <2>3
  <2>4. CASE i # l /\ m # l
    BY <1>5, <1>9, <2>4 DEF KeepInv, TableInv
  <2> QED BY <2>2, <2>3, <2>4
<1>10. TableInv'
  BY <1>1, <1>3, <1>5, <1>7, <1>8, <1>9 DEF TableInv
<1>11. CreateInv'
  BY <1>1, <1>3 DEF CreateInv
<1>12. FailedGivesBack'
  BY <1>1, <1>3, <1>7 DEF KeepInv, FailedGivesBack
<1> QED BY <1>10, <1>11, <1>12 DEF KeepInv

LEMMA TasksFull ==
  ASSUME KeepInv, AddTaskFails
  PROVE  KeepInv'
<1>1. /\ creating.step = "add" /\ creating' = [creating EXCEPT !.step = "err_task"]
      /\ UNCHANGED <<step, held, task_table, task_count, filled, deleted, InTable>>
  BY DEF AddTaskFails, Taking, bootVars, pageVars, InTable
<1>2. /\ creating.task \in Tasks /\ step = "running"
      /\ creating' = [task |-> creating.task, step |-> "err_task"]
      /\ creating'.task = creating.task /\ creating'.step = "err_task"
  BY <1>1, WhileCreating DEF KeepInv
<1>3. CreateInv'
  BY <1>1, <1>2 DEF CreateInv
<1>4. TableInv' /\ FailedGivesBack'
  BY <1>1, <1>2 DEF KeepInv, TableInv, FailedGivesBack
<1> QED BY <1>3, <1>4 DEF KeepInv

LEMMA TasksFill ==
  ASSUME KeepInv, NobodyAssumption, FillTask
  PROVE  KeepInv'
<1>1. /\ creating.step = "fill" /\ creating' = Nobody
      /\ task_count' = task_count + 1 /\ filled' = filled \cup {creating.task}
      /\ UNCHANGED <<step, held, task_table, deleted, InTable>>
  BY DEF FillTask, Taking, bootVars, pageVars, InTable
<1>2. creating.task \in Tasks /\ creating.task # NOBLOCK
  BY <1>1, WhileCreating DEF KeepInv, NobodyAssumption
<1>3. creating'.task = NOBLOCK /\ creating'.step = "none"
  BY <1>1 DEF Nobody
<1>4. /\ creating.task \notin filled /\ creating.task \in InTable
      /\ InTable \cup deleted = filled \cup {creating.task}
      /\ IsFiniteSet(filled) /\ task_count = Cardinality(filled)
      /\ task_count \in Nat /\ filled \subseteq Tasks /\ deleted \subseteq Tasks
  BY <1>1 DEF KeepInv, TableInv
<1>5. IsFiniteSet(filled') /\ task_count' = Cardinality(filled')
  BY <1>1, <1>4, FS_AddElement
<1>6. TableInv'
  <2>1. NOBLOCK \notin filled'
    BY <1>1, <1>2, <1>4 DEF NobodyAssumption
  <2>2. /\ task_table' \in [Pids -> Tasks \cup {NOBLOCK}] /\ task_count' \in Nat
        /\ filled' \subseteq Tasks /\ deleted' \subseteq Tasks
    BY <1>1, <1>2, <1>4 DEF KeepInv, TableInv
  <2>3. \A l, m \in Pids : l # m /\ task_table'[l] # NOBLOCK => task_table'[l] # task_table'[m]
    BY <1>1 DEF KeepInv, TableInv
  <2>4. InTable' \cup deleted' = filled'
    BY <1>1, <1>4
  <2> QED BY <1>3, <1>5, <2>1, <2>2, <2>3, <2>4 DEF TableInv
<1>7. CreateInv'
  BY <1>1, <1>3 DEF CreateInv
<1>8. FailedGivesBack'
  BY <1>1, <1>4 DEF KeepInv, FailedGivesBack
<1> QED BY <1>6, <1>7, <1>8 DEF KeepInv

(* A label gives its page back and falls through to the next; behind the   *)
(* last the task has no page left.                                         *)
LEMMA TasksGiveBack ==
  ASSUME KeepInv, Inv, TaskPagesAssumption, NobodyAssumption, NEW label \in Labels, GiveBack(label)
  PROVE  KeepInv'
<1>1. /\ creating.step = label
      /\ FreePages(Page(Releases[label])) \/ (held[Page(Releases[label])] = NOBLOCK /\ held' = held)
      /\ creating' = IF err_labels[label] = "failed" THEN Nobody
                     ELSE [creating EXCEPT !.step = err_labels[label]]
      /\ UNCHANGED <<step, task_table, task_count, filled, deleted, InTable>>
  BY DEF GiveBack, bootVars, pageVars, InTable
<1>2. creating.step # "none" /\ creating.step # "fill" /\ Releases[label] \in Roles
  BY <1>1, RoleTables DEF Labels, Roles
<1>3. creating.task \in Tasks /\ step = "running"
  BY <1>2, WhileCreating DEF KeepInv
<1>4. Page(Releases[label]) \in Holders
  BY <1>2, <1>3, TaskPageHolder DEF Page
<1>5. /\ \A h \in Holders : h # Page(Releases[label]) => held'[h] = held[h]
      /\ held'[Page(Releases[label])] = NOBLOCK
  BY <1>1, <1>4, HeldAfter
<1>6. /\ held'[<<creating.task, Releases[label]>>] = NOBLOCK
      /\ \A r \in Roles : r # Releases[label] => held'[<<creating.task, r>>] = held[<<creating.task, r>>]
      /\ \A k \in Tasks, r \in Roles : k # creating.task => held'[<<k, r>>] = held[<<k, r>>]
  BY <1>3, <1>5, TaskPageHolder DEF Page
<1>7. /\ creating.task \notin filled /\ InTable \cup deleted = filled
  BY <1>2 DEF KeepInv, TableInv
<1>8. ASSUME label # "err_pgd"
      PROVE  KeepInv'
  <2>1. err_labels[label] \in {"err_tcb", "err_pte", "err_pgd"}
    BY <1>8, RoleTables DEF Labels
  <2>2. /\ creating' = [task |-> creating.task, step |-> err_labels[label]]
        /\ creating'.task = creating.task /\ creating'.step = err_labels[label]
    BY <1>1, <1>2, <2>1, WhileCreating DEF KeepInv
  <2>3. TableInv'
    BY <1>1, <1>2, <2>1, <2>2 DEF KeepInv, TableInv
  <2>4. FailedGivesBack'
    BY <1>1, <1>6, <2>2 DEF KeepInv, FailedGivesBack
  <2>5. \A r : Without(r)' <=> held'[<<creating.task, r>>] = NOBLOCK
    BY <2>2 DEF Without, Page
  <2>6. \A r : Without(r) <=> held[<<creating.task, r>>] = NOBLOCK
    BY DEF Without, Page
  <2>7. /\ err_labels[label] = "err_tcb" => Without("task_addr")'
        /\ err_labels[label] = "err_pte" => Without("task_addr")' /\ Without("tcb")'
        /\ err_labels[label] = "err_pgd" => Without("task_addr")' /\ Without("tcb")' /\ Without("pte")'
    <3>1. CASE label = "err_task"
      BY <1>6, <2>5, <3>1, RoleTables
    <3>2. CASE label = "err_tcb"
      BY <1>1, <1>6, <2>5, <2>6, <3>2, RoleTables DEF KeepInv, CreateInv, Roles
    <3>3. CASE label = "err_pte"
      BY <1>1, <1>6, <2>5, <2>6, <3>3, RoleTables DEF KeepInv, CreateInv, Roles
    <3> QED BY <1>8, <3>1, <3>2, <3>3 DEF Labels
  <2>8. CreateInv'
    BY <1>1, <1>3, <2>1, <2>2, <2>7 DEF CreateInv
  <2> QED BY <2>3, <2>4, <2>8 DEF KeepInv
<1>9. ASSUME label = "err_pgd"
      PROVE  KeepInv'
  <2>1. creating' = Nobody /\ Releases[label] = "pgd"
    BY <1>1, <1>9, RoleTables
  <2>2. creating'.task = NOBLOCK /\ creating'.step = "none"
    BY <2>1 DEF Nobody
  <2>3. \A r \in Roles : held'[<<creating.task, r>>] = NOBLOCK
    BY <1>1, <1>6, <1>9, <2>1 DEF KeepInv, CreateInv, Roles, Without, Page
  <2>4. FailedGivesBack'
    BY <1>1, <1>6, <2>3 DEF KeepInv, FailedGivesBack
  <2>5. NOBLOCK \notin filled
    BY DEF KeepInv, TableInv, NobodyAssumption
  <2>6. TableInv'
    BY <1>1, <1>2, <2>2, <2>5 DEF KeepInv, TableInv
  <2>7. CreateInv'
    BY <2>1, <2>2 DEF CreateInv
  <2> QED BY <2>4, <2>6, <2>7 DEF KeepInv
<1> QED BY <1>8, <1>9

LEMMA TasksDelete ==
  ASSUME KeepInv, NobodyAssumption, NEW id \in Pids, DelTask(id)
  PROVE  KeepInv'
<1>1. /\ creating = Nobody /\ task_table[id] # NOBLOCK
      /\ task_table' = [task_table EXCEPT ![id] = NOBLOCK]
      /\ deleted' = deleted \cup {task_table[id]}
      /\ UNCHANGED <<step, held, task_count, creating, filled>>
  BY DEF DelTask, bootVars, pageVars
<1>2. creating.task = NOBLOCK /\ creating.step = "none"
  BY <1>1 DEF Nobody
<1>3. task_table \in [Pids -> Tasks \cup {NOBLOCK}]
  BY DEF KeepInv, TableInv
<1>4. /\ task_table' \in [Pids -> Tasks \cup {NOBLOCK}] /\ task_table'[id] = NOBLOCK
      /\ \A m \in Pids : m # id => task_table'[m] = task_table[m]
      /\ task_table[id] \in Tasks
  BY <1>1, <1>3
<1>5. InTable' \cup deleted' = InTable \cup deleted
  <2>1. \A x : x \in InTable' <=> x # NOBLOCK /\ \E m \in Pids : task_table'[m] = x
    BY DEF InTable
  <2>2. \A x : x \in InTable <=> x # NOBLOCK /\ \E m \in Pids : task_table[m] = x
    BY DEF InTable
  <2>3. \A x : x \in InTable' => x \in InTable
    BY <1>4, <2>1, <2>2
  <2>4. \A x : x \in InTable => x \in InTable' \/ x = task_table[id]
    BY <1>4, <2>1, <2>2
  <2>5. task_table[id] \in InTable
    BY <1>1, <2>2
  <2> QED BY <1>1, <2>3, <2>4, <2>5
<1>6. \A l, m \in Pids : l # m /\ task_table'[l] # NOBLOCK => task_table'[l] # task_table'[m]
  BY <1>4 DEF KeepInv, TableInv
<1>7. TableInv'
  BY <1>1, <1>2, <1>4, <1>5, <1>6 DEF KeepInv, TableInv
<1>8. CreateInv'
  BY <1>1, <1>2 DEF KeepInv, CreateInv
<1>9. FailedGivesBack'
  BY <1>1, <1>5 DEF KeepInv, FailedGivesBack
<1> QED BY <1>7, <1>8, <1>9 DEF KeepInv

LEMMA TaskTypes ==
  ASSUME BootAssumption, TaskIInv
  PROVE  TaskTypeOK
<1>1. PageTypeOK /\ page_count \in Nat
  BY DEF TaskIInv, Inv, PageInv, PageTypeOK
<1>2. BootShape
  BY DEF TaskIInv
<1>3. MapStart \in Nat /\ BOOT_PAGES \in Nat
  BY <1>1, <1>2, BootSizes, Quotients
<1>4. tables \subseteq Nat
  <2>1. tables = {} \/ tables = BOOT_PAGES..(MapStart - 2)
    BY <1>2 DEF BootShape
  <2> QED BY <1>3, <2>1
<1>5. map_pages \subseteq Nat
  <2>1. map_pages = {} \/ map_pages = MapStart..(MapStart + (mem_map_size - 1) \div PAGE_SIZE)
    BY <1>2 DEF BootShape, Spanned
  <2>2. (mem_map_size - 1) \div PAGE_SIZE \in Int
    <3>1. mem_map_size \in Nat /\ PAGE_SIZE \in Nat \ {0}
      BY <1>1, <1>2, BootSizes, Quotients
    <3>2. \A m \in Int, d \in Nat \ {0} : m \div d \in Int
      OBVIOUS
    <3> QED BY <3>1, <3>2
  <2> QED BY <1>3, <2>1, <2>2
<1>6. boot_bitmap \subseteq Nat
  <2>1. MapStart + MapCount \in Int /\ Len(taken) \in Int
    <3>1. taken \in Seq(Nat)
      BY <1>2 DEF BootShape
    <3>2. MapCount \in Nat
      BY <1>1, <1>2, BootSizes
    <3> QED BY <1>3, <3>1, <3>2, LenProperties
  <2>2. boot_bitmap = {} \/ \E n \in Int : boot_bitmap = 0..n
    BY <1>2, <1>3, <2>1 DEF BootShape
  <2> QED BY <2>2
<1>7. BootTypeOK
  BY <1>1, <1>2, <1>4, <1>5, <1>6 DEF BootShape, BootTypeOK
<1> QED BY <1>7 DEF TaskIInv, TableInv, TaskTypeOK

(* The memory of the running kernel, boot and create_task included.        *)
THEOREM MemoryInvariant == ASSUME OnePage PROVE TaskSpec => []TaskIInv
<1> USE BootAssumption, TaskPagesAssumption, NobodyAssumption
<1>1. TaskInit => TaskIInv
  <2> SUFFICES ASSUME TaskInit PROVE TaskIInv
    OBVIOUS
  <2>1. /\ phy_mem_size \in MemorySizes /\ page_count = (phy_mem_size * ONE_MB) \div PAGE_SIZE
        /\ mem_map = [p \in Pages |-> 0] /\ zone_pages = 0 /\ reserved = {}
        /\ held = [o \in Holders |-> NOBLOCK] /\ answer = [o \in Holders |-> "none"]
        /\ step = "bootmem" /\ boot_bitmap = {} /\ taken = <<>>
        /\ directory = <<>> /\ tables = {} /\ map_pages = {}
    BY DEF TaskInit, BootInit
  <2>2. page_count \in 1..(WORD - 1)
    BY <2>1 DEF BootAssumption
  <2>3. \A o \in Holders : held[o] = NOBLOCK /\ Run(held[o]) = {}
    BY <2>1 DEF Run
  <2>4. PageTypeOK
    BY <2>1, <2>2 DEF PageTypeOK
  <2>5. Counted
    BY <2>1, <2>3 DEF Counted, HoldersOf
  <2>6. Exclusive /\ Single
    BY <2>3 DEF Exclusive, Single
  <2>7. Inv
    BY <2>4, <2>5, <2>6 DEF Inv, PageInv
  <2>8. BootShape
    BY <2>1, <2>3 DEF BootShape
  <2>9. /\ task_table = [l \in Pids |-> NOBLOCK] /\ task_count = 0
        /\ creating = Nobody /\ filled = {} /\ deleted = {}
    BY DEF TaskInit
  <2>10. creating.task = NOBLOCK /\ creating.step = "none"
    BY <2>9 DEF Nobody
  <2>11. CreateInv
    BY <2>9, <2>10 DEF CreateInv
  <2>12. TableInv
    <3>1. InTable = {}
      BY <2>9 DEF InTable
    <3> QED BY <2>9, <2>10, <3>1, FS_EmptySet DEF TableInv
  <2>13. FailedGivesBack
    BY <2>3, TaskPageHolder DEF FailedGivesBack
  <2> QED BY <2>7, <2>8, <2>11, <2>12, <2>13 DEF TaskIInv
<1>2. TaskIInv /\ [TaskNext]_<<bootVars, pageVars, taskVars>> => TaskIInv'
  <2> SUFFICES ASSUME TaskIInv, [TaskNext]_<<bootVars, pageVars, taskVars>> PROVE TaskIInv'
    OBVIOUS
  <2>1. Inv /\ BootShape /\ CreateInv /\ KeepInv
    BY DEF TaskIInv, KeepInv
  <2>2. Inv' /\ BootShape'
    BY <2>1, PagesAndBootStep
  <2>3. KeepInv'
    <3>1. ASSUME UNCHANGED <<taskVars, held>>, step' = step \/ creating = Nobody PROVE KeepInv'
      BY <2>1, <3>1, TasksStay
    <3>2. CASE UNCHANGED <<bootVars, pageVars, taskVars>>
      BY <3>1, <3>2 DEF bootVars, pageVars
    <3>3. CASE Boot
      <4>1. step # "running" /\ UNCHANGED <<taskVars, held>>
        BY <3>3 DEF Boot, BootmemInit, PagingStart, PagingEntry, WriteTables, TakeMapPage, InitMemMap,
                    pageVars
      <4>2. creating = Nobody
        BY <2>1, <4>1 DEF CreateInv
      <4> QED BY <3>1, <4>1, <4>2
    <3>4. CASE Others
      <4>1. PICK o \in Callers :
              \/ FreePages(o)
              \/ \E order \in Orders : \/ GetFreePages(o, order) \/ GetFreePagesNoMemory(o, order)
                                       \/ GetFreePagesRefused(o, order)
        BY <3>4 DEF Others
      <4>2. \A h \in Holders : h # o => held'[h] = held[h]
        BY <2>1, <4>1, HeldAfter DEF Callers
      <4>3. \A k \in Tasks, role \in Roles : held'[<<k, role>>] = held[<<k, role>>]
        BY <4>2, TaskPageHolder
      <4>4. UNCHANGED taskVars /\ creating = Nobody
        BY <3>4 DEF Others
      <4> QED BY <2>1, <4>3, <4>4, TasksStay
    <3>5. CASE TaskNext /\ ~Boot /\ ~Others
      BY <2>1, <3>5, TasksStart, TasksPage, TasksAdd, TasksFull, TasksFill, TasksGiveBack, TasksDelete
      DEF TaskNext, Labels
    <3> QED BY <3>2, <3>3, <3>4, <3>5
  <2> QED BY <2>2, <2>3 DEF TaskIInv, KeepInv
<1> QED BY <1>1, <1>2, PTL DEF TaskSpec

(* Every table of the kernel keeps its type, through boot and after.       *)
THEOREM MemoryTypes == ASSUME OnePage PROVE TaskSpec => []TaskTypeOK
<1>1. TaskIInv => TaskTypeOK
  BY BootAssumption, TaskTypes
<1> QED BY <1>1, MemoryInvariant, PTL

(* While the kernel boots, creates and deletes tasks, mem_map says of      *)
(* every page whether somebody holds it ...                                *)
THEOREM TaskPagesCounted == ASSUME OnePage PROVE TaskSpec => []Counted
<1>1. TaskIInv => Counted
  BY DEF TaskIInv, Inv, PageInv
<1> QED BY <1>1, MemoryInvariant, PTL

(* ... and no two tasks, and no task and boot, share a page.               *)
THEOREM TaskPagesExclusive == ASSUME OnePage PROVE TaskSpec => []Exclusive
<1>1. TaskIInv => Exclusive
  BY DEF TaskIInv, Inv, PageInv
<1> QED BY <1>1, MemoryInvariant, PTL

(* process.c:257: create_task gives every page back when it fails.         *)
THEOREM FailuresGiveBack == ASSUME OnePage PROVE TaskSpec => []FailedGivesBack
<1>1. TaskIInv => FailedGivesBack
  BY DEF TaskIInv
<1> QED BY <1>1, MemoryInvariant, PTL

(* process.c:249: task_count counts the tasks created, each in the table   *)
(* once until it is deleted.                                               *)
THEOREM TasksCounted == ASSUME OnePage PROVE TaskSpec => []TaskCountExact
<1>1. TaskIInv => TaskCountExact
  <2> SUFFICES ASSUME TaskIInv PROVE TaskCountExact
    OBVIOUS
  <2>1. /\ InTable \cup deleted = IF creating.step = "fill" THEN filled \cup {creating.task} ELSE filled
        /\ creating.task \notin filled
    BY DEF TaskIInv, TableInv
  <2>2. filled = (InTable \cup deleted) \ {k \in {creating.task} : k \notin filled}
    BY <2>1
  <2> QED BY <2>2 DEF TaskIInv, TableInv, TaskCountExact
<1> QED BY <1>1, MemoryInvariant, PTL

-----------------------------------------------------------------------------
(* What boot leaves.                                                       *)

(* page.c:162: the directory's entries are the tables that are written.    *)
LEMMA TablesAreEntered == ASSUME TaskIInv PROVE TablesEntered
<1> SUFFICES ASSUME step \in {"map", "running"}
             PROVE  {directory[i] : i \in 1..Len(directory)} = tables
  BY DEF TablesEntered
<1>1. BootShape /\ page_count \in Nat
  BY DEF TaskIInv, Inv, PageInv, PageTypeOK
<1>2. /\ TableCount \in Nat \ {0} /\ BOOT_PAGES \in Nat /\ MapStart = BOOT_PAGES + TableCount
  BY <1>1, BootAssumption, BootSizes, Quotients
<1>3. /\ Len(directory) = TableCount - 1 /\ tables = BOOT_PAGES..(MapStart - 2)
      /\ \A i \in 1..(TableCount - 1) : directory[i] = BOOT_PAGES + i - 1
  BY <1>1 DEF BootShape, Entered
<1>4. {directory[i] : i \in 1..Len(directory)} = {BOOT_PAGES + i - 1 : i \in 1..(TableCount - 1)}
  BY <1>3
<1>5. {BOOT_PAGES + i - 1 : i \in 1..(TableCount - 1)} = BOOT_PAGES..(BOOT_PAGES + TableCount - 2)
  <2>1. \A p \in BOOT_PAGES..(BOOT_PAGES + TableCount - 2) :
          p - BOOT_PAGES + 1 \in 1..(TableCount - 1) /\ p = BOOT_PAGES + (p - BOOT_PAGES + 1) - 1
    BY <1>2
  <2>2. \A i \in 1..(TableCount - 1) :
          BOOT_PAGES + i - 1 \in BOOT_PAGES..(BOOT_PAGES + TableCount - 2)
    BY <1>2
  <2> QED BY <2>1, <2>2
<1>6. MapStart - 2 = BOOT_PAGES + TableCount - 2
  BY <1>2
<1> QED BY <1>3, <1>4, <1>5, <1>6

(* When paging is switched on every table boot has written is entered.     *)
THEOREM EveryTableEntered == ASSUME OnePage PROVE TaskSpec => []TablesEntered
<1>1. TaskIInv => TablesEntered
  BY TablesAreEntered
<1> QED BY <1>1, MemoryInvariant, PTL

(* The pages of mem_map but the one its rounded-down size leaves out are   *)
(* pages init_mem_map has taken.                                           *)
LEMMA WholePages ==
  ASSUME NEW bytes \in Nat \ {0}, NEW size \in Nat \ {0}
  PROVE  /\ (bytes - 1) \div size <= bytes \div size
         /\ bytes % size = 0 => (bytes - 1) \div size < bytes \div size
<1> DEFINE q == bytes \div size
           r == bytes % size
           u == (bytes - 1) \div size
           v == (bytes - 1) % size
<1>1. bytes = size * q + r /\ r \in 0..(size - 1) /\ q \in Nat
  OBVIOUS
<1>2. bytes - 1 = size * u + v /\ v \in 0..(size - 1) /\ u \in Nat
  <2>1. bytes - 1 \in Nat
    OBVIOUS
  <2> QED BY <2>1
<1> HIDE DEF q, r, u, v
<1>3. \A a \in Int, b \in Int : a >= b => size * a >= size * b
  OBVIOUS
<1>4. ASSUME u > q PROVE FALSE
  <2>1. size * u >= size * (q + 1) /\ size * (q + 1) = size * q + size
    BY <1>1, <1>2, <1>3, <1>4
  <2> QED BY <1>1, <1>2, <2>1
<1>5. ASSUME r = 0, u >= q PROVE FALSE
  <2>1. size * u >= size * q
    BY <1>1, <1>2, <1>3, <1>5
  <2> QED BY <1>1, <1>2, <1>5, <2>1
<1>6. u <= q /\ (r = 0 => u < q)
  BY <1>1, <1>2, <1>4, <1>5
<1> QED BY <1>6 DEF q, r, u

(* The bitmap is large enough for what boot takes.                         *)
BitmapSuffices ==
  \A mb \in MemorySizes :
    LET map_bytes == ((mb * ONE_MB) \div PAGE_SIZE) * MEM_MAP_T
    IN  BOOT_PAGES + AtLeastOne(mb \div TABLE_MB) + AtLeastOne(map_bytes \div PAGE_SIZE)
          < 8 * BOOT_BITMAP_SIZE

(* page.c:23: the page tables and the whole pages of mem_map are never     *)
(* handed out and do not overlap, on machines the bitmap suffices for.     *)
THEOREM BootMemoryIsKept ==
  ASSUME OnePage, BitmapSuffices PROVE TaskSpec => []BootMemoryKept
<1>1. TaskIInv => BootMemoryKept
  <2> SUFFICES ASSUME TaskIInv PROVE BootMemoryKept
    OBVIOUS
  <2>1. BootShape /\ page_count \in Nat \ {0}
    BY DEF TaskIInv, Inv, PageInv, PageTypeOK
  <2>2. /\ TableCount \in Nat \ {0} /\ BOOT_PAGES \in Nat \ {0} /\ MapStart = BOOT_PAGES + TableCount
        /\ MapCount \in Nat \ {0} /\ mem_map_page \in Nat /\ mem_map_page <= MapCount
        /\ PAGE_SIZE \in Nat \ {0}
    BY <2>1, BootAssumption, BootSizes, Quotients
  <2>3. mem_map_size \in Nat \ {0}
    <3>1. MEM_MAP_T \in Nat \ {0}
      BY BootAssumption, Quotients
    <3>2. \A m \in Nat \ {0}, n \in Nat \ {0} : m * n \in Nat \ {0}
      OBVIOUS
    <3> QED BY <2>1, <3>1, <3>2 DEF mem_map_size
  <2>4. tables \subseteq BOOT_PAGES..(MapStart - 2)
    BY <2>1 DEF BootShape
  <2>5. map_pages = {} \/ map_pages = MapStart..(MapStart + (mem_map_size - 1) \div PAGE_SIZE)
    BY <2>1 DEF BootShape, Spanned
  <2>6. (mem_map_size - 1) \div PAGE_SIZE \in Nat
    <3>1. mem_map_size - 1 \in Nat /\ \A m \in Nat, d \in Nat \ {0} : m \div d \in Nat
      BY <2>3
    <3> QED BY <2>2, <3>1
  <2>7. map_pages \ Tail_page \subseteq MapStart..(MapStart + MapCount - 1)
    <3> DEFINE u == (mem_map_size - 1) \div PAGE_SIZE
    <3>1. /\ u <= mem_map_page
          /\ mem_map_size % PAGE_SIZE = 0 => u < mem_map_page
      BY <2>2, <2>3, WholePages DEF mem_map_page
    <3>2. u \in Nat
      BY <2>6
    <3> HIDE DEF u
    <3> SUFFICES ASSUME NEW p \in map_pages \ Tail_page PROVE p \in MapStart..(MapStart + MapCount - 1)
      OBVIOUS
    <3>3. map_pages = MapStart..(MapStart + u) /\ p \in MapStart..(MapStart + u)
      BY <2>5 DEF u
    <3>4. CASE mem_map_size % PAGE_SIZE = 0
      BY <2>2, <3>1, <3>2, <3>3, <3>4
    <3>5. CASE mem_map_size % PAGE_SIZE # 0
      <4>1. p + 1 \in MapStart..(MapStart + u)
        BY <3>3, <3>5 DEF Tail_page
      <4> QED BY <2>2, <3>1, <3>2, <3>3, <4>1
    <3> QED BY <3>4, <3>5
  <2>8. step = "running" => \A o \in Holders : Run(held[o]) \cap Boot_pages = {}
    <3> SUFFICES ASSUME step = "running", NEW o \in Holders, NEW p \in Run(held[o])
                 PROVE  p \notin Boot_pages
      OBVIOUS
    <3>1. p \in Pages /\ p \notin reserved
      BY DEF TaskIInv, Inv, PageInv, Exclusive
    <3>2. p \notin 0..(MapStart + MapCount - 1)
      BY <2>1, <3>1 DEF BootShape
    <3>3. 0..(BOOT_PAGES - 1) \subseteq 0..(MapStart + MapCount - 1)
      BY <2>2
    <3>4. BOOT_PAGES..(MapStart - 2) \subseteq 0..(MapStart + MapCount - 1)
      BY <2>2
    <3>5. MapStart..(MapStart + MapCount - 1) \subseteq 0..(MapStart + MapCount - 1)
      BY <2>2
    <3> QED BY <2>4, <2>7, <3>2, <3>3, <3>4, <3>5 DEF Boot_pages
  <2>9. tables \cap map_pages = {} /\ tables \cap 0..(BOOT_PAGES - 1) = {}
    <3>1. \A p \in BOOT_PAGES..(MapStart - 2) : p \notin 0..(BOOT_PAGES - 1)
      BY <2>2
    <3>2. \A p \in BOOT_PAGES..(MapStart - 2) : p \notin MapStart..(MapStart + (mem_map_size - 1) \div PAGE_SIZE)
      BY <2>2, <2>6
    <3> QED BY <2>4, <2>5, <3>1, <3>2
  <2>10. BootMemoryLow
    <3>1. MapStart + MapCount < 8 * BOOT_BITMAP_SIZE
      <4>1. /\ phy_mem_size \in MemorySizes /\ page_count = (phy_mem_size * ONE_MB) \div PAGE_SIZE
        BY <2>1 DEF BootShape
      <4>2. BOOT_PAGES + TableCount + MapCount < 8 * BOOT_BITMAP_SIZE
        BY <4>1 DEF BitmapSuffices, pgd_count, mem_map_page, mem_map_size, TableCount, MapCount
      <4> QED BY <2>2, <4>2
    <3>2. \A p \in boot_bitmap : p \in 0..(MapStart + MapCount)
      <4>1. CASE step = "bootmem"
        BY <2>1, <4>1 DEF BootShape
      <4>2. CASE step = "paging"
        <5>1. /\ boot_bitmap = 0..(BOOT_PAGES + Len(taken) - 1) /\ Len(taken) <= TableCount
              /\ Len(taken) \in Nat
          BY <2>1, <4>2, LenProperties DEF BootShape
        <5>2. BOOT_PAGES + Len(taken) - 1 <= MapStart + MapCount
          BY <2>2, <5>1
        <5> QED BY <2>2, <5>1, <5>2
      <4>3. CASE step = "map"
        <5>1. /\ boot_bitmap = 0..(MapStart + Len(taken) - 1) /\ Len(taken) <= MapCount
              /\ Len(taken) \in Nat
          BY <2>1, <4>3, LenProperties DEF BootShape
        <5>2. MapStart + Len(taken) - 1 <= MapStart + MapCount
          BY <2>2, <5>1
        <5> QED BY <2>2, <5>1, <5>2
      <4>4. CASE step = "running"
        BY <2>1, <4>4 DEF BootShape
      <4> QED BY <2>1, <4>1, <4>2, <4>3, <4>4 DEF BootShape
    <3>3. 8 * BOOT_BITMAP_SIZE \in Nat
      BY BootAssumption DEF BootAssumption
    <3> QED BY <2>2, <3>1, <3>2, <3>3 DEF BootMemoryLow
  <2>11. TablesEntered
    BY TablesAreEntered
  <2> QED BY <2>8, <2>9, <2>10, <2>11 DEF BootMemoryKept
<1> QED BY <1>1, MemoryInvariant, PTL
==============================================================================
