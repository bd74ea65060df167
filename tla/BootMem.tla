------------------------------- MODULE BootMem -------------------------------
(***************************************************************************)
(* caos32: memory from setup_memory (memory.c, page.c) on.  Boot takes     *)
(* pages one by one from a bitmap of low memory, for the kernel's page     *)
(* tables and for mem_map, marks in mem_map what it used, and hands the    *)
(* rest over to the page allocator.                                        *)
(***************************************************************************)
EXTENDS PageAlloc, Sequences

CONSTANTS
  MemorySizes,     \* the values of phy_mem_size, in MB
  KERNEL_PAGES,    \* kernel_size, in whole pages
  PAGE_SIZE, ONE_MB, MEM_MAP_T, \* bytes of a page, of a megabyte, of mem_map_t
  TABLE_MB,        \* the megabytes one page table maps
  BOOT_PAGES,      \* the pages bootmem_init marks
  BOOT_BITMAP_SIZE,\* bytes of boot_bitmap
  KERNEL_START     \* the page the kernel was copied to

ASSUME BootAssumption ==
  /\ MemorySizes \subseteq Nat \ {0} /\ KERNEL_PAGES \in Nat
  /\ {PAGE_SIZE, ONE_MB, MEM_MAP_T, TABLE_MB, BOOT_PAGES} \subseteq Nat \ {0}
  /\ BOOT_BITMAP_SIZE \in Nat /\ KERNEL_START \in Nat
  /\ \A mb \in MemorySizes : (mb * ONE_MB) \div PAGE_SIZE \in 1..(WORD - 1)

VARIABLES
  phy_mem_size, step, \* the probed memory and the part of setup_memory that runs
  boot_bitmap,        \* the pages whose bit is set
  taken,              \* the pages the running part has taken, in order
  directory,          \* swapper_pg_dir from entry 0x301 on: a page per table
  tables,             \* the pages paging_init writes page tables to
  map_pages           \* the pages mem_map lies in

bootVars == <<phy_mem_size, step, boot_bitmap, taken, directory, tables, map_pages>>

-----------------------------------------------------------------------------
(* alloc_bootmem: the bitmap fills from page 0 on without holes.  A search *)
(* that runs past its last byte reads what lies behind it, taken as zero.  *)
NextBootPage == CHOOSE p \in 0..Cardinality(boot_bitmap) :
                  p \notin boot_bitmap /\ 0..(p - 1) \subseteq boot_bitmap

AllocBootmem ==
  /\ boot_bitmap' = boot_bitmap \cup {NextBootPage}
  /\ taken' = Append(taken, NextBootPage)

(* Mutant: a page less for mem_map.                                        *)
PagesShort == (page_count * MEM_MAP_T) \div PAGE_SIZE - 1

pgd_count    == phy_mem_size \div TABLE_MB
mem_map_size == page_count * MEM_MAP_T
mem_map_page == mem_map_size \div PAGE_SIZE

(* The pages that hold the bytes from page first on.                       *)
Spanned(first, bytes) == first..(first + (bytes - 1) \div PAGE_SIZE)

BootInit ==
  /\ phy_mem_size \in MemorySizes
  /\ page_count = (phy_mem_size * ONE_MB) \div PAGE_SIZE
  /\ mem_map = [p \in Pages |-> 0]
  /\ zone_pages = 0 /\ reserved = {}
  /\ held = [o \in Holders |-> NOBLOCK] /\ answer = [o \in Holders |-> "none"]
  /\ step = "bootmem" /\ boot_bitmap = {} /\ taken = <<>>
  /\ directory = <<>> /\ tables = {} /\ map_pages = {}

-----------------------------------------------------------------------------
BootmemInit ==
  /\ step = "bootmem"
  /\ boot_bitmap' = 0..(BOOT_PAGES - 1)
  /\ step' = "paging"
  /\ UNCHANGED <<phy_mem_size, taken, directory, tables, map_pages, pageVars>>

(* paging_init: a page for the first table ...                             *)
PagingStart ==
  /\ step = "paging" /\ taken = <<>>
  /\ AllocBootmem
  /\ UNCHANGED <<phy_mem_size, step, directory, tables, map_pages, pageVars>>

(* ... the page taken last becomes the next table of the directory ...     *)
PagingEntry ==
  /\ step = "paging" /\ taken # <<>> /\ Len(taken) < pgd_count
  /\ directory' = Append(directory, taken[Len(taken)])
  /\ AllocBootmem
  /\ UNCHANGED <<phy_mem_size, step, tables, map_pages, pageVars>>

(* ... and the tables are written one after the other from the first.      *)
WriteTables ==
  /\ step = "paging" /\ taken # <<>> /\ Len(taken) >= pgd_count
  /\ tables' = taken[1]..(taken[1] + pgd_count - 2)
  /\ taken' = <<>> /\ step' = "map"
  /\ UNCHANGED <<phy_mem_size, boot_bitmap, directory, map_pages, pageVars>>

(* init_mem_map takes at least one page, ...                               *)
TakeMapPage ==
  /\ step = "map" /\ (taken = <<>> \/ Len(taken) < mem_map_page)
  /\ AllocBootmem
  /\ UNCHANGED <<phy_mem_size, step, directory, tables, map_pages, pageVars>>

(* ... clears the table, marks the pages below the next free one of boot   *)
(* memory and those of the kernel, and init_node opens the zone.           *)
InitMemMap ==
  /\ step = "map" /\ taken # <<>> /\ Len(taken) >= mem_map_page
  /\ map_pages' = Spanned(taken[1], mem_map_size)
  /\ boot_bitmap' = boot_bitmap \cup {NextBootPage}
  /\ reserved' = (0..(NextBootPage - 1) \cup KERNEL_START..KERNEL_PAGES) \cap Pages
  /\ mem_map' = [p \in Pages |-> IF p \in reserved' THEN 1 ELSE 0]
  /\ zone_pages' = page_count
  /\ step' = "running"
  /\ UNCHANGED <<phy_mem_size, taken, directory, tables, page_count, held, answer>>

Running == step = "running" /\ PageNext /\ UNCHANGED bootVars

BootNext == BootmemInit \/ PagingStart \/ PagingEntry \/ WriteTables
              \/ TakeMapPage \/ InitMemMap \/ Running

BootSpec == BootInit /\ [][BootNext]_<<bootVars, pageVars>>

-----------------------------------------------------------------------------
BootTypeOK ==
  /\ PageTypeOK
  /\ phy_mem_size \in MemorySizes
  /\ step \in {"bootmem", "paging", "map", "running"}
  /\ boot_bitmap \subseteq Nat /\ tables \subseteq Nat /\ map_pages \subseteq Nat
  /\ taken \in Seq(Nat) /\ directory \in Seq(Nat)

(* page.c:162: the tables paging_init writes in a row are those it entered *)
(* in the directory one by one.                                            *)
TablesEntered ==
  step \in {"map", "running"} => {directory[i] : i \in 1..Len(directory)} = tables

(* mem_map_page is rounded down: a rest of mem_map lies in a page that was *)
(* not allocated.                                                          *)
Tail_page == {p \in map_pages : mem_map_size % PAGE_SIZE # 0 /\ p + 1 \notin map_pages}

(* page.c:20, "bitmap for low memory under 0xA0000": the pages boot takes  *)
(* are pages the bitmap describes.  A machine can be too large for that.   *)
BootMemoryLow == \A p \in boot_bitmap : p < 8 * BOOT_BITMAP_SIZE

(* The pages that hold what setup_memory set up: the first ones, which the *)
(* boot code uses, the page tables, and mem_map in the pages boot took.    *)
Boot_pages == 0..(BOOT_PAGES - 1) \cup tables \cup (map_pages \ Tail_page)

(* page.c:23: what boot took and set up is not what mem_map calls free: it *)
(* is never handed out.  No table lies over mem_map or the first pages,    *)
(* every table written is entered in the directory, and the bitmap knows   *)
(* all of them on a machine it suffices for.  The tail of mem_map and the  *)
(* kernel are not kept: see KernelKept.                                    *)
BootMemoryKept ==
  /\ step = "running" => \A o \in Holders : Run(held[o]) \cap Boot_pages = {}
  /\ tables \cap map_pages = {} /\ tables \cap 0..(BOOT_PAGES - 1) = {}
  /\ BootMemoryLow /\ TablesEntered

(* memory.c:137, "kernel : 0x100000(0x100th page)~": the pages the kernel  *)
(* was copied to are marked as used, none is handed out.                   *)
KernelKept ==
  \A o \in Holders : Run(held[o]) \cap KERNEL_START..(KERNEL_START + KERNEL_PAGES - 1) = {}

=============================================================================
