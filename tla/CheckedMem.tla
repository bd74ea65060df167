------------------------------ MODULE CheckedMem ------------------------------
(***************************************************************************)
(* c_int_imp/mem.c: an allocator that knows every block it gave out.  A    *)
(* block has a descriptor for ever: in a hash table by its address, and on *)
(* the free list while it is free.  A free block serves smaller requests   *)
(* from its end, so its own address is never given out again, and a wrong  *)
(* call of mem_free ends the program.                                      *)
(***************************************************************************)
EXTENDS Integers, FiniteSets, Sequences

CONSTANTS
  Requests,     \* the values of nbytes
  ALIGN,        \* sizeof(union align)
  NALLOC,       \* what a chunk has more than the request it is made for
  NDESCRIPTORS, \* descriptors that are allocated at a time
  HASHES, HASH_UNIT, \* the size of htab, and the addresses that share an entry
  LIMIT,        \* the C library has no memory from this address on
  NULL

ASSUME MemAssumption ==
  /\ Requests \subseteq Nat \ {0}
  /\ {ALIGN, NALLOC, NDESCRIPTORS, HASHES, HASH_UNIT} \subseteq Nat \ {0}
  /\ NALLOC % ALIGN = 0 /\ LIMIT \in Nat /\ NULL \notin Int

VARIABLES
  desc,     \* the descriptors dalloc has filled, in order
  freelist, \* the descriptors on the free list, first to last
  htab,     \* the descriptors of every entry of the table, newest first
  nleft,    \* descriptors left in the batch
  brk,      \* where the C library puts the next chunk
  exited,   \* what ended the program
  live,     \* history: the blocks given out and not freed, with their sizes
  freed     \* history: the addresses that were freed

memVars == <<desc, freelist, htab, nleft, brk, exited, live, freed>>

rounded(nbytes) == ((nbytes + ALIGN - 1) \div ALIGN) * ALIGN
hash(p) == (p \div HASH_UNIT) % HASHES
Elements(s) == {s[i] : i \in 1..Len(s)}

(* find: the first descriptor of the entry that has the address.           *)
find(p) == {i \in Elements(htab[hash(p)]) : desc[i].ptr = p}

Running == exited = "no"
Exit(code) ==
  /\ exited' = code
  /\ UNCHANGED <<desc, freelist, htab, nleft, brk, live, freed>>

MemInit ==
  /\ desc = <<>> /\ freelist = <<>> /\ nleft = 0 /\ brk = 0 /\ exited = "no"
  /\ htab = [h \in 0..(HASHES - 1) |-> <<>>]
  /\ live = {} /\ freed = {}

-----------------------------------------------------------------------------
(* Mutant: the block is cut from the front.                                *)
CutFront(ds, i, n) ==
  Append([ds EXCEPT ![i].size = @ - n], [ptr |-> ds[i].ptr, size |-> n])

(* The first free block that is larger than the request ...                *)
Fitting(n, list, ds) == {k \in 1..Len(list) : ds[list[k]].size > n}
First(ks) == {k \in ks : \A j \in ks : k <= j}

(* ... loses its end to a descriptor of its own.                           *)
Cut(ds, i, n) ==
  Append([ds EXCEPT ![i].size = @ - n],
         [ptr |-> ds[i].ptr + ds[i].size - n, size |-> n])

(* Descriptors are taken from a batch; an empty batch needs malloc.        *)
Dalloc(count) == nleft' = (nleft - count) % NDESCRIPTORS

(* The block goes into the table, and its address to the caller.           *)
Give(ds, list, n) ==
  \E k \in First(Fitting(n, list, ds)) :
    LET new == Cut(ds, list[k], n)
        p   == new[Len(new)].ptr
    IN /\ desc' = new
       /\ freelist' = list
       /\ htab' = [htab EXCEPT ![hash(p)] = <<Len(new)>> \o @]
       /\ live' = live \cup {[ptr |-> p, size |-> n]}

AllocFree(n) ==
  /\ Running /\ Fitting(n, freelist, desc) # {}
  /\ Dalloc(1)
  /\ Give(desc, freelist, n)
  /\ UNCHANGED <<brk, exited, freed>>

(* No free block is large enough: a chunk from malloc leads the list, and  *)
(* the search goes on with it.  Its descriptor is not in the table.        *)
AllocChunk(n) ==
  /\ Running /\ Fitting(n, freelist, desc) = {} /\ brk < LIMIT
  /\ Dalloc(2)
  /\ Give(Append(desc, [ptr |-> brk, size |-> n + NALLOC]), <<Len(desc) + 1>> \o freelist, n)
  /\ brk' = brk + n + NALLOC
  /\ UNCHANGED <<exited, freed>>

mem_alloc(nbytes) == AllocFree(rounded(nbytes)) \/ AllocChunk(rounded(nbytes))

(* malloc fails for a batch of descriptors, or for the chunk.              *)
mem_alloc_fails(nbytes) ==
  /\ Running
  /\ IF Fitting(rounded(nbytes), freelist, desc) # {}
     THEN nleft = 0 /\ Exit("2")
     ELSE \/ Exit("3")
          \/ (nleft - 1) % NDESCRIPTORS = 0 /\ Exit("2")

(* Mutant: whether the block is free already is not tested.                *)
AcceptedFree(p) == p % ALIGN = 0 /\ find(p) # {}

(* mem_free: an address of the table whose descriptor is not free.         *)
Accepted(p) == p % ALIGN = 0 /\ find(p) # {} /\ find(p) \cap Elements(freelist) = {}

FreeBlock(p) ==
  /\ Running /\ Accepted(p)
  /\ \E i \in find(p) : freelist' = <<i>> \o freelist
  /\ live' = {b \in live : b.ptr # p} /\ freed' = freed \cup {p}
  /\ UNCHANGED <<desc, htab, nleft, brk, exited>>

FreeRefused(p) == Running /\ ~Accepted(p) /\ Exit("1")

mem_free(p) == FreeBlock(p) \/ FreeRefused(p)

MemNext ==
  \/ \E n \in Requests : mem_alloc(n) \/ mem_alloc_fails(n)
  \/ \E p \in 0..(brk + 1) : mem_free(p)

-----------------------------------------------------------------------------
Bytes(b) == b.ptr..(b.ptr + b.size - 1)

(* mem.c:94: the blocks in use do not overlap one another, nor what is     *)
(* left of a free block.                                                   *)
BlocksApart ==
  /\ \A a, b \in live : a # b => Bytes(a) \cap Bytes(b) = {}
  /\ \A a \in live, k \in 1..Len(freelist) : Bytes(a) \cap Bytes(desc[freelist[k]]) = {}

(* mem.c:54, 96: mem_free takes the addresses of the blocks in use and no  *)
(* other, and an address it has taken never again: it is not given out a   *)
(* second time, so that a second free of it will always be seen.           *)
FreeChecked ==
  \A p \in 0..brk : Accepted(p) <=> p \notin freed /\ \E b \in live : b.ptr = p

=============================================================================
