# Verification of the gurugio code

This directory holds TLA+ models of the concurrent and stateful programs of this
repository, the TLC configurations that check them on small instances, and TLAPS
proofs of their main properties. `PROJECT.json` says which definition stands for
which lines of `src/`.

The repository is a collection of one author's C programs. There is no single
system; the parts below are independent except where stated.

## 1. Inventory

| Part | State | Operations | Why it is hard |
|---|---|---|---|
| **`atomic_list/`** lock-free linked list | the nodes (datum, next word with a mark in bit 0) | insert at the head, delete by datum, delete first, init, final | threads race on every word; searches walk over nodes other threads unlink and free |
| **`threadsafety_test/` and `atomic_list/test/`** the test harness | tables of threads and counts; hooked malloc/free counters | create and join workers, init / verify / final hooks of a test | partial failure of thread creation; hooks swapped under other threads |
| **`lockfree_mem_manager/`** allocator after Michael (unfinished, says its README) | heap's `active` word (descriptor + credits), a descriptor's `anchor` word (tag, state, counter, avail), the blocks' free list | alloc from the active superblock, alloc of a new superblock, roll-back | two CAS loops on packed words; credits at zero; block contents read after another thread may own them |
| **`util.h`** | a word | CAS, `atomic_inc`, `atomic_dec` | retry loops around CAS |
| **`caos32/page.c`, `memory.c`, `page_alloc.c`** page management of a 32-bit kernel | boot bitmap, page table entries, `mem_map` counts, zone counters | boot allocation, alloc and free of runs of pages | counters at their limits, long sequences of alloc and free |
| **`caos32/process.c`, `sched.c`, `timer.c`, `irq.asm`** tasks | `task_table`, `task_count`, `cur_task`, saved contexts | create / delete task, `schedule` on timer interrupts, power off | interrupts nested in `schedule`; error paths of `create_task` |
| **`caos32/init_irq.c`, `keyboard.c`, `char_device.c`** devices | `irq_mask`, handler table, device table, key buffer | open, close, read; interrupt handlers | interrupts between any two steps of a system call |
| **`caos32/syscall.c`, `syscall_handler.asm`** | none of its own | dispatch of `int 0x80` | calls run with interrupts on (system gate) |
| **`c_int_imp/`** checked memory (after Hanson), stack, arithmetic | hash of block descriptors, free list | alloc, free, push, pop, div, mod | sequences of alloc and free; coalescing |
| **`backtrace/`** backtrace on signals | the global tracer | init, final, trace | signals between two steps of init |

How they interact: the list's tests link `atomic_list.c` with the harness; the
allocator uses `util.h` and its own heap/desc files; in CaOS the timer and
keyboard interrupts enter through `irq.asm`, `handle_irq` calls the registered
handler with interrupts on, the timer entry then calls `schedule`, and system
calls reach the keyboard driver from `do_open`, `do_read` and `do_close`;
`create_task` takes its memory from the page allocator.

What makes each part correct:

* list: nothing inserted is lost, nothing deleted stays, no node is freed twice or
  by two threads, a failing delete really had nothing to find, operations are
  linearizable, every operation ends.
* allocator: a block has one owner; no free block is forgotten while the heap
  hands out new superblocks; the retry loops end.
* pages: no page belongs to two owners; what boot and the kernel use is never handed out; a
  free page is found. The code has the first, the second in part, and not the third (section 3).
* tasks: a task resumes in the context it was interrupted in; every task of the
  table is run again; a failing `create_task` gives everything back.
* devices: keys arrive in order and only once; a closed device is silent.
* checked memory and stack: blocks do not overlap, every wrong free is seen, a stack
  gives back what it took.
* harness and tracer: counts are exact; where a signal can meet half a tracer is known.

## 2. Modules

| Module | Models | Contents |
|---|---|---|
| `AtomicList` | `atomic_list.c` over `atomic_cas` | every access to a shared word is an action; the invariant `IInv`; safety properties |
| `SharedList` | what the list promises | abstract list whose operations take effect at one instant |
| `AtomicListRefines` | - | the refinement mapping `AtomicList` => `SharedList` |
| `ListTest` | `thrsafe.c` `main` and worker body, the hooks of the four list tests, `atomic_list_final` | composes `AtomicList` with the harness |
| `AtomicListProofs` | - | theorems about `AtomicList` |
| `ListClientProofs` | - | theorems about what clients see of the list: the refinement, and `ListTest` |
| `PageAlloc` | `page_alloc.c` and the entry points of `memory.c` | the page allocator and its callers |
| `BootMem` | `page.c`, `init_mem_map`, the order of `setup_memory` | extends `PageAlloc`: boot memory, then the allocator on what boot left |
| `TaskMemory` | `setup_task`, `create_task`, `add_task`, `del_task` of `process.c` | extends `BootMem`: boot, the allocator, and tasks that take their pages from it |
| `MemoryProofs` | - | theorems about `PageAlloc`, `BootMem` and `TaskMemory` |
| `Caos` | `sched.c`, `irq.asm`, `init_irq.c`, `timer.c`, `keyboard.c`, the system calls, `start_init` | the running kernel: tasks, nested interrupts, the keyboard driver |
| `CaosProofs` | - | theorems about `Caos` |
| `LockfreeAlloc` | `main.c`, `desc.c`, `heap.c` of `lockfree_mem_manager`, with `atomic_cas` | set-up of the manager, both ways of an allocation, clients that write |
| `LockfreeProofs` | - | theorems about `LockfreeAlloc` |
| `MallocHook` | the malloc and free hooks of `thrsafe.c`, `atomic_inc` and `atomic_cas` of `util.h` | threads that call malloc and free under the hooks |
| `HookProofs` | - | theorems about `MallocHook` |
| `CheckedMem` | `c_int_imp/mem.c` | the checked allocator |
| `CheckedStack` | `c_int_imp/stack.c` | extends `CheckedMem`: the stack and a client of its own |
| `CheckedProofs` | - | theorems about `CheckedMem` and `CheckedStack` |
| `Btrace` | `backtrace/btrace.c` | tracers of both kinds, and signals |
| `BtraceProofs` | - | theorems about `Btrace` |
| `MCAtomicList`, `MCListTest`, `MCBootMem`, `MCTaskMemory`, `MCCaos`, `MCLockfreeAlloc`, `MCMallocHook`, `MCCheckedStack`, `MCBtrace` | - | instances for TLC |

In every module a name that the source has is the source's, a `(* Mutant ... *)`
definition is a slip of the definition behind it that some run has to notice (the
pairs are in `PROJECT.json`), and "history" marks variables no guard reads, unless
they bound the number of calls for TLC.

### AtomicList

`data`, `next` and `heap` are the memory: two words per cell, and what the
allocator thinks of the cell. A pointer is a record of an address and the mark bit
that `atomic_list_set_mark` puts in bit 0. `pc[t]`, `left[t]`, `node[t]` and
`succ[t]` are the program counter and the locals of the operation thread `t` is in:
`left` is `cur_left` or `left_node`, `node` is `new_node`, `cur` or `del_node`, and
`succ` is the next word read last. One action is at most one access to shared
memory, as the code performs them: `InsertRead`, `InsertSetNext`, `InsertSetData`,
`InsertCas` for insert; `SearchStart`, `SearchCompare`, `SearchAdvance` and the three
validating reads for `atomic_list_search`; `ReadNext`, `Mark`, `Unlink`, `Unmark`,
`Free` for both deletions.

Three choices of the model are worth knowing:

* *malloc and free.* `free` leaves a block's second word (`next`) alone and may
  overwrite its first with an allocator link (`Junk`), as glibc does. Freed
  memory stays readable. With `Reuse = FALSE` malloc takes only fresh cells; with
  `Reuse = TRUE` it may hand out freed ones. When no cell is left malloc returns
  NULL.
* *crash.* Reading through NULL ends the process (`killed`). It can happen: see
  `delete_first` below.
* *history.* `linked`, `stamp` and `seen` record which cells successful CASes have put
  in and taken out, in which order they were inserted, and which cells a delete
  could find when it was called. No guard reads them.

`delete_first` is modelled as written: its test for an empty list compares the first
node with NULL, which is never the case while the list has a tail sentinel. On an
empty list it marks, unlinks and frees the tail sentinel and reports success.

`AtomicListRefines` maps the memory to an abstract list: the nodes between the sentinels in the
order of their stamps. That this is the list in memory is a property of its own (`WalkIsList`): a walk of
the `next` words from head meets exactly these elements, in this order, then the tail sentinel.

### ListTest

`phase` is where `main` is: `init` (the test's `init_test` inserts), `create`,
`join`, `verify`, `final`, `exit`, and `abandoned` after a failed `pthread_create`, when
`main` returns while workers run. A worker runs its program until a call fails.
`cursor` and `count` are the locals of `verify_test` and `final_test`. What `verify_test`
expects is counted from the programs: their insertions less their removals.

The list's tests take three things of their programs for granted, and so do the theorems about
them. `Balanced`: each removal follows an insertion of its own, earlier in the same program or
made by `main` before the workers exist. `OwnKeys`: the same for every datum that is deleted by
name, by one thread only, and not in a test that calls `delete_first`. `MemorySuffices`: no
malloc of a worker fails. `MCListTest` has TLC evaluate the first two on the programs of
the tests; the third holds where there is a cell for every insertion, as in `list_test`. A datum is a
pointer that a worker mallocs for an insertion and frees after its deletion; an address that malloc then
gives to another worker counts as a new key.

### PageAlloc and BootMem

`mem_map[p]` is the usage count of page p, `zone_pages` is `zone->pages`. A caller
(`Holders`) has at most one run of pages and gives it back with the order it asked
for. `GetFreePages` is the first-fit search of `__alloc_pages` with its test as
written: the first page of a run must count zero, the others only *not more than*
zero, which is what makes negative counts matter. `FreePages` is `__free_pages` as
written: its loop lowers the count of the first page 2^order times. `zone_pages` is
lowered by every allocation and raised by nothing; with it the search ends earlier
and earlier. `node_size` and `zone->size` are written and never read, and left out.

`get_free_pages` has three answers. Above `MAX_PAGE_ORDER` it returns NULL. When no run
is found it converts a NULL page to an address, which is not NULL (`"wild"`): no caller
can see that memory is short. What callers do with that address is in
`TaskMemory`.

`BootMem` runs `setup_memory` one boot page at a time. `step` is the function it is in,
`taken` the pages that function has taken from the bitmap. The bitmap has
`BOOT_BITMAP_SIZE` bytes; the code tests the wrong bound, so a search may read on
behind it, and the model reads zeros there (page.c's other variables are zero then).
`reserved` records what `init_mem_map` marked. Its last loop, over the kernel's pages, is
modelled as written: it runs from page 0x100 up to a page number below it, that is, never.
`BootMemoryKept` is what boot keeps: the first pages, the tables and the whole pages of
`mem_map` are never handed out, on machines up to the size the bitmap suffices for. What the
comments claim beyond that does not hold: `KernelKept` is violated by `memory_kernel`, and
*Known* in section 3 has the rest.

### TaskMemory

`creating` is the task `create_task` makes and the step it has come to. The pages of a
task are those of four holders, `<<task, role>>`; a holder without a block stands
for the address that is no page, which `create_task` cannot tell from one. When the
table is full the labels give the pages back one by one, each with the page it
names. `del_task` leaves the task's pages, and `task_count`, as they are; that is
what the code does, and `FailedGivesBack` and `TaskCountExact` say it with `deleted`.
Other callers take pages only between two calls of `create_task`, which boot and the
kernel run to the end.

### Caos

The processor does one thing at a time. `stack` holds what it is in, the topmost
running, what it interrupted below; with an empty stack it is in the user code of
`cur_task`. System calls enter through a trap gate, which leaves interrupts on, and
interrupt handlers execute `sti`, so an interrupt (`Tick`, `Key`) may come between any
two steps of the others. `irq_mask` is the variable and the interrupt controller's
register: the `outb` follows each write, and what nests between the two restores
both. Reading the mask and writing it back are two steps.

A context is the number of steps its user code has made (modulo `Contexts`);
`thread[p]` is the saved one. `schedule` saves, picks the next task and is then in the
*window* in which esp points into the next task's `task_struct`. An interrupt there
pushes on that structure, and the behaviour ends in `halted = "tcb"`: nothing is
known of the rest. Likewise `"handler"` (a NULL handler was called) and `"next"` (a
NULL task was switched to).

Left out: shift states and scan codes (they decide *which* character a key is, not
whether one is stored: a `Key` is one that stores a character), `status`,
`sched_count`, `timer_count`, output. The test `l > size` in `keyboard_read` never
stops the loop for the shell's size of 31 and a buffer of 32.

### LockfreeAlloc

The two packed words are records: `active` is the heap's, a descriptor and its
credits; `anchor[d]` is a descriptor's, the index of the first free block, the
counter, the state and the tag, each modulo the width of its bit field
(`make_active`, `make_anchor`). `word[d][i]` is the first word of a block, which is the
index of the next free block until the block's owner writes over it. Every read and
every compare-and-swap of `alloc_active` and `alloc_newsb` is an action. The superblock
that `alloc_newsb` sets up is not visible to others before its swap, so its
preparation is one action (`GetDesc`).

As written, and modelled so: the credits' word is never zeroed, since `make_active` is
applied to the old word after `ZERO_ACTIVE` was chosen (`Reserved`), so a superblock is
never left behind and, once its blocks have run out, indices behind its end are
given out; the state becomes `FULL` when a thread without a credit finds the counter used up, which
may be while blocks are free, and nothing reads it; block 0 is given to the thread that installs the
superblock with an address that is one word late, so that its second word is the
first of block 1. `SPAN` is how many words a client writes: with 2 the owner of block 0
overwrites the index in block 1 while it is free, and `BlocksDistinct` fails. The runs
and theorems are for `SPAN = 1`.

### MallocHook

`hook` and `old_hook` are glibc's hook variables and the program's copies, `lock` the two
spin locks. A call looks at the hook (`Call`); with the program's hook in place it goes
through the steps of `my_malloc_hook` or `my_free_hook`, otherwise it passes the hook by and
is counted in `bypassed`, which is what happens to every call of another thread while
one is inside. `CountedOnce` is exact about that: counters plus bypassed calls are all
calls that reached the library. `atomic_inc` reads the counter once, before its loop;
that it ends all the same is due to the lock, and is part of `CallsReturn`.

### CheckedMem and CheckedStack

`desc` are the descriptors in the order `dalloc` fills them, `freelist` and `htab` name
them. `mem_alloc` is first fit, and cuts the block from the end of a free one that is
larger; when there is none, a chunk of `NALLOC` bytes more than the request is put at the
front of the list. `mem_free` of anything but the start of a block in use ends the
program (`exited`), as does a failing malloc. The stack's head and elements are blocks of
that memory. `Stack_free` is one action per element, each reading the link before it
frees.

### Btrace

`main` is where the program is: making a tracer, inside `init`, ready, inside `final`.
`acts` is the stack of traces: a signal may arrive between any two steps of the program
or of another trace, and its handler traces with `global_btracer`. Signals are reset when
they arrive (`SA_RESETHAND`), so the second of a number kills.

What `init` has not set yet is what malloc's memory held: any stream, a buffer pointer that is
junk or NULL, and an `addr_count` of `JunkCounts`, 0 among them (a tracer given back leaves NULL and
0 behind, and a new one may get its memory). `init` stores the buffer (`InitData`) and its count
(`InitCount`) in two steps, after it has installed the handlers. `size` is the buffer's real
length, which the program does not keep.

`ended = "crash"` is what a trace does that meets a tracer which is not there, has a closed or
unset stream, passes junk to `realloc`, or has more frames, up to `addr_count`, than the buffer
holds. With an `addr_count` of 0 a trace touches no buffer at all: `backtrace`
returns 0, the test 0 < 0 fails, twice 0 is 0, `realloc` for no bytes frees the buffer and
returns NULL, and the loop starts again, for ever. `early` is history: a signal came between the
buffer and its count. It may have had the buffer cut to a count that `init` then overwrites,
which crashes a later trace, long after `init`.

## 3. Runs

| Run | Question | Instance |
|---|---|---|
| `list_any` | are the inductive invariant `IInv`, `FailedDeleteOvertaken` and `FrozenAfterUnlink` kept by *any* clients, is the list exactly what was inserted and not deleted (`ListIntact`, `WalkIsList`), has every node one deleter, is the tail sentinel taken out only when it is the last node (`SentinelLast`), and do the operations implement `SharedList` until then, that is, are they linearizable? | 3 threads, 3 free cells. Clients that delete only after inserting (`PairPrograms`): one deletes its datum, one deletes the first node, the third does either or deletes another datum, which puts two adjacent nodes under deletion. Clients that also delete from an empty list (`EmptyPrograms`): 5 programs per thread. 530 thousand states |
| `list_test` | does the harness with the list's own tests end, and report success, with no mark left, and every node freed exactly once? | 3 workers and `main`, 6 set-ups taken from the four test files; 266 thousand states |
| `list_test_reuse` | the same verdict when malloc reuses freed nodes: **violated** | 3 workers, two loops in one of them |
| `memory` | are boot's own pages kept, does the allocator keep pages exclusive and counts exact, does a failing `create_task` give everything back? | machines of 4, 5, 7, 8, 12, 19 MB (20 are too many for the bitmap of 32 pages), a table of 2 for 3 tasks, 4 calls, one other caller with orders 0 and 4 (refused); 246 thousand states |
| `memory_orders` | the allocator with requests of order 1: `Exclusive` **violated** | 3 callers |
| `memory_kernel` | are the kernel's pages kept (`KernelKept`)? **violated** | 3 callers, 4 MB, the kernel at page 10 |
| `kernel` | are masks, contexts, tasks and keys right however interrupts nest, and does every task run? | 3 tasks, 3 keys, a buffer of 2, all four calls; 259 thousand states |
| `kernel_window` | do handlers push on a kernel stack? **violated** | as `kernel` |
| `lockfree` | has a block one owner, does the counter promise only what is there, does a superblock that lost the race go back, and does every call return? | 3 threads, superblocks of 3 blocks, 2 credits, 4 calls; 243 thousand states |
| `checked_mem` | do blocks stay apart, is every wrong free seen, is the stack last in, first out, and does it give back what it took? | requests of 1 and 4 bytes in units of 2, chunks 4 larger, 10 bytes of memory, batches of 3 descriptors, two values; 140 thousand states |
| `hooks` | is the library's hook never lost, are the counters exact, does every call return? | 3 threads with 2 calls each, of malloc, free and free(NULL); 328 thousand states |
| `btrace` | where can a signal crash a tracer, does an undisturbed trace print every frame, does every trace end but those begun before `init` has set a count that was 0? | 3 signals, a first buffer of 3, call stacks of depth 1, 3 (just filled) and 7 (two doublings), counts of 0, 1 and 9 in malloc's memory; 1.4 million states |

*Scale of the memory runs.* A page has 16 bytes, a megabyte 4 pages, a table maps
4 MB as in the code, an entry of `mem_map` takes 5 bytes, so `mem_map` spans more than
one page and, on odd machines, ends inside one.

*Why the bounds suffice.* The hazards of the list are between two neighbours: a left
node deleted under an insert or a delete, a node deleted by two threads, a walk
standing on a freed node. Three threads and two or three nodes produce all of them;
the mutants in `PROJECT.json`, one slip of the code per property, are all
found within these bounds, and the unbounded claim is what the proofs add. In `memory`, two
tasks and another caller exhaust the smallest machine, which is how the address that
is no page comes into `create_task`, a third task meets the full table, and a fourth
call comes after an entry was deleted. In `lockfree` four calls are two that race to install a
superblock (one of them rolls back), and two more that take its two other
blocks, the second with no credit left; without the race the fourth call finds the
superblock used up.
`checked_mem` exhausts its memory, cuts a block twice, and reuses a batch of
descriptors. In `kernel`, three tasks are what CaOS starts
(with one and two as other initial states), ticks are unbounded, and three keys
for a buffer of two make it overflow, and be read before, during and after. Threads
and free cells are interchangeable and therefore symmetric, except in `list_test`
whose liveness property forbids it.

*The findings.* `list_test_reuse` is the ABA problem. Thread 1 searches and keeps
node c2 as the left node of its own c1. Thread 2 deletes and frees c2, mallocs it
again and, in the middle of an insert, stores in it the next word it reads from
head, which is c1. Thread 1's CAS on c2 compares addresses only, succeeds on the
still private node and frees c1, although head leads to it. `verify_test` then
finds a freed node on the list where the test expects none.

`memory_orders`: freeing an order-1 run leaves the counts -1 and 1; a later order-1
request takes the page counting -1 as the second of its run, raises it to 0, and the
next request is given it too. CaOS asks for single pages only.
`kernel_window`: a key between `mov %eax,%esp` and `iret` in `schedule`.

`memory_kernel`: memory.c:137 and page.c:56 say that the pages from 0x100 on are marked for the
kernel; the loop compares a page number with a number of pages and never runs, so once the pages
below are taken the kernel's are handed out.

*Known.* The models contain the following as the code has it. No run asks for the contrary, and
the properties say exactly what is left:

* `mem_map_page` is rounded down, so a `mem_map` that ends inside a page shares that page with
  whoever is given it next (`Tail_page`, which `BootMemoryKept` excepts).
* The test that is to keep boot memory under 0xA0000 compares a byte index with a page number:
  a machine above about 100 MB (in the runs, of 20 MB) takes boot pages that the bitmap does not describe,
  and marks them in the variables behind it. The largest machine of `memory` is the last one that does not.
* `zone->pages`, the bound of the search, is lowered by every allocation and never raised, so after
  some allocations and frees a free page is beyond it, and requests fail.
* A signal after the handlers are installed and before `addr_count` is set may find 0 there; its
  trace loops for ever. `TracesEnd` excepts this and nothing else (`Endless`).
* `delete_first` on an empty list frees the tail sentinel (`SentinelLast` says that only then).
* Closing the keyboard while keys come reaches a NULL handler.
* In `lockfree_mem_manager`, the points listed under *LockfreeAlloc* above.

*Fairness.* `Caos!FairSpec`: the processor executes (weak fairness on `Execute`);
between two ticks the interrupted code gets on, because a tick's handler is far
shorter than its period of 55 ms (strong fairness on steps outside it, since ticks
disable and enable them again and again); and some tick meets user code, since
the clock does not run in step with the shell's calls (strong fairness on a tick in
user mode). Without the last the shell could call the kernel at every tick and
never be switched away from. `FairTestSpec` has weak fairness on `main`, on the end of an abandoned
process and on every worker: the kernel schedules every runnable thread. There is no
fairness on the failure of `pthread_create`, nor strong fairness anywhere: that
the workers end although each can undo the other's work is what `TestEnds` shows.
`LockfreeAlloc` and `MallocHook` have weak fairness on the steps of each thread inside a
call, since the kernel schedules runnable threads; a spinning thread is enabled only
when its swap would succeed or its retry goes on, so nothing there rests on luck.
In `Btrace` a trace that has begun goes on (weak fairness on `Tracer`); signals that
never stop are ruled out by their being reset on arrival, not by fairness.

## 4. Proofs

`AtomicListProofs` proves `Spec => []TypeOK` for all values of the constants, and
`Spec => []IInv` under the single assumption `Reuse = FALSE`; `list_test_reuse` shows that
without it the claim is false. `IInv` is the conjunction of

* `Shape`: cells are ordered by insertion stamp along `next` words, no cell of the
  list lies between a cell and its successor (also for cells that have left the
  list), every cell but head is led to by one of the list, removed cells keep their
  mark, listed cells are allocated;
* `OneOwner`: a cell under insertion or deletion belongs to one thread;
* `Knows(t)`: what a thread may rely on at each program point;
* `Ahead(t)`: everything a delete still has to find is ahead of its walk.

The stamps are why it is inductive: "the walk has not passed the node yet" is not
a statement about reachability, which a step of another thread changes globally, but
about two numbers. Each action has one lemma; the frame lemma for the other
threads says that a step that keeps the words a thread knows about keeps what it
knows. From `IInv` follow `OneDeleter`, `FailedDeleteOvertaken` and
`FrozenAfterUnlink` as theorems, and `ListIntact`: if the cells a walk from head meets were not
those of the list, the youngest one missed would be led to by a younger one, which is met.

`ListClientProofs` has the results for those who call the list.

*The refinement.* Every step of `AtomicList` is a step of `SharedList` or none
(`ListRefines`), up to the step that takes the tail sentinel out of the list. The abstract list is
a sequence ordered by stamps, so a lemma each says what a new largest stamp or a missing one does
to the rank of the others, hence that the CAS of insert puts an element in front and the
CAS that unlinks removes one. The invariants it needs besides `IInv` relate the
program counter to the call (`CallInv`) and hold that walks stay before the tail (`WayInv`).
That the sentinel stays is exactly what the code lacks: `SentinelIsLast` says that it is taken out
only by a `delete_first` that finds the list empty. For clients without `delete_first`
(`ListRefinesWithoutDeleteFirst`) and for the harness (`TestsRefine`) it does stay, and all their
steps are those of `SharedList` (`Abstract!Spec`).

*The harness.* `HarnessInv` lifts `IInv` to `ListTest`: who runs in which phase, and that a thread of
a later phase is idle. Every mark belongs to a thread inside a deletion, every
allocated cell to the list or to a thread (`MarkOwned`, `HeapOwned`), so that after the join no
mark is left (`MarksAreGone`); the walk of `final_test` has freed what is
behind it and nothing else (`FinalInv`), so every block is freed exactly once (`BlocksFreedOnce`,
`TestsFreeOnce`).

*The count.* For a set K of keys, the nodes held with a key in K are as many as insertions with
such keys that have taken effect, less the removals that have (`CountInv`). From it follows
what looks like an argument about scheduling: under `Balanced`, the
insertions paired with the removals so far and with the one under way have all taken effect and
are more than the removals that have, so the list is not empty (`SentinelStays`); with K a
single key, a delete's datum is in the list when it is called, and nobody else takes it
(`DeletingSucceeds`). At the join both counts are those of the programs, the verify walk
counts the nodes behind it (`VerifyInv`), and `verify_test` reports success
(`VerifyingSucceeds`, `TestsSucceed`).

`MemoryProofs` follows the modules of the memory upwards. For the allocator alone it proves
`PageSpec => []Exclusive` (and `PageInv`, the exact counts) under the assumption `OnePage`:
every order asked for is 0 or refused, as in `create_task`, the only caller.
`memory_orders` shows that the assumption is needed. The invariant is `PageInv /\ Single`:
a run is one page, so the page found with count zero is in no run and not reserved (by
`Counted`), and giving back lowers the count of the one page that was held. The size of the
machine, the reserved pages, the word and the number of callers are arbitrary.
For boot and tasks, `TaskIInv` adds what each stage has done so far: `BootShape` (while boot
runs the marked pages are the first ones, without a hole, and the last of them are those the
current function has taken), `CreateInv` (at an error label the pages of the labels above it
are given back), `TableInv` (the tasks of the table and the deleted ones are those
`task_count` counts) and `FailedGivesBack` itself, which is inductive with these. `BootMemoryKept` (the first
pages, the tables and the whole pages of `mem_map`) needs an argument about the numbers: the bitmap must be long enough for every page boot can take (`BitmapSuffices`, which
the instances satisfy; with the code's 8 pages, bitmap of 20 bytes and `mem_map_t` of 20 bytes it
holds for machines of up to 101 MB), because a search that runs past the bitmap's end reads and
marks whatever lies behind it.

`LockfreeProofs` proves the three safety properties of the `lockfree` run for any threads,
descriptors, block numbers and field widths, under `SPAN = 1` (and for `CounterHonest`
finitely many threads). The inductive invariant `IInv` rests on one observation: since
blocks never come back, the free list of a superblock is, until it has run out, every
block from the anchor's index on, in order (`FreeList`). So an anchor a thread has read
is behind the current one or equal to it, and if it is equal the index it read in
the block is right (`Behind`); the tag is not needed, though nothing sets it
and it wraps. `Caller` and `Apart` say what a thread knows of the heap's superblock and
that the superblocks being set up are different; `Heap` that an installed superblock
stays; `Kept` that nothing else is allocated. What becomes of block 0 after the list
has run out is deliberately not said: an index from behind the superblock is any
number, and may be 0.

`CounterHonest` needs a second invariant, `PInv`: as long as the counter is not zero, the
counter, the credits and the reservations of threads between the two swaps
(`Reserving`) are together at most the blocks that are left. A thread that found the credits
at zero has reserved nothing, any number of threads may do so at once, and it is paid
for by its taking at least one from the counter.

`HookProofs` proves `HookKept` and `CountedOnce` for any number of threads and calls. The
invariant is mutual exclusion per side (`OneInside`) and that the place of the thread
inside tells which hook is installed (`InsideHas`); the counter equation follows by
adding and removing one element of the set of threads that have called the library and
not counted yet, which has at most one.

`CheckedProofs` proves `BlocksApart`, `FreeChecked`, `LastInFirstOut` and `NothingLost`. The
invariant says that the descriptors in use and on the free list tile the chunks the memory was
made of: each is aligned and apart from the others (`Typed`, `Aligned`, `Tiled`), every block in
use is in the table under its hash (`Tabled`), and what was given out and what was freed are the
addresses of those descriptors (`Accounted`). The point that is easily missed is that `mem_alloc`
cuts only a block that is *larger* than the request, and from its end: a free block keeps at
least one unit, the address at its start is never given out a second time, no two descriptors
have the same address, and so a wrong free is seen. The stack's part (`Chained`, `Counting`) says
that the elements are the blocks `pushed` records, in their order, each linked to the one
below; that `Stack_free` can read a link before it frees follows from it.

`CaosProofs` proves all the safety properties of `Caos`. `StackOK` says what can be on the stack:
handlers on top of at most one system call or switch, with the window only at the bottom.
`MaskInv` holds that no two handlers that are under way have the same line, because
a line is masked while its handler is on the stack. It is what makes `MaskRestored`
inductive: the mask a frame has saved is the current one without the lines of the frames above
it, so every return writes back what its frame found however deep the nesting was. `TaskInv` is
about `task_table` and `cur_task` in the middle of `schedule`, `ContextInv` relates the saved
contexts to the tasks' progress (the current task's is in the frame, the others' in
`thread`), and `KeyInv` says that what a read has copied is the front of the key buffer, also
when keys come in between.

`BtraceProofs` proves `CrashInWindow` and `WholeStackPrinted`. There is one tracer, and handlers
can lead to it only while it is the program's or `init` is installing them (`HandlerInv`); the
buffer's size equals `addr_count` unless some trace stands between the two at `realloc`, or
`early` holds (`BufferInv`); a count of 0 stays 0, so no trace comes to print with it, and a trace
that lost the buffer to one never ends, and `init` does not go on below it (`TypeInv`); and every trace on the stack but the topmost has been interrupted, so the trace
that claims to be undisturbed has had the buffer to itself (`FramesInv`).

Only model-checked: liveness (`TestEnds`, `EveryTaskRuns`, both `CallsReturn`, `TracesEnd`), which is
beyond the prover. Every other property of a passing run is a theorem, under the assumptions named
above.

## 5. Plan

What is left: the shell's calls as a client of `Caos` (`do_cgetstr` is a read with a second reset of
the index), with the proofs of `CaosProofs` extended to it.

## 6. Not modelled

* `c_int_imp/arith.c`: quotient and remainder of two integers, without state. Its sign
  test at line 18 reads `x & y != 0`, which C takes as `x & (y != 0)`.
* Boot assembler, descriptor tables, console, `kprintf`, string routines, exception
  stubs, `init.c`'s shell: straight-line code without state that outlives a call.
* Failures that the code does not handle and that its models leave out: `malloc` of a
  descriptor or a superblock in `alloc_newsb`, `sigaction`, `pthread_mutex_init`.
  The same goes for `calloc` and `realloc` of a trace's buffer when memory is short.
  `mem_free(NULL)` does nothing, and is left out.
* A second tracer beside the first, and a signal in the middle of `realloc` (one
  step here).
* `delete_first` on an empty list is modelled, but only `list_any` has clients that do it.
* Partial lists of `lockfree_mem_manager` are initialised and never used; there is no free.
* The list's unit tests are sequential: the runs contain what they do.
* `memory_defensive`, `understand_buddy_slab`: demonstrations of a few calls each.
* `calib_examples` (generated build systems), the tutorial directories and documents: no
  program of their own.
