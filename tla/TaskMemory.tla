------------------------------ MODULE TaskMemory ------------------------------
(***************************************************************************)
(* caos32: create_task and del_task of process.c on the page allocator.    *)
(* The kernel, which runs one create_task at a time, takes a page each for *)
(* the directory, the page table, the task_struct and the code of a task.  *)
(***************************************************************************)
EXTENDS BootMem

CONSTANTS
  MAX_TASK,
  Tasks,    \* the tasks somebody asks for, each once at a time
  TASKS     \* bound on the calls that take pages, for TLC

ASSUME TasksAssumption == MAX_TASK \in Nat \ {0} /\ TASKS \in Nat
ASSUME TaskPagesAssumption ==
  0 \in Orders /\ Tasks \X {"pgd", "pte", "tcb", "task_addr"} \subseteq Holders
ASSUME NobodyAssumption == NOBLOCK \notin Tasks

VARIABLES
  task_table, \* the tasks by pid; NOBLOCK stands for NULL
  task_count,
  creating,   \* the task create_task makes, and its step
  filled,     \* history: the tasks whose creation ended well
  deleted,    \* history: the tasks del_task took out of the table
  created     \* history: the calls of create_task

taskVars == <<task_table, task_count, creating, filled, deleted, created>>

Pids == 0..(MAX_TASK - 1)
Nobody == [task |-> NOBLOCK, step |-> "none"]

(* Mutant: the last label comes first.                                     *)
err_labels_short == [err_task |-> "err_pgd", err_tcb |-> "err_pte", err_pte |-> "err_pgd",
                     err_pgd |-> "failed"]

(* The pages in the order they are taken; given back, the other way round. *)
TakeOrder == [pgd |-> "pte", pte |-> "tcb", tcb |-> "task_addr", task_addr |-> "add"]
err_labels == [err_task |-> "err_tcb", err_tcb |-> "err_pte", err_pte |-> "err_pgd",
               err_pgd |-> "failed"]

TaskInit ==
  /\ BootInit
  /\ task_table = [l \in Pids |-> NOBLOCK] /\ task_count = 0 \* setup_task
  /\ creating = Nobody /\ filled = {} /\ deleted = {} /\ created = 0

Page(role) == <<creating.task, role>>
Taking(role) == creating.step = role

(* What each label gives back.                                             *)
Releases == [err_task |-> "task_addr", err_tcb |-> "tcb", err_pte |-> "pte", err_pgd |-> "pgd"]

-----------------------------------------------------------------------------
CreateStart(k) ==
  /\ step = "running" /\ creating = Nobody /\ created < TASKS
  /\ k \notin filled
  /\ creating' = [task |-> k, step |-> "pgd"] /\ created' = created + 1
  /\ UNCHANGED <<bootVars, pageVars, task_table, task_count, filled, deleted>>

(* get_free_pages(0, 0).  Without a free page it answers with an address   *)
(* that is not NULL, and create_task goes on with it.                      *)
CreatePage(role) ==
  /\ Taking(role)
  /\ GetFreePages(Page(role), 0) \/ GetFreePagesNoMemory(Page(role), 0)
  /\ creating' = [creating EXCEPT !.step = TakeOrder[role]]
  /\ UNCHANGED <<bootVars, task_table, task_count, filled, deleted, created>>

Empty == {l \in Pids : task_table[l] = NOBLOCK}

(* Mutant: whether the entry is empty is not tested.                       *)
AddTaskFirst ==
  /\ Taking("add") /\ Empty # {}
  /\ task_table' = [task_table EXCEPT ![0] = creating.task]
  /\ creating' = [creating EXCEPT !.step = "fill"]
  /\ UNCHANGED <<bootVars, pageVars, task_count, filled, deleted, created>>

(* add_task: the first empty entry, or -1.                                 *)
AddTask ==
  /\ Taking("add")
  /\ \E l \in Empty :
       /\ \A j \in Empty : l <= j
       /\ task_table' = [task_table EXCEPT ![l] = creating.task]
  /\ creating' = [creating EXCEPT !.step = "fill"]
  /\ UNCHANGED <<bootVars, pageVars, task_count, filled, deleted, created>>

AddTaskFails ==
  /\ Taking("add") /\ Empty = {}
  /\ creating' = [creating EXCEPT !.step = "err_task"]
  /\ UNCHANGED <<bootVars, pageVars, task_table, task_count, filled, deleted, created>>

(* The code is copied, the directory and the registers are set up.         *)
FillTask ==
  /\ Taking("fill")
  /\ task_count' = task_count + 1
  /\ filled' = filled \cup {creating.task} /\ creating' = Nobody
  /\ UNCHANGED <<bootVars, pageVars, task_table, deleted, created>>

(* From err_task on the labels fall through: a page each.  free_pages of   *)
(* the address that stands for no page changes no count of mem_map.        *)
GiveBack(label) ==
  /\ creating.step = label
  /\ \/ FreePages(Page(Releases[label]))
     \/ held[Page(Releases[label])] = NOBLOCK /\ UNCHANGED pageVars
  /\ creating' = IF err_labels[label] = "failed" THEN Nobody
                 ELSE [creating EXCEPT !.step = err_labels[label]]
  /\ UNCHANGED <<bootVars, task_table, task_count, filled, deleted, created>>

(* del_task, as do_turnoff calls it; nothing gives the task's pages back.  *)
DelTask(id) ==
  /\ creating = Nobody /\ task_table[id] # NOBLOCK
  /\ task_table' = [task_table EXCEPT ![id] = NOBLOCK]
  /\ deleted' = deleted \cup {task_table[id]}
  /\ UNCHANGED <<bootVars, pageVars, task_count, creating, filled, created>>

Roles == {"pgd", "pte", "tcb", "task_addr"}
Callers == Holders \ (Tasks \X Roles)

(* Others use pages as well.                                               *)
Others ==
  /\ step = "running" /\ creating = Nobody
  /\ \E o \in Callers :
       \/ \E order \in Orders : \/ GetFreePages(o, order)
                                \/ GetFreePagesNoMemory(o, order)
                                \/ GetFreePagesRefused(o, order)
       \/ FreePages(o)
  /\ UNCHANGED <<bootVars, taskVars>>

Boot ==
  /\ BootmemInit \/ PagingStart \/ PagingEntry \/ WriteTables \/ TakeMapPage \/ InitMemMap
  /\ UNCHANGED taskVars

TaskNext ==
  \/ Boot \/ Others
  \/ \E k \in Tasks : CreateStart(k)
  \/ \E role \in Roles : CreatePage(role)
  \/ \E label \in {"err_task", "err_tcb", "err_pte", "err_pgd"} : GiveBack(label)
  \/ AddTask \/ AddTaskFails \/ FillTask
  \/ \E id \in Pids : DelTask(id)

TaskSpec == TaskInit /\ [][TaskNext]_<<bootVars, pageVars, taskVars>>

-----------------------------------------------------------------------------
TaskTypeOK ==
  /\ BootTypeOK
  /\ task_table \in [Pids -> Tasks \cup {NOBLOCK}] /\ task_count \in Nat
  /\ filled \subseteq Tasks /\ deleted \subseteq Tasks

InTable == {task_table[l] : l \in Pids} \ {NOBLOCK}

(* process.c:257: a create_task that fails gives every page back: pages    *)
(* are held only for tasks of the table, for tasks that were deleted, and  *)
(* for the one that is being created.                                      *)
FailedGivesBack ==
  \A k \in Tasks, role \in Roles :
    held[<<k, role>>] # NOBLOCK => k \in InTable \cup deleted \cup {creating.task}

(* process.c:249: the counted tasks are in the table or were deleted, no   *)
(* task is in it twice and none is lost from it.                           *)
TaskCountExact ==
  /\ filled = (InTable \cup deleted) \ {k \in {creating.task} : k \notin filled}
  /\ task_count = Cardinality(filled)
  /\ \A l, m \in Pids : l # m /\ task_table[l] # NOBLOCK => task_table[l] # task_table[m]

=============================================================================
