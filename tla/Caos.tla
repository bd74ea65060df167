-------------------------------- MODULE Caos --------------------------------
(***************************************************************************)
(* caos32 once start_init has entered user mode: the round-robin scheduler *)
(* (sched.c), the interrupt lines (init_irq.c, irq.asm), the keyboard      *)
(* driver (keyboard.c) and the system calls that reach it (syscall.c).     *)
(*                                                                         *)
(* The processor runs one thing at a time: the top of stack, a system call *)
(* or an interrupt handler, or with an empty stack the user code of task   *)
(* cur_task.  System calls go through a trap gate and handlers execute     *)
(* sti, so an interrupt can come between any two steps.  A handler begins  *)
(* with interrupts off until do_irq has masked its line.                   *)
(***************************************************************************)
EXTENDS Integers, Sequences

CONSTANTS
  NULL,
  MAX_TASK,      \* size of task_table
  KEY_INPUT_MAX, \* size of a task's key buffer
  MaxKeys,       \* bound: the keys the user hits
  Calls,         \* the system calls the foreground task makes
  Contexts       \* bound: user contexts are told apart modulo this number

ASSUME SizesAssumption ==
  /\ MAX_TASK \in Nat /\ MAX_TASK >= 3 /\ KEY_INPUT_MAX \in Nat \ {0} /\ MaxKeys \in Nat
  /\ Contexts \in Nat \ {0}
  /\ NULL \notin 0..(MAX_TASK - 1) /\ NULL \notin {"timer_isr", "keyboard_isr"}
ASSUME CallsAssumption == Calls \subseteq {"open", "close", "read", "turnoff"}

TIMER == 0
KEYBOARD == 1
Lines == {TIMER, KEYBOARD}
Pids == 0..(MAX_TASK - 1)
fore_task == 0 \* set_foreground(task_table[0]), the task that runs init

VARIABLES
  irq_mask, irqhandler, \* the masked lines, the handler of each line
  stack,        \* what the processor is in, the interrupted below
  task_table, task_count, cur_task, schedule_enable,
  thread,       \* of each task: the saved context
  regs,         \* the context of the user code that runs or was interrupted
  key_input,    \* the first key_offset keys in the foreground task's buffer
  keys,         \* how many keys were hit; key number n is the n-th
  delivered,    \* history: the last key read has returned, or 0
  context,      \* history: the context each task was in when it ran last
  halted        \* why the machine went wild, or "no"

irqVars  == <<irq_mask, irqhandler>>
taskVars == <<task_table, task_count, cur_task, schedule_enable, thread, regs, context>>
keyVars  == <<key_input, keys>>
vars == <<irqVars, stack, taskVars, keyVars, delivered, halted>>

-----------------------------------------------------------------------------
InUser == stack = <<>> /\ halted = "no"
Depth  == Len(stack)
Top    == stack[Depth]
Below  == SubSeq(stack, 1, Depth - 1)
OnStack(fn) == \E i \in 1..Depth : stack[i].fn = fn

Frame(fn, pc) == [fn |-> fn, pc |-> pc, mask |-> {}, buf |-> <<>>]
Push(fn, pc)  == stack' = Append(stack, Frame(fn, pc))
At(pc)        == stack # <<>> /\ halted = "no" /\ Top.pc = pc
Goto(pc)      == stack' = Append(Below, [Top EXCEPT !.pc = pc])
Return        == stack' = Below
ReadMaskGoto(pc) == stack' = Append(Below, [Top EXCEPT !.pc = pc, !.mask = irq_mask])

LineOf(fn) == IF fn = "timer" THEN TIMER ELSE KEYBOARD

(* start_init: up to three tasks were created, the timer runs.             *)
Init ==
  /\ irq_mask = {KEYBOARD}
  /\ irqhandler = [n \in Lines |-> IF n = TIMER THEN "timer_isr" ELSE "ignore"]
  /\ stack = <<>>
  /\ task_count \in 1..3
  /\ task_table = [p \in Pids |-> IF p < task_count THEN p ELSE NULL]
  /\ cur_task = 0 /\ schedule_enable = TRUE
  /\ thread = [p \in Pids |-> 0] /\ regs = 0
  /\ key_input = <<>>
  /\ keys = 0 /\ delivered = 0
  /\ context = [p \in Pids |-> 0]
  /\ halted = "no"

-----------------------------------------------------------------------------
(* User code: it computes, and the foreground task makes system calls; the *)
(* shell makes none after turnoff.                                         *)
UserStep ==
  /\ InUser
  /\ regs' = (regs + 1) % Contexts
  /\ context' = [context EXCEPT ![cur_task] = regs']
  /\ UNCHANGED <<irqVars, stack, task_table, task_count, cur_task, schedule_enable,
                 thread, keyVars, delivered, halted>>

SystemCall(c) ==
  /\ InUser /\ cur_task = fore_task /\ schedule_enable
  /\ Push(c, c)
  /\ UNCHANGED <<irqVars, taskVars, keyVars, delivered, halted>>

-----------------------------------------------------------------------------
(* An interrupt: the entry of irq.asm and do_irq up to its sti.  In the    *)
(* window of schedule the stack pointer is in the middle of the next       *)
(* task's task_struct: what the entry pushes overwrites the fields below   *)
(* thread, cr3 and key_offset among them, and nothing is known any more.   *)
InWindow == stack # <<>> /\ Top.pc = "window"

Interrupt(fn) ==
  /\ halted = "no"
  /\ LineOf(fn) \notin irq_mask
  /\ irq_mask' = irq_mask \cup {LineOf(fn)}
  /\ Push(fn, "isr")
  /\ halted' = IF InWindow THEN "tcb" ELSE "no"
  /\ UNCHANGED <<irqhandler, taskVars, keyVars, delivered>>

(* The timer's period is long against its handler: ticks do not nest.      *)
Tick == ~OnStack("timer") /\ Interrupt("timer")
Key  == keys < MaxKeys /\ Interrupt("keyboard")

(* handle_irq calls the handler of the line, whatever it is; then end_irq  *)
(* reads the mask.                                                         *)
TimerIsr ==
  /\ At("isr") /\ irqhandler[LineOf(Top.fn)] = "timer_isr"
  /\ ReadMaskGoto("end_irq")
  /\ UNCHANGED <<irqVars, taskVars, keyVars, delivered, halted>>

MissingIsr ==
  /\ At("isr") /\ irqhandler[LineOf(Top.fn)] = NULL
  /\ halted' = "handler"
  /\ UNCHANGED <<irqVars, stack, taskVars, keyVars, delivered>>

key_offset == Len(key_input)

(* Mutant: the key is stored whatever room there is.                       *)
InsertAnyway == key_input' = Append(key_input, keys')

(* key_buffer_insert drops what does not fit.                              *)
key_buffer_insert ==
  key_input' = IF key_offset < KEY_INPUT_MAX THEN Append(key_input, keys') ELSE key_input

KeyboardIsr ==
  /\ At("isr") /\ irqhandler[LineOf(Top.fn)] = "keyboard_isr"
  /\ keys' = keys + 1
  /\ key_buffer_insert
  /\ ReadMaskGoto("end_irq")
  /\ UNCHANGED <<irqVars, taskVars, delivered, halted>>

(* enable_irq and disable_irq read the mask, change it and write it back.  *)
ReadMask(pc, next) ==
  /\ At(pc)
  /\ ReadMaskGoto(next)
  /\ UNCHANGED <<irqVars, taskVars, keyVars, delivered, halted>>

(* Mutant: the bit is not cleared.                                         *)
KeepMasked(pc, next) ==
  /\ At(pc)
  /\ irq_mask' = Top.mask
  /\ Goto(next)
  /\ UNCHANGED <<irqhandler, taskVars, keyVars, delivered, halted>>

enable_irq(pc, next) ==
  /\ At(pc)
  /\ irq_mask' = Top.mask \ {LineOf(Top.fn)}
  /\ Goto(next)
  /\ UNCHANGED <<irqhandler, taskVars, keyVars, delivered, halted>>

disable_irq(pc, next) ==
  /\ At(pc)
  /\ irq_mask' = Top.mask \cup {LineOf(Top.fn)}
  /\ Goto(next)
  /\ UNCHANGED <<irqhandler, taskVars, keyVars, delivered, halted>>

(* end_irq                                                                 *)
EndIrq == enable_irq("end_irq", "leave")

-----------------------------------------------------------------------------
(* Mutants of the scheduler.                                               *)

(* The commented-out test: the table wraps at its end.                     *)
NextAtTableEnd == IF cur_task = MAX_TASK - 1 THEN 0 ELSE cur_task + 1

(* The last task is never followed by another.                             *)
NextStuck == IF cur_task = task_count - 1 THEN cur_task ELSE cur_task + 1

(* Interrupted kernel code is switched as well.                            *)
AnyCode == TRUE

(* The context is saved for the task that comes next.                      *)
SavedFor(next) == next

-----------------------------------------------------------------------------
(* schedule: only for a tick that interrupted user code.                   *)
InterruptedUser == Depth = 1
NextTask == IF cur_task = task_count - 1 THEN 0 ELSE cur_task + 1
Saver(next) == cur_task

LeaveIrq ==
  /\ At("leave")
  /\ Top.fn = "keyboard" \/ ~schedule_enable \/ ~InterruptedUser
  /\ Return
  /\ UNCHANGED <<irqVars, taskVars, keyVars, delivered, halted>>

Schedule ==
  /\ At("leave")
  /\ Top.fn = "timer" /\ schedule_enable /\ InterruptedUser
  /\ cur_task' = NextTask
  /\ \/ /\ task_table[cur_task'] # NULL
        /\ thread' = [thread EXCEPT ![Saver(cur_task')] = IF Depth = 1 THEN regs ELSE NULL]
        /\ Goto("window") /\ UNCHANGED halted
     \/ /\ task_table[cur_task'] = NULL
        /\ halted' = "next"
        /\ UNCHANGED <<thread, stack>>
  /\ UNCHANGED <<irqVars, task_table, task_count, schedule_enable, regs, context,
                 keyVars, delivered>>

(* The registers are popped from the next task's thread, down to iret.     *)
Resume ==
  /\ At("window")
  /\ regs' = thread[cur_task]
  /\ Return
  /\ UNCHANGED <<irqVars, task_table, task_count, cur_task, schedule_enable, thread,
                 context, keyVars, delivered, halted>>

-----------------------------------------------------------------------------
(* keyboard_open and keyboard_close                                        *)
OpenRegister ==
  /\ At("open")
  /\ irqhandler' = [irqhandler EXCEPT ![KEYBOARD] = "keyboard_isr"]
  /\ Goto("open_enable")
  /\ UNCHANGED <<irq_mask, taskVars, keyVars, delivered, halted>>

Open == OpenRegister \/ ReadMask("open_enable", "open_write") \/ enable_irq("open_write", "end")

CloseUnregister ==
  /\ At("close")
  /\ irqhandler' = [irqhandler EXCEPT ![KEYBOARD] = NULL]
  /\ Goto("close_disable")
  /\ UNCHANGED <<irq_mask, taskVars, keyVars, delivered, halted>>

Close == CloseUnregister \/ ReadMask("close_disable", "close_write")
           \/ disable_irq("close_write", "end")

(* keyboard_read copies while there are keys it has not copied ...         *)
ReadCopy ==
  /\ At("read")
  /\ Len(Top.buf) < key_offset
  /\ stack' = Append(Below, [Top EXCEPT !.buf = Append(@, key_input[Len(@) + 1])])
  /\ UNCHANGED <<irqVars, taskVars, keyVars, delivered, halted>>

ReadAll ==
  /\ At("read")
  /\ Len(Top.buf) >= key_offset
  /\ Goto("read_reset")
  /\ UNCHANGED <<irqVars, taskVars, keyVars, delivered, halted>>

LastOf(buf) == IF buf = <<>> THEN delivered ELSE buf[Len(buf)]

(* Mutant: the keys stay in the buffer.                                    *)
ReadKeep ==
  /\ At("read_reset")
  /\ delivered' = LastOf(Top.buf)
  /\ Return
  /\ UNCHANGED <<irqVars, taskVars, keyVars, halted>>

(* ... then empties the buffer and returns how many it copied.             *)
ReadReset ==
  /\ At("read_reset")
  /\ key_input' = <<>>
  /\ delivered' = LastOf(Top.buf)
  /\ Return
  /\ UNCHANGED <<irqVars, taskVars, keys, halted>>

(* do_turnoff: two deletions, then the scheduler is stopped.  Its cli ends *)
(* with the iret of the call.                                              *)
del_task(pc, id, next) ==
  /\ At(pc)
  /\ task_table' = [task_table EXCEPT ![id] = NULL]
  /\ Goto(next)
  /\ UNCHANGED <<irqVars, task_count, cur_task, schedule_enable, thread, regs,
                 context, keyVars, delivered, halted>>

stop_scheduler ==
  /\ At("turnoff_stop")
  /\ schedule_enable' = FALSE
  /\ Goto("end")
  /\ UNCHANGED <<irqVars, task_table, task_count, cur_task, thread, regs, context,
                 keyVars, delivered, halted>>

Turnoff == del_task("turnoff", 1, "turnoff_2") \/ del_task("turnoff_2", 2, "turnoff_stop")
             \/ stop_scheduler

LeaveCall ==
  /\ At("end")
  /\ Return
  /\ UNCHANGED <<irqVars, taskVars, keyVars, delivered, halted>>

-----------------------------------------------------------------------------
Handler == TimerIsr \/ MissingIsr \/ KeyboardIsr \/ EndIrq \/ LeaveIrq \/ Schedule \/ Resume
Call    == Open \/ Close \/ ReadCopy \/ ReadAll \/ ReadReset \/ Turnoff \/ LeaveCall

Execute == Handler \/ Call

Halted == halted # "no" /\ UNCHANGED vars

Next == UserStep \/ (\E c \in Calls : SystemCall(c)) \/ Tick \/ Key \/ Execute \/ Halted

Spec == Init /\ [][Next]_vars

(* The processor executes: every handler ends, and between two ticks the   *)
(* code they interrupt gets on.  The clock is not in step with the calls   *)
(* of the foreground task: some tick meets user code.                      *)
FairSpec == /\ Spec
            /\ WF_vars(Execute)
            /\ SF_vars(~OnStack("timer") /\ Execute)
            /\ SF_vars(InUser /\ Tick)

-----------------------------------------------------------------------------
CaosTypeOK ==
  /\ irq_mask \subseteq Lines
  /\ irqhandler \in [Lines -> {"timer_isr", "keyboard_isr", "ignore", NULL}]
  /\ \A i \in 1..Depth : /\ stack[i].mask \subseteq Lines
                         /\ Len(stack[i].buf) <= KEY_INPUT_MAX
  /\ task_table \in [Pids -> Pids \cup {NULL}]
  /\ task_count \in 1..MAX_TASK /\ cur_task \in Pids /\ schedule_enable \in BOOLEAN
  /\ thread \in [Pids -> 0..(Contexts - 1) \cup {NULL}]
  /\ regs \in 0..(Contexts - 1) \cup {NULL}
  /\ key_input \in Seq(1..MaxKeys) /\ key_offset <= KEY_INPUT_MAX
  /\ keys \in 0..MaxKeys /\ delivered \in 0..MaxKeys
  /\ halted \in {"no", "handler", "next", "tcb"}

(* init_irq.c:139: "it restore masking bit".  However interrupts nested,   *)
(* user code runs with exactly the lines unmasked that have a handler.     *)
MaskRestored ==
  InUser => irq_mask = {n \in Lines : irqhandler[n] \notin {"timer_isr", "keyboard_isr"}}

(* A task goes on in the context it was interrupted in.                    *)
ContextsKept ==
  /\ InUser => regs = context[cur_task]
  /\ InUser => \A p \in Pids \ {cur_task} : thread[p] = context[p]

(* schedule never switches to an empty entry of the table, though entries  *)
(* are deleted while ticks come, and code of a deleted task does not run   *)
(* again.                                                                  *)
OnlyTasksRun ==
  /\ halted # "next"
  /\ InUser => task_table[cur_task] # NULL

(* What read copies, with keys coming in between any two of its steps, are *)
(* keys in the order they were hit, none read before.                      *)
KeysInOrder ==
  \A n \in 1..Depth : \A i \in 1..Len(stack[n].buf) :
    /\ stack[n].buf[i] > delivered
    /\ i > 1 => stack[n].buf[i] > stack[n].buf[i - 1]

(* process.h:18 "Each task has a kernel-mode stack of one page size":       *)
(* interrupt handlers push on it and not on the task_struct.               *)
OnKernelStack == halted # "tcb"

(* Every task of the table runs again and again until the power is off.    *)
EveryTaskRuns ==
  \A p \in Pids : task_table[p] # NULL ~>
    (InUser /\ cur_task = p) \/ ~schedule_enable \/ halted # "no"

=============================================================================
