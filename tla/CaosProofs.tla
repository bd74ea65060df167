------------------------------ MODULE CaosProofs ------------------------------
(***************************************************************************)
(* Theorems about the running kernel, for any number of tasks and keys, a  *)
(* buffer of any size, and interrupts nested to any depth.                 *)
(***************************************************************************)
EXTENDS Caos, SequenceTheorems, TLAPS

Interrupts == {"timer", "keyboard"}

(* What can be on the stack, and where in it.                              *)
Steps ==
  (Interrupts \X {"isr", "end_irq", "leave"}) \cup {<<"timer", "window">>}
    \cup ({"open"} \X {"open", "open_enable", "open_write", "end"})
    \cup ({"close"} \X {"close", "close_disable", "close_write", "end"})
    \cup ({"read"} \X {"read", "read_reset"})
    \cup ({"turnoff"} \X {"turnoff", "turnoff_2", "turnoff_stop", "end"})

Pcs ==
  {"isr", "end_irq", "leave", "window", "open", "open_enable", "open_write", "end", "close",
   "close_disable", "close_write", "read", "read_reset", "turnoff", "turnoff_2", "turnoff_stop"}

Frames == [fn   : {"timer", "keyboard", "open", "close", "read", "turnoff"},
           pc   : Pcs,
           mask : SUBSET Lines,
           buf  : Seq(1..MaxKeys)]

StackOK ==
  /\ stack \in Seq(Frames)
  /\ \A i \in 1..Depth :
       /\ <<stack[i].fn, stack[i].pc>> \in Steps
       /\ i > 1 => stack[i].fn \in Interrupts
       /\ stack[i].fn # "read" => stack[i].buf = <<>>
  /\ \A i \in 1..Depth : stack[i].pc = "window" => i = 1 /\ (halted = "no" => Depth = 1)

(* Where the code is that the interrupts on the stack have interrupted.    *)
Bottom == IF stack = <<>> THEN "user" ELSE stack[1].pc
InCall == stack # <<>> /\ stack[1].fn \notin Interrupts

-----------------------------------------------------------------------------
(* The masks.  A handler's line is masked until end_irq has written.       *)
ActiveAt(i) == stack[i].pc \in {"isr", "end_irq"}
Active(i)   == {LineOf(stack[j].fn) : j \in {k \in (i + 1)..Depth : ActiveAt(k)}}

(* The mask that step i of the stack finds when those above have ended.    *)
MaskFor(i) == irq_mask \ Active(i)

Unhandled == {n \in Lines : irqhandler[n] \notin {"timer_isr", "keyboard_isr"}}

ActiveInv ==
  /\ Active(0) \subseteq irq_mask
  /\ \A i, j \in 1..Depth : ActiveAt(i) /\ ActiveAt(j) /\ i # j =>
       LineOf(stack[i].fn) # LineOf(stack[j].fn)

SavedMasks ==
  \A i \in 1..Depth : stack[i].pc \in {"end_irq", "open_write", "close_write"} =>
    stack[i].mask = MaskFor(i)

(* What user code finds, with a device half opened or half closed at pc.   *)
Opening(pc) == pc \in {"open_enable", "open_write"}
Closing(pc) == pc \in {"close_disable", "close_write"}

UserMask(pc) ==
  /\ Opening(pc) => irqhandler[KEYBOARD] = "keyboard_isr" /\ MaskFor(0) \ {KEYBOARD} = Unhandled
  /\ Closing(pc) => irqhandler[KEYBOARD] = NULL /\ MaskFor(0) \cup {KEYBOARD} = Unhandled
  /\ ~Opening(pc) /\ ~Closing(pc) => MaskFor(0) = Unhandled

MaskInv ==
  /\ irq_mask \subseteq Lines
  /\ irqhandler \in [Lines -> {"timer_isr", "keyboard_isr", "ignore", NULL}]
  /\ ActiveInv
  /\ SavedMasks
  /\ UserMask(Bottom)

-----------------------------------------------------------------------------
(* The keys: what a read has copied is the front of the buffer.            *)
KeyInv ==
  /\ irqhandler[TIMER] # "keyboard_isr"
  /\ key_input \in Seq(1..MaxKeys) /\ key_offset <= KEY_INPUT_MAX
  /\ keys \in 0..MaxKeys /\ delivered \in 0..keys
  /\ \A i, j \in 1..key_offset : i < j => key_input[i] < key_input[j]
  /\ \A i \in 1..key_offset : delivered < key_input[i] /\ key_input[i] <= keys
  /\ \A n \in 1..Depth :
       /\ Len(stack[n].buf) <= key_offset
       /\ \A i \in 1..Len(stack[n].buf) : stack[n].buf[i] = key_input[i]
       /\ stack[n].fn = "keyboard" /\ stack[n].pc = "isr" => keys < MaxKeys

-----------------------------------------------------------------------------
(* The tasks and their contexts.                                           *)
TaskInv ==
  /\ task_table \in [Pids -> Pids \cup {NULL}]
  /\ task_count \in 1..MAX_TASK /\ schedule_enable \in BOOLEAN
  /\ cur_task \in 0..(task_count - 1)
  /\ halted \in {"no", "handler", "tcb"}
  /\ task_table[fore_task] # NULL
  /\ schedule_enable /\ Bottom \notin {"turnoff_2", "turnoff_stop"} =>
       \A p \in 0..(task_count - 1) : task_table[p] # NULL
  /\ InCall \/ ~schedule_enable => cur_task = fore_task

AnyContext == 0..(Contexts - 1)

ContextInv ==
  /\ thread \in [Pids -> AnyContext] /\ regs \in AnyContext /\ context \in [Pids -> AnyContext]
  /\ \A p \in Pids \ {cur_task} : thread[p] = context[p]
  /\ IF Bottom = "window" THEN thread[cur_task] = context[cur_task] ELSE regs = context[cur_task]

IInv == StackOK /\ MaskInv /\ KeyInv /\ TaskInv /\ ContextInv

-----------------------------------------------------------------------------
(* Stacks.                                                                 *)

LEMMA LastOrBefore ==
  ASSUME NEW d \in Nat \ {0}, NEW i \in 1..d
  PROVE  i = d \/ i \in 1..(d - 1)
OBVIOUS

LEMMA StepsMean ==
  ASSUME NEW f, NEW p, <<f, p>> \in Steps
  PROVE  /\ p \in Pcs /\ f \in {"timer", "keyboard", "open", "close", "read", "turnoff"}
         /\ p \in {"isr", "end_irq", "leave"} => f \in Interrupts
         /\ p = "window" => f = "timer"
         /\ p \in {"open", "open_enable", "open_write"} => f = "open"
         /\ p \in {"close", "close_disable", "close_write"} => f = "close"
         /\ p \in {"read", "read_reset"} => f = "read"
         /\ p \in {"turnoff", "turnoff_2", "turnoff_stop"} => f = "turnoff"
         /\ p = "end" => f \in {"open", "close", "turnoff"}
         /\ f \in Interrupts => p \in {"isr", "end_irq", "leave", "window"}
         /\ f = "read" => p \in {"read", "read_reset"}
BY DEF Steps, Interrupts, Pcs

LEMMA TopIs ==
  ASSUME StackOK, stack # <<>>
  PROVE  /\ Depth \in Nat \ {0} /\ Depth \in 1..Depth /\ 1 \in 1..Depth
         /\ Top \in Frames /\ <<Top.fn, Top.pc>> \in Steps
         /\ Top.fn \notin Interrupts => Depth = 1
         /\ Top.fn # "read" => Top.buf = <<>>
         /\ Bottom = stack[1].pc
<1>1. stack \in Seq(Frames)
  BY DEF StackOK
<1>2. Depth \in Nat \ {0} /\ Depth \in 1..Depth /\ 1 \in 1..Depth
  BY <1>1, EmptySeq DEF Depth
<1>3. Top \in Frames
  BY <1>1, <1>2, ElementOfSeq DEF Depth, Top
<1>4. /\ <<Top.fn, Top.pc>> \in Steps /\ (Depth > 1 => Top.fn \in Interrupts)
      /\ Top.fn # "read" => Top.buf = <<>>
  BY <1>2 DEF StackOK, Top
<1> QED BY <1>2, <1>3, <1>4 DEF Bottom

LEMMA FrameIs ==
  ASSUME NEW f \in Frames
  PROVE  /\ f = [fn |-> f.fn, pc |-> f.pc, mask |-> f.mask, buf |-> f.buf]
         /\ f.mask \in SUBSET Lines /\ f.buf \in Seq(1..MaxKeys)
         /\ \A pc \in Pcs : /\ [f EXCEPT !.pc = pc] \in Frames
                            /\ [f EXCEPT !.pc = pc].fn = f.fn
                            /\ [f EXCEPT !.pc = pc].pc = pc
                            /\ [f EXCEPT !.pc = pc].buf = f.buf
                            /\ [f EXCEPT !.pc = pc].mask = f.mask
         /\ \A pc \in Pcs, m \in SUBSET Lines :
              /\ [f EXCEPT !.pc = pc, !.mask = m] \in Frames
              /\ [f EXCEPT !.pc = pc, !.mask = m].fn = f.fn
              /\ [f EXCEPT !.pc = pc, !.mask = m].pc = pc
              /\ [f EXCEPT !.pc = pc, !.mask = m].buf = f.buf
              /\ [f EXCEPT !.pc = pc, !.mask = m].mask = m
BY DEF Frames

LEMMA Pushed ==
  ASSUME stack \in Seq(Frames), NEW f \in Frames, stack' = Append(stack, f)
  PROVE  /\ stack' \in Seq(Frames) /\ Depth \in Nat /\ Depth' = Depth + 1
         /\ stack'[Depth + 1] = f /\ \A i \in 1..Depth : stack'[i] = stack[i]
         /\ stack' # <<>>
BY AppendProperties, LenProperties DEF Depth

LEMMA Replaced ==
  ASSUME stack \in Seq(Frames), stack # <<>>, NEW f \in Frames, stack' = Append(Below, f)
  PROVE  /\ stack' \in Seq(Frames) /\ Depth \in Nat \ {0} /\ Depth' = Depth
         /\ stack'[Depth] = f /\ \A i \in 1..(Depth - 1) : stack'[i] = stack[i]
         /\ stack' # <<>>
<1>1. Depth \in Nat \ {0} /\ \A i \in 1..(Depth - 1) : stack[i] \in Frames
  BY EmptySeq, ElementOfSeq DEF Depth
<1>2. /\ Below \in Seq(Frames) /\ Len(Below) = Depth - 1
      /\ \A i \in 1..(Depth - 1) : Below[i] = stack[i]
  <2>1. /\ Below \in Seq(Frames)
        /\ Len(Below) = IF 1 <= Depth - 1 THEN (Depth - 1) - 1 + 1 ELSE 0
        /\ \A i \in 1..((Depth - 1) - 1 + 1) : Below[i] = stack[1 + i - 1]
    BY <1>1, SubSeqProperties DEF Below
  <2>2. Len(Below) = Depth - 1 /\ \A i \in 1..(Depth - 1) : i \in 1..((Depth - 1) - 1 + 1) /\ 1 + i - 1 = i
    BY <1>1, <2>1
  <2> QED BY <2>1, <2>2
<1> HIDE DEF Below
<1> QED BY <1>1, <1>2, AppendProperties DEF Depth

LEMMA Popped ==
  ASSUME stack \in Seq(Frames), stack # <<>>, stack' = Below
  PROVE  /\ stack' \in Seq(Frames) /\ Depth \in Nat \ {0} /\ Depth' = Depth - 1
         /\ \A i \in 1..(Depth - 1) : stack'[i] = stack[i]
         /\ stack' = <<>> <=> Depth = 1
<1>1. Depth \in Nat \ {0} /\ \A i \in 1..(Depth - 1) : stack[i] \in Frames
  BY EmptySeq, ElementOfSeq DEF Depth
<1>2. /\ Below \in Seq(Frames) /\ Len(Below) = Depth - 1
      /\ \A i \in 1..(Depth - 1) : Below[i] = stack[i]
  <2>1. /\ Below \in Seq(Frames)
        /\ Len(Below) = IF 1 <= Depth - 1 THEN (Depth - 1) - 1 + 1 ELSE 0
        /\ \A i \in 1..((Depth - 1) - 1 + 1) : Below[i] = stack[1 + i - 1]
    BY <1>1, SubSeqProperties DEF Below
  <2>2. Len(Below) = Depth - 1 /\ \A i \in 1..(Depth - 1) : i \in 1..((Depth - 1) - 1 + 1) /\ 1 + i - 1 = i
    BY <1>1, <2>1
  <2> QED BY <2>1, <2>2
<1>3. Below = <<>> <=> Len(Below) = 0
  BY <1>2, EmptySeq
<1> HIDE DEF Below
<1> QED BY <1>1, <1>2, <1>3 DEF Depth

(* A step that moves the top of the stack on keeps StackOK ...             *)
LEMMA StackGoto ==
  ASSUME StackOK, stack # <<>>, NEW f \in Frames, stack' = Append(Below, f),
         f.fn = Top.fn, <<f.fn, f.pc>> \in Steps,
         f.fn # "read" => f.buf = <<>>,
         f.pc = "window" => Depth = 1,
         halted = "no"
  PROVE  StackOK'
<1>1. /\ stack' \in Seq(Frames) /\ Depth \in Nat \ {0} /\ Depth' = Depth
      /\ stack'[Depth] = f /\ \A i \in 1..(Depth - 1) : stack'[i] = stack[i]
  BY Replaced DEF StackOK
<1>2. Depth > 1 => Top.fn \in Interrupts
  BY TopIs
<1>3. ASSUME NEW i \in 1..Depth
      PROVE  /\ <<stack'[i].fn, stack'[i].pc>> \in Steps
             /\ i > 1 => stack'[i].fn \in Interrupts
             /\ stack'[i].fn # "read" => stack'[i].buf = <<>>
             /\ stack'[i].pc = "window" => i = 1 /\ Depth = 1
  <2>1. CASE i = Depth
    BY <1>1, <1>2, <2>1
  <2>2. CASE i # Depth
    <3>1. i \in 1..(Depth - 1)
      BY <1>1, <2>2, LastOrBefore
    <3> QED BY <1>1, <3>1 DEF StackOK
  <2> QED BY <2>1, <2>2
<1> QED BY <1>1, <1>3 DEF StackOK

(* ... and so do one that ends it and one that pushes.                     *)
LEMMA StackPop ==
  ASSUME StackOK, stack # <<>>, stack' = Below, halted' = halted
  PROVE  StackOK'
<1>1. /\ stack' \in Seq(Frames) /\ Depth \in Nat \ {0} /\ Depth' = Depth - 1
      /\ \A i \in 1..(Depth - 1) : stack'[i] = stack[i]
  BY Popped DEF StackOK
<1>2. \A i \in 1..(Depth - 1) : i \in 1..Depth /\ Depth # 1
  BY <1>1
<1> QED BY <1>1, <1>2 DEF StackOK

LEMMA StackPush ==
  ASSUME StackOK, NEW fn, NEW pc, Push(fn, pc),
         <<fn, pc>> \in Steps, pc # "window",
         stack = <<>> \/ fn \in Interrupts,
         halted' = "no" => Bottom # "window"
  PROVE  StackOK' /\ Frame(fn, pc) \in Frames
<1>1. Frame(fn, pc) \in Frames /\ Frame(fn, pc).fn = fn /\ Frame(fn, pc).pc = pc
      /\ Frame(fn, pc).buf = <<>>
  BY StepsMean DEF Frame, Frames
<1> DEFINE f == Frame(fn, pc)
<1> HIDE DEF f
<1>2. /\ stack' \in Seq(Frames) /\ Depth \in Nat /\ Depth' = Depth + 1
      /\ stack'[Depth + 1] = f /\ \A i \in 1..Depth : stack'[i] = stack[i]
      /\ stack' # <<>>
  BY <1>1, Pushed DEF Push, StackOK, f
<1>3. f.fn = fn /\ f.pc = pc /\ f.buf = <<>>
  BY <1>1 DEF f
<1>4. Depth > 0 => fn \in Interrupts /\ Bottom = stack[1].pc
  BY <1>2, EmptySeq DEF StackOK, Depth, Bottom
<1>5. ASSUME NEW i \in 1..(Depth + 1)
      PROVE  /\ <<stack'[i].fn, stack'[i].pc>> \in Steps
             /\ i > 1 => stack'[i].fn \in Interrupts
             /\ stack'[i].fn # "read" => stack'[i].buf = <<>>
             /\ stack'[i].pc = "window" => i = 1 /\ halted' # "no"
  <2>1. CASE i = Depth + 1
    BY <1>2, <1>3, <1>4, <2>1
  <2>2. CASE i \in 1..Depth
    <3>1. stack'[i] = stack[i]
      BY <1>2, <2>2
    <3>2. /\ <<stack[i].fn, stack[i].pc>> \in Steps
          /\ i > 1 => stack[i].fn \in Interrupts
          /\ stack[i].fn # "read" => stack[i].buf = <<>>
          /\ stack[i].pc = "window" => i = 1
      BY <2>2 DEF StackOK
    <3>3. i = 1 => Bottom = stack[i].pc
      BY <1>2, <1>4, <2>2
    <3> QED BY <3>1, <3>2, <3>3
  <2> QED BY <1>2, <2>1, <2>2
<1> QED BY <1>1, <1>2, <1>5 DEF StackOK

-----------------------------------------------------------------------------
(* Masks.                                                                  *)

LEMMA ActiveSame ==
  ASSUME Depth \in Nat, Depth' \in Nat, Depth' <= Depth,
         \A i \in 1..Depth' : stack'[i].fn = stack[i].fn /\ (ActiveAt(i)' <=> ActiveAt(i)),
         \A i \in 1..Depth : i > Depth' => ~ActiveAt(i)
  PROVE  \A i \in 0..Depth : Active(i)' = Active(i)
<1> SUFFICES ASSUME NEW i \in 0..Depth PROVE Active(i)' = Active(i)
  OBVIOUS
<1>1. {k \in (i + 1)..Depth' : ActiveAt(k)'} = {k \in (i + 1)..Depth : ActiveAt(k)}
  OBVIOUS
<1>2. \A k \in {k \in (i + 1)..Depth : ActiveAt(k)} : LineOf(stack'[k].fn) = LineOf(stack[k].fn)
  OBVIOUS
<1> QED BY <1>1, <1>2 DEF Active

LEMMA MaskGoto ==
  ASSUME StackOK, MaskInv, UNCHANGED irqVars,
         stack # <<>>, NEW f \in Frames, stack' = Append(Below, f),
         f.fn = Top.fn, f.pc \in {"isr", "end_irq"} <=> Top.pc \in {"isr", "end_irq"},
         f.pc \in {"end_irq", "open_write", "close_write"} => f.mask = irq_mask,
         Opening(f.pc) <=> Opening(Top.pc), Closing(f.pc) <=> Closing(Top.pc)
  PROVE  MaskInv'
<1>1. /\ Depth \in Nat \ {0} /\ Depth' = Depth /\ stack'[Depth] = f
      /\ \A i \in 1..(Depth - 1) : stack'[i] = stack[i]
      /\ stack' # <<>> /\ stack \in Seq(Frames)
  BY Replaced DEF StackOK
<1>2. \A i \in 1..Depth : stack'[i].fn = stack[i].fn /\ (ActiveAt(i)' <=> ActiveAt(i))
  <2> SUFFICES ASSUME NEW i \in 1..Depth
               PROVE  stack'[i].fn = stack[i].fn /\ (ActiveAt(i)' <=> ActiveAt(i))
    OBVIOUS
  <2>1. CASE i = Depth
    BY <1>1, <2>1 DEF Top, ActiveAt
  <2>2. CASE i \in 1..(Depth - 1)
    BY <1>1, <2>2 DEF ActiveAt
  <2> QED BY <1>1, <2>1, <2>2, LastOrBefore
<1>3. \A i \in 0..Depth : Active(i)' = Active(i)
  <2>1. Depth \in Nat /\ Depth' \in Nat /\ Depth' <= Depth /\ \A i \in 1..Depth : ~(i > Depth')
    BY <1>1
  <2>2. \A i \in 1..Depth' : stack'[i].fn = stack[i].fn /\ (ActiveAt(i)' <=> ActiveAt(i))
    BY <1>1, <1>2
  <2> QED BY <2>1, <2>2, ActiveSame
<1>4. \A i \in 0..Depth : MaskFor(i)' = MaskFor(i)
  BY <1>3 DEF MaskFor, irqVars
<1>5. Active(Depth) = {}
  BY <1>1 DEF Active
<1>6. ActiveInv'
  <2>1. Active(0)' = Active(0) /\ irq_mask' = irq_mask
    BY <1>1, <1>3 DEF irqVars
  <2>2. \A i \in 1..Depth' : stack'[i].fn = stack[i].fn /\ (ActiveAt(i)' <=> ActiveAt(i)) /\ i \in 1..Depth
    BY <1>1, <1>2
  <2> QED BY <2>1, <2>2 DEF MaskInv, ActiveInv
<1>7. SavedMasks'
  <2>a. Depth' = Depth /\ \A i \in 1..Depth : MaskFor(i)' = MaskFor(i)
    BY <1>1, <1>4
  <2> SUFFICES ASSUME NEW i \in 1..Depth, stack'[i].pc \in {"end_irq", "open_write", "close_write"}
               PROVE  stack'[i].mask = MaskFor(i)
    BY <2>a DEF SavedMasks
  <2>1. CASE i = Depth
    BY <1>1, <1>5, <2>1 DEF MaskFor
  <2>2. CASE i \in 1..(Depth - 1)
    BY <1>1, <2>2 DEF MaskInv, SavedMasks
  <2> QED BY <1>1, <2>1, <2>2, LastOrBefore
<1>8. Bottom = stack[1].pc /\ Bottom' = stack'[1].pc
  BY <1>1 DEF Bottom
<1>9. (Opening(Bottom') <=> Opening(Bottom)) /\ (Closing(Bottom') <=> Closing(Bottom))
  <2>1. CASE Depth = 1
    BY <1>1, <1>8, <2>1 DEF Top
  <2>2. CASE Depth # 1
    BY <1>1, <1>8, <2>2
  <2> QED BY <2>1, <2>2
<1>10. UNCHANGED <<irq_mask, irqhandler, Unhandled, MaskFor(0)>>
  BY <1>1, <1>4 DEF irqVars, Unhandled
<1>11. UserMask(Bottom)'
  BY <1>9, <1>10 DEF MaskInv, UserMask
<1> QED BY <1>6, <1>7, <1>10, <1>11 DEF MaskInv

LEMMA MaskPop ==
  ASSUME StackOK, MaskInv, UNCHANGED irqVars,
         stack # <<>>, stack' = Below,
         Top.pc \notin {"isr", "end_irq"}, ~Opening(Top.pc), ~Closing(Top.pc)
  PROVE  MaskInv'
<1>1. /\ Depth \in Nat \ {0} /\ Depth' = Depth - 1
      /\ \A i \in 1..(Depth - 1) : stack'[i] = stack[i]
      /\ stack' = <<>> <=> Depth = 1
      /\ Depth' \in Nat /\ Depth' <= Depth
  BY Popped DEF StackOK
<1>2. \A i \in 1..(Depth - 1) : stack'[i].fn = stack[i].fn /\ (ActiveAt(i)' <=> ActiveAt(i))
  BY <1>1 DEF ActiveAt
<1>3. ~ActiveAt(Depth)
  BY DEF Top, ActiveAt
<1>4. \A i \in 0..Depth : Active(i)' = Active(i)
  BY <1>1, <1>2, <1>3, ActiveSame
<1>5. \A i \in 0..Depth : MaskFor(i)' = MaskFor(i)
  BY <1>4 DEF MaskFor, irqVars
<1>6. ActiveInv'
  BY <1>1, <1>2, <1>4 DEF MaskInv, ActiveInv, irqVars
<1>7. SavedMasks'
  BY <1>1, <1>5 DEF MaskInv, SavedMasks
<1>8. (Opening(Bottom') <=> Opening(Bottom)) /\ (Closing(Bottom') <=> Closing(Bottom))
  <2>1. CASE Depth = 1
    BY <1>1, <2>1 DEF Top, Bottom, Opening, Closing
  <2>2. CASE Depth # 1
    BY <1>1, <2>2 DEF Bottom
  <2> QED BY <2>1, <2>2
<1>9. UNCHANGED <<irq_mask, irqhandler, Unhandled, MaskFor(0)>>
  BY <1>1, <1>5 DEF irqVars, Unhandled
<1>10. UserMask(Bottom)'
  BY <1>8, <1>9 DEF MaskInv, UserMask
<1> QED BY <1>6, <1>7, <1>9, <1>10 DEF MaskInv

LEMMA MaskSame ==
  ASSUME MaskInv, UNCHANGED <<irqVars, stack>>
  PROVE  MaskInv'
<1>1. UNCHANGED <<irq_mask, irqhandler, stack>>
  BY DEF irqVars
<1>2. UNCHANGED <<Unhandled, Bottom, Depth>> /\ (UserMask(Bottom) => UserMask(Bottom)')
  BY <1>1 DEF Unhandled, Bottom, Depth, UserMask, MaskFor, Active, ActiveAt
<1>3. (ActiveInv => ActiveInv') /\ (SavedMasks => SavedMasks')
  BY <1>1 DEF ActiveInv, SavedMasks, MaskFor, Active, ActiveAt, Depth
<1> QED BY <1>1, <1>2, <1>3 DEF MaskInv

(* A system call begins.                                                   *)
LEMMA MaskCall ==
  ASSUME StackOK, MaskInv, UNCHANGED irqVars, stack = <<>>,
         NEW f \in Frames, stack' = Append(stack, f),
         f.pc \in {"open", "close", "read", "turnoff"}
  PROVE  MaskInv'
<1>1. /\ Depth = 0 /\ Depth' = 1 /\ stack' # <<>> /\ stack'[1] = f
  <2>1. Depth = 0 /\ stack \in Seq(Frames)
    BY DEF StackOK, Depth
  <2> QED BY <2>1, Pushed
<1>2. /\ Active(0) = {} /\ Active(0)' = {} /\ ~ActiveAt(1)'
  BY <1>1 DEF Active, ActiveAt
<1>3. UNCHANGED <<irq_mask, irqhandler, Unhandled, MaskFor(0)>>
  BY <1>2 DEF irqVars, Unhandled, MaskFor
<1>4. ActiveInv' /\ SavedMasks'
  <2>1. \A i \in 1..Depth' : i = 1
    BY <1>1
  <2> QED BY <1>1, <1>2, <2>1 DEF ActiveInv, SavedMasks
<1>5. Bottom = "user" /\ Bottom' = f.pc
  BY <1>1 DEF Bottom
<1>6. UserMask(Bottom)'
  BY <1>3, <1>5 DEF MaskInv, UserMask, Opening, Closing
<1> QED BY <1>3, <1>4, <1>6 DEF MaskInv

(* An interrupt comes: its line is masked, and its own mask apart nothing  *)
(* changes for those below it.                                             *)
LEMMA MaskInterrupt ==
  ASSUME StackOK, MaskInv, NEW fn \in Interrupts, LineOf(fn) \notin irq_mask,
         irq_mask' = irq_mask \cup {LineOf(fn)}, irqhandler' = irqhandler,
         NEW f \in Frames, f.fn = fn, f.pc = "isr",
         stack' = Append(stack, f)
  PROVE  MaskInv'
<1> DEFINE n == LineOf(fn)
<1>1. /\ Depth \in Nat /\ Depth' = Depth + 1 /\ stack'[Depth + 1] = f
      /\ \A i \in 1..Depth : stack'[i] = stack[i]
      /\ stack' # <<>> /\ stack \in Seq(Frames)
  BY Pushed DEF StackOK
<1>2. n \in Lines
  BY DEF LineOf, Lines
<1>3. /\ \A i \in 1..Depth : stack'[i].fn = stack[i].fn /\ (ActiveAt(i)' <=> ActiveAt(i))
      /\ ActiveAt(Depth)' /\ LineOf(stack'[Depth + 1].fn) = n
  <2>1. \A i \in 1..Depth : stack'[i].fn = stack[i].fn /\ (ActiveAt(i)' <=> ActiveAt(i))
    BY <1>1 DEF ActiveAt
  <2>2. ActiveAt(Depth)' /\ LineOf(stack'[Depth + 1].fn) = n
    BY <1>1 DEF ActiveAt
  <2> QED BY <2>1, <2>2
<1> HIDE DEF n
<1>4. ASSUME NEW i \in 0..Depth
      PROVE  Active(i)' = Active(i) \cup {n}
  <2>1. /\ (i + 1)..Depth' = ((i + 1)..Depth) \cup {Depth + 1}
        /\ \A k \in (i + 1)..Depth : k \in 1..Depth
    BY <1>1
  <2>2. \A k \in (i + 1)..Depth : /\ LineOf(stack'[k].fn) = LineOf(stack[k].fn)
                                 /\ ActiveAt(k)' <=> ActiveAt(k)
    BY <1>3, <2>1
  <2>3. {k \in (i + 1)..Depth' : ActiveAt(k)'} = {k \in (i + 1)..Depth : ActiveAt(k)} \cup {Depth + 1}
    <3>1. (Depth + 1 = Depth') /\ ActiveAt(Depth)' /\ Depth + 1 \notin (i + 1)..Depth
      BY <1>1, <1>3
    <3> DEFINE d == Depth + 1
               R == (i + 1)..Depth
    <3>2. stack'[d].pc \in {"isr", "end_irq"} /\ d \notin R /\ (i + 1)..Depth' = R \cup {d}
      BY <2>1, <3>1 DEF ActiveAt
    <3>3. \A k \in R : stack'[k].pc = stack[k].pc
      BY <1>1, <2>1
    <3> HIDE DEF d, R
    <3>4. {k \in R \cup {d} : stack'[k].pc \in {"isr", "end_irq"}}
            = {k \in R : stack[k].pc \in {"isr", "end_irq"}} \cup {d}
      BY <3>2, <3>3
    <3> QED BY <3>2, <3>4 DEF ActiveAt, d, R
  <2> DEFINE A == {k \in (i + 1)..Depth : ActiveAt(k)}
  <2>4. Active(i)' = {LineOf(stack'[k].fn) : k \in A \cup {Depth + 1}}
    BY <2>3 DEF Active
  <2>5. Active(i) = {LineOf(stack[k].fn) : k \in A}
    BY DEF Active
  <2>6. \A k \in A : LineOf(stack'[k].fn) = LineOf(stack[k].fn)
    BY <2>2
  <2> HIDE DEF A
  <2> QED BY <1>3, <2>4, <2>5, <2>6
<1>5. n \notin irq_mask /\ irq_mask' = irq_mask \cup {n}
  BY DEF n
<1>6. \A i \in 0..Depth : MaskFor(i)' = MaskFor(i)
  <2>1. \A i \in 0..Depth : n \notin MaskFor(i)
    BY <1>5 DEF MaskFor
  <2> QED BY <1>4, <1>5, <2>1 DEF MaskFor
<1>7. \A i \in 1..Depth : ActiveAt(i) => LineOf(stack[i].fn) # n
  <2>1. \A i \in 1..Depth : ActiveAt(i) => LineOf(stack[i].fn) \in Active(0)
    BY <1>1 DEF Active
  <2> QED BY <1>5, <2>1 DEF MaskInv, ActiveInv
<1>8. ActiveInv'
  <2>1. Active(0)' \subseteq irq_mask'
    BY <1>1, <1>4, <1>5 DEF MaskInv, ActiveInv
  <2>2. ASSUME NEW i \in 1..(Depth + 1), NEW j \in 1..(Depth + 1), i # j, ActiveAt(i)', ActiveAt(j)'
        PROVE  LineOf(stack'[i].fn) # LineOf(stack'[j].fn)
    <3>1. \A k \in 1..(Depth + 1) : k = Depth + 1 \/ k \in 1..Depth
      BY <1>1
    <3>2. CASE i \in 1..Depth /\ j \in 1..Depth
      BY <1>3, <2>2, <3>2 DEF MaskInv, ActiveInv
    <3>3. CASE i = Depth + 1 /\ j \in 1..Depth
      BY <1>3, <1>7, <2>2, <3>3
    <3>4. CASE j = Depth + 1 /\ i \in 1..Depth
      BY <1>3, <1>7, <2>2, <3>4
    <3> QED BY <2>2, <3>1, <3>2, <3>3, <3>4
  <2> QED BY <1>1, <2>1, <2>2 DEF ActiveInv
<1>9. SavedMasks'
  <2>1. \A k \in 1..(Depth + 1) : k = Depth + 1 \/ k \in 1..Depth
    BY <1>1
  <2>2. \A i \in 1..Depth : stack'[i].pc \in {"end_irq", "open_write", "close_write"} =>
          stack'[i].mask = MaskFor(i)'
    <3>1. \A i \in 1..Depth : i \in 0..Depth
      BY <1>1
    <3> QED BY <1>1, <1>6, <3>1 DEF MaskInv, SavedMasks
  <2> QED BY <1>1, <2>1, <2>2 DEF SavedMasks
<1>10. (Opening(Bottom') <=> Opening(Bottom)) /\ (Closing(Bottom') <=> Closing(Bottom))
  <2>1. CASE Depth = 0
    <3>1. Bottom = "user" /\ Bottom' = "isr"
      BY <1>1, <2>1, EmptySeq DEF Bottom, Depth
    <3> QED BY <3>1 DEF Opening, Closing
  <2>2. CASE Depth # 0
    <3>1. stack # <<>> /\ 1 \in 1..Depth
      BY <1>1, <2>2 DEF Depth
    <3> QED BY <1>1, <3>1 DEF Bottom
  <2> QED BY <2>1, <2>2
<1>11. UNCHANGED <<irqhandler, Unhandled, MaskFor(0)>>
  BY <1>1, <1>6 DEF Unhandled
<1>12. UserMask(Bottom)'
  BY <1>10, <1>11 DEF MaskInv, UserMask
<1>13. irq_mask' \subseteq Lines
  BY <1>2, <1>5 DEF MaskInv
<1> QED BY <1>8, <1>9, <1>11, <1>12, <1>13 DEF MaskInv

(* end_irq writes the mask that those below the handler had.               *)
LEMMA MaskEndIrq ==
  ASSUME StackOK, MaskInv, EndIrq
  PROVE  MaskInv'
<1> DEFINE n == LineOf(Top.fn)
           f == [Top EXCEPT !.pc = "leave"]
<1>1. stack # <<>> /\ Top.pc = "end_irq" /\ stack' = Append(Below, f) /\ irqhandler' = irqhandler
      /\ irq_mask' = Top.mask \ {n}
  BY DEF EndIrq, enable_irq, At, Goto
<1>2. Top \in Frames /\ Top.fn \in Interrupts
  BY <1>1, TopIs, StepsMean
<1>3. f \in Frames /\ f.fn = Top.fn /\ f.pc = "leave"
  <2>1. "leave" \in Pcs
    BY DEF Pcs
  <2> QED BY <1>2, <2>1, FrameIs
<1> HIDE DEF f
<1>4. /\ Depth \in Nat \ {0} /\ Depth' = Depth /\ stack'[Depth] = f
      /\ \A i \in 1..(Depth - 1) : stack'[i] = stack[i]
      /\ stack' # <<>> /\ stack \in Seq(Frames)
  BY <1>1, <1>3, Replaced DEF StackOK
<1>5. ActiveAt(Depth) /\ LineOf(stack[Depth].fn) = n /\ ~ActiveAt(Depth)'
  BY <1>1, <1>3, <1>4 DEF ActiveAt, Top
<1>6. \A i \in 1..(Depth - 1) : /\ stack'[i].fn = stack[i].fn /\ (ActiveAt(i)' <=> ActiveAt(i))
                                /\ i \in 1..Depth
  BY <1>4 DEF ActiveAt
<1> HIDE DEF n
<1>7. \A i \in 1..(Depth - 1) : ActiveAt(i) => LineOf(stack[i].fn) # n
  <2>1. Depth \in 1..Depth /\ \A i \in 1..(Depth - 1) : i # Depth
    BY <1>4
  <2> QED BY <1>5, <1>6, <2>1 DEF MaskInv, ActiveInv
<1>8. ASSUME NEW i \in 0..(Depth - 1)
      PROVE  Active(i)' = Active(i) \ {n} /\ n \in Active(i)
  <2>1. {k \in (i + 1)..Depth' : ActiveAt(k)'} = {k \in (i + 1)..(Depth - 1) : ActiveAt(k)}
    BY <1>4, <1>5, <1>6
  <2>2. {k \in (i + 1)..Depth : ActiveAt(k)} = {k \in (i + 1)..(Depth - 1) : ActiveAt(k)} \cup {Depth}
    BY <1>4, <1>5
  <2>3. \A k \in {k \in (i + 1)..(Depth - 1) : ActiveAt(k)} :
          LineOf(stack'[k].fn) = LineOf(stack[k].fn) /\ LineOf(stack[k].fn) # n
    <3>1. \A k \in (i + 1)..(Depth - 1) : k \in 1..(Depth - 1)
      BY <1>4
    <3> QED BY <1>6, <1>7, <3>1
  <2> QED BY <1>5, <2>1, <2>2, <2>3 DEF Active
<1>9. Top.mask = irq_mask
  <2>1. Depth \in 1..Depth /\ Active(Depth) = {}
    BY <1>4 DEF Active
  <2> QED BY <1>1, <2>1 DEF MaskInv, SavedMasks, MaskFor, Top
<1>10. irq_mask' = irq_mask \ {n}
  BY <1>1, <1>9 DEF n
<1>11. \A i \in 0..(Depth - 1) : MaskFor(i)' = MaskFor(i)
  BY <1>8, <1>10 DEF MaskFor
<1>12. 0 \in 0..(Depth - 1)
  BY <1>4
<1>13. ActiveInv'
  <2>1. Active(0)' \subseteq irq_mask'
    BY <1>8, <1>10, <1>12 DEF MaskInv, ActiveInv
  <2>2. \A i \in 1..Depth' : ActiveAt(i)' => i \in 1..(Depth - 1)
    BY <1>4, <1>5, LastOrBefore
  <2> QED BY <1>6, <2>1, <2>2 DEF MaskInv, ActiveInv
<1>14. SavedMasks'
  <2>1. \A i \in 1..(Depth - 1) : stack'[i].pc \in {"end_irq", "open_write", "close_write"} =>
          stack'[i].mask = MaskFor(i)'
    <3>1. \A i \in 1..(Depth - 1) : i \in 0..(Depth - 1) /\ i \in 1..Depth
      BY <1>4
    <3> QED BY <1>4, <1>11, <3>1 DEF MaskInv, SavedMasks
  <2> QED BY <1>3, <1>4, <2>1, LastOrBefore DEF SavedMasks
<1>15. (Opening(Bottom') <=> Opening(Bottom)) /\ (Closing(Bottom') <=> Closing(Bottom))
  <2>1. CASE Depth = 1
    <3>1. Bottom = "end_irq" /\ Bottom' = "leave"
      BY <1>1, <1>3, <1>4, <2>1 DEF Bottom, Top
    <3> QED BY <3>1 DEF Opening, Closing
  <2>2. CASE Depth # 1
    <3>1. 1 \in 1..(Depth - 1)
      BY <1>4, <2>2
    <3> QED BY <1>1, <1>4, <3>1 DEF Bottom
  <2> QED BY <2>1, <2>2
<1>16. UNCHANGED <<irqhandler, Unhandled, MaskFor(0)>>
  BY <1>1, <1>11, <1>12 DEF Unhandled
<1>17. UserMask(Bottom)'
  BY <1>15, <1>16 DEF MaskInv, UserMask
<1>18. irq_mask' \subseteq Lines
  BY <1>10 DEF MaskInv
<1> QED BY <1>13, <1>14, <1>16, <1>17, <1>18 DEF MaskInv

(* A step of open or close, which is alone on the stack.                   *)
LEMMA MaskDevice ==
  ASSUME StackOK, stack # <<>>, Top.fn \notin Interrupts,
         NEW f \in Frames, stack' = Append(Below, f), f.fn = Top.fn, <<f.fn, f.pc>> \in Steps,
         irq_mask' \subseteq Lines,
         irqhandler' \in [Lines -> {"timer_isr", "keyboard_isr", "ignore", NULL}],
         f.pc \in {"open_write", "close_write"} => f.mask = irq_mask',
         Opening(f.pc) => irqhandler'[KEYBOARD] = "keyboard_isr" /\ irq_mask' \ {KEYBOARD} = Unhandled',
         Closing(f.pc) => irqhandler'[KEYBOARD] = NULL /\ irq_mask' \cup {KEYBOARD} = Unhandled',
         ~Opening(f.pc) /\ ~Closing(f.pc) => irq_mask' = Unhandled'
  PROVE  MaskInv'
<1>1. Depth = 1 /\ Depth' = 1 /\ stack'[1] = f /\ stack' # <<>>
  BY TopIs, Replaced DEF StackOK
<1>2. f.pc \notin {"isr", "end_irq"}
  BY StepsMean
<1>3. \A i \in 1..Depth' : i = 1 /\ ~ActiveAt(i)'
  BY <1>1, <1>2 DEF ActiveAt
<1>4. Active(0)' = {} /\ Active(1)' = {}
  BY <1>1, <1>3 DEF Active
<1>5. MaskFor(0)' = irq_mask' /\ MaskFor(1)' = irq_mask'
  BY <1>4 DEF MaskFor
<1>6. ActiveInv' /\ SavedMasks'
  BY <1>1, <1>2, <1>3, <1>4, <1>5 DEF ActiveInv, SavedMasks
<1>7. Bottom' = f.pc
  BY <1>1 DEF Bottom
<1>8. UserMask(Bottom)'
  BY <1>5, <1>7 DEF UserMask
<1> QED BY <1>6, <1>8 DEF MaskInv

(* What MaskInv says of a call that runs.                                  *)
LEMMA MaskAlone ==
  ASSUME StackOK, MaskInv, stack # <<>>, Top.fn \notin Interrupts
  PROVE  /\ UserMask(Top.pc) /\ MaskFor(0) = irq_mask
         /\ Top.pc \in {"open_write", "close_write"} => Top.mask = irq_mask
<1>1. Depth = 1 /\ Bottom = Top.pc /\ Top = stack[1]
  BY TopIs DEF Top
<1>2. ~ActiveAt(1)
  BY <1>1, StepsMean, TopIs DEF ActiveAt
<1>3. Active(0) = {} /\ Active(1) = {}
  BY <1>1, <1>2 DEF Active
<1>4. MaskFor(0) = irq_mask /\ MaskFor(1) = irq_mask
  BY <1>3 DEF MaskFor
<1>5. Top.pc \in {"open_write", "close_write"} => Top.mask = MaskFor(1)
  <2>1. 1 \in 1..Depth
    BY <1>1
  <2> QED BY <1>1, <2>1 DEF MaskInv, SavedMasks
<1> QED BY <1>1, <1>4, <1>5 DEF MaskInv

-----------------------------------------------------------------------------
(* The steps of the specification.                                         *)

LEMMA StepsAre ==
  /\ \A f \in Interrupts : <<f, "isr">> \in Steps /\ <<f, "end_irq">> \in Steps /\ <<f, "leave">> \in Steps
  /\ <<"timer", "window">> \in Steps
  /\ \A c \in {"open", "close", "read", "turnoff"} : <<c, c>> \in Steps /\ c \notin Interrupts
  /\ \A p \in {"open_enable", "open_write", "end"} : <<"open", p>> \in Steps
  /\ \A p \in {"close_disable", "close_write", "end"} : <<"close", p>> \in Steps
  /\ <<"read", "read_reset">> \in Steps
  /\ \A p \in {"turnoff_2", "turnoff_stop", "end"} : <<"turnoff", p>> \in Steps
BY DEF Steps, Interrupts

LEMMA AtIs ==
  ASSUME StackOK, NEW pc, At(pc)
  PROVE  /\ stack # <<>> /\ halted = "no" /\ Top.pc = pc /\ Top \in Frames
         /\ pc \in {"isr", "end_irq", "leave"} => Top.fn \in Interrupts
         /\ pc = "window" => Top.fn = "timer"
         /\ pc \in {"open", "open_enable", "open_write"} => Top.fn = "open"
         /\ pc \in {"close", "close_disable", "close_write"} => Top.fn = "close"
         /\ pc \in {"read", "read_reset"} => Top.fn = "read"
         /\ pc \in {"turnoff", "turnoff_2", "turnoff_stop"} => Top.fn = "turnoff"
         /\ pc = "end" => Top.fn \in {"open", "close", "turnoff"}
BY TopIs, StepsMean DEF At

(* What Goto and ReadMaskGoto leave on the top of the stack.               *)
LEMMA GotoIs ==
  ASSUME StackOK, stack # <<>>, NEW pc, <<Top.fn, pc>> \in Steps, Goto(pc)
  PROVE  \E f \in Frames : /\ stack' = Append(Below, f)
                           /\ f.fn = Top.fn /\ f.pc = pc /\ f.mask = Top.mask /\ f.buf = Top.buf
<1>1. pc \in Pcs /\ Top \in Frames
  BY TopIs, StepsMean
<1> DEFINE f == [Top EXCEPT !.pc = pc]
<1>2. f \in Frames /\ f.fn = Top.fn /\ f.pc = pc /\ f.mask = Top.mask /\ f.buf = Top.buf
  BY <1>1, FrameIs
<1>3. stack' = Append(Below, f)
  BY DEF Goto
<1> QED BY <1>2, <1>3

LEMMA ReadMaskGotoIs ==
  ASSUME StackOK, stack # <<>>, NEW pc, <<Top.fn, pc>> \in Steps, ReadMaskGoto(pc), irq_mask \subseteq Lines
  PROVE  \E f \in Frames : /\ stack' = Append(Below, f)
                           /\ f.fn = Top.fn /\ f.pc = pc /\ f.mask = irq_mask /\ f.buf = Top.buf
<1>1. pc \in Pcs /\ Top \in Frames /\ irq_mask \in SUBSET Lines
  BY TopIs, StepsMean
<1> DEFINE f == [Top EXCEPT !.pc = pc, !.mask = irq_mask]
<1>2. f \in Frames /\ f.fn = Top.fn /\ f.pc = pc /\ f.mask = irq_mask /\ f.buf = Top.buf
  <2> DEFINE g == [Top EXCEPT !.pc = pc]
  <2>1. g \in Frames /\ g.fn = Top.fn /\ g.pc = pc /\ g.buf = Top.buf
    BY <1>1, FrameIs
  <2>2. f = [g EXCEPT !.mask = irq_mask]
    BY <1>1 DEF Frames
  <2> HIDE DEF f, g
  <2>3. g \in [fn : {"timer", "keyboard", "open", "close", "read", "turnoff"}, pc : Pcs,
               mask : SUBSET Lines, buf : Seq(1..MaxKeys)]
    BY <2>1 DEF Frames
  <2>4. [g EXCEPT !.mask = irq_mask] \in Frames
    BY <1>1, <2>3 DEF Frames
  <2> QED BY <2>1, <2>2, <2>3, <2>4
<1>3. stack' = Append(Below, f)
  BY DEF ReadMaskGoto
<1> QED BY <1>2, <1>3

LEMMA StackTo ==
  ASSUME StackOK, irq_mask \subseteq Lines, stack # <<>>, halted = "no",
         NEW pc, Goto(pc) \/ ReadMaskGoto(pc),
         <<Top.fn, pc>> \in Steps, pc = "window" => Depth = 1
  PROVE  StackOK'
<1>1. PICK f \in Frames : stack' = Append(Below, f) /\ f.fn = Top.fn /\ f.pc = pc /\ f.buf = Top.buf
  BY GotoIs, ReadMaskGotoIs
<1>2. Top.fn # "read" => Top.buf = <<>>
  BY TopIs
<1> QED BY <1>1, <1>2, StackGoto

(* keyboard_read: what ReadCopy leaves on the stack.                       *)
LEMMA ReadCopyIs ==
  ASSUME StackOK, KeyInv, ReadCopy
  PROVE  \E f \in Frames :
           /\ stack' = Append(Below, f) /\ f.fn = Top.fn /\ f.pc = Top.pc /\ f.mask = Top.mask
           /\ Len(Top.buf) + 1 \in 1..key_offset
           /\ f.buf = Append(Top.buf, key_input[Len(Top.buf) + 1])
<1>1. Top \in Frames /\ Top.buf \in Seq(1..MaxKeys) /\ Len(Top.buf) \in Nat
  <2>1. Top \in Frames
    BY AtIs DEF ReadCopy
  <2>2. Top.buf \in Seq(1..MaxKeys)
    BY <2>1, FrameIs
  <2> QED BY <2>1, <2>2, LenProperties
<1>2. Len(Top.buf) + 1 \in 1..key_offset
  BY <1>1 DEF ReadCopy, KeyInv, key_offset
<1> DEFINE k == key_input[Len(Top.buf) + 1]
           f == [Top EXCEPT !.buf = Append(Top.buf, k)]
<1>3. k \in 1..MaxKeys
  BY <1>2, ElementOfSeq DEF KeyInv, key_offset
<1>4. Append(Top.buf, k) \in Seq(1..MaxKeys)
  BY <1>1, <1>3, AppendProperties
<1>5. f \in Frames /\ f.fn = Top.fn /\ f.pc = Top.pc /\ f.mask = Top.mask /\ f.buf = Append(Top.buf, k)
  BY <1>1, <1>4 DEF Frames
<1>6. stack' = Append(Below, f)
  BY <1>1 DEF ReadCopy
<1> QED BY <1>2, <1>5, <1>6

LEMMA StackStep ==
  ASSUME SizesAssumption, CallsAssumption, IInv, [Next]_vars
  PROVE  StackOK'
<1> USE DEF IInv
<1>0. StackOK /\ irq_mask \subseteq Lines
  BY DEF MaskInv
<1>1. ASSUME UNCHANGED <<stack, halted>> PROVE StackOK'
  BY <1>0, <1>1 DEF StackOK, Depth
<1>2. ASSUME UNCHANGED vars \/ UserStep \/ Halted PROVE StackOK'
  BY <1>1, <1>2 DEF UserStep, Halted, vars
<1>3. ASSUME NEW c \in Calls, SystemCall(c) PROVE StackOK'
  <2>1. stack = <<>> /\ Push(c, c) /\ c \in {"open", "close", "read", "turnoff"}
    BY <1>3 DEF SystemCall, InUser, CallsAssumption
  <2>2. <<c, c>> \in Steps /\ c # "window" /\ Bottom # "window"
    BY <2>1, StepsAre DEF Bottom
  <2> QED BY <1>0, <2>1, <2>2, StackPush
<1>4. ASSUME NEW fn \in Interrupts, Interrupt(fn) PROVE StackOK'
  <2>1. <<fn, "isr">> \in Steps
    BY StepsAre
  <2>2. halted' = "no" => Bottom # "window"
    <3>1. CASE stack = <<>>
      BY <3>1 DEF Bottom
    <3>2. CASE stack # <<>>
      <4>1. Bottom = "window" => Depth = 1
        BY <1>0, <1>4, <3>2, TopIs DEF StackOK, Interrupt
      <4> QED BY <1>4, <3>2, <4>1 DEF Interrupt, InWindow, Top, Bottom
    <3> QED BY <3>1, <3>2
  <2> QED BY <1>0, <1>4, <2>1, <2>2, StackPush DEF Interrupt
<1>5. ASSUME TimerIsr \/ KeyboardIsr PROVE StackOK'
  <2>1. At("isr") /\ ReadMaskGoto("end_irq")
    BY <1>5 DEF TimerIsr, KeyboardIsr
  <2> QED BY <1>0, <2>1, AtIs, StepsAre, StackTo
<1>6. ASSUME MissingIsr PROVE StackOK'
  <2>1. stack' = stack /\ halted' # "no"
    BY <1>6 DEF MissingIsr
  <2> QED BY <1>0, <2>1 DEF StackOK, Depth
<1>7. ASSUME EndIrq PROVE StackOK'
  <2>1. At("end_irq") /\ Goto("leave")
    BY <1>7 DEF EndIrq, enable_irq
  <2> QED BY <1>0, <2>1, AtIs, StepsAre, StackTo
<1>8. ASSUME LeaveIrq \/ Resume \/ ReadReset \/ LeaveCall PROVE StackOK'
  BY <1>0, <1>8, AtIs, StackPop DEF LeaveIrq, Resume, ReadReset, LeaveCall, Return, At
<1>9. ASSUME Schedule PROVE StackOK'
  <2>1. At("leave") /\ Top.fn = "timer" /\ Depth = 1
    BY <1>9 DEF Schedule, InterruptedUser
  <2>2. CASE Goto("window")
    BY <1>0, <2>1, <2>2, AtIs, StepsAre, StackTo
  <2>3. CASE stack' = stack /\ halted' = "next"
    BY <1>0, <2>3 DEF StackOK, Depth
  <2> QED BY <1>9, <2>2, <2>3 DEF Schedule
<1>10. ASSUME Open PROVE StackOK'
  <2>1. \E pc \in {"open", "open_enable", "open_write"}, next \in {"open_enable", "open_write", "end"} :
          At(pc) /\ (Goto(next) \/ ReadMaskGoto(next))
    BY <1>10 DEF Open, OpenRegister, ReadMask, enable_irq
  <2> QED BY <1>0, <2>1, AtIs, StepsAre, StackTo
<1>11. ASSUME Close PROVE StackOK'
  <2>1. \E pc \in {"close", "close_disable", "close_write"}, next \in {"close_disable", "close_write", "end"} :
          At(pc) /\ (Goto(next) \/ ReadMaskGoto(next))
    BY <1>11 DEF Close, CloseUnregister, ReadMask, disable_irq
  <2> QED BY <1>0, <2>1, AtIs, StepsAre, StackTo
<1>12. ASSUME ReadCopy PROVE StackOK'
  <2>1. PICK f \in Frames : stack' = Append(Below, f) /\ f.fn = Top.fn /\ f.pc = Top.pc
    BY <1>12, ReadCopyIs
  <2>2. At("read")
    BY <1>12 DEF ReadCopy
  <2>3. stack # <<>> /\ halted = "no" /\ Top.fn = "read" /\ Top.pc = "read" /\ <<"read", "read">> \in Steps
    BY <1>0, <2>2, AtIs, StepsAre
  <2> QED BY <1>0, <2>1, <2>3, StackGoto
<1>13. ASSUME ReadAll PROVE StackOK'
  <2>1. At("read") /\ Goto("read_reset")
    BY <1>13 DEF ReadAll
  <2> QED BY <1>0, <2>1, AtIs, StepsAre, StackTo
<1>14. ASSUME Turnoff PROVE StackOK'
  <2>1. \E pc \in {"turnoff", "turnoff_2", "turnoff_stop"}, next \in {"turnoff_2", "turnoff_stop", "end"} :
          At(pc) /\ Goto(next)
    BY <1>14 DEF Turnoff, del_task, stop_scheduler
  <2> QED BY <1>0, <2>1, AtIs, StepsAre, StackTo
<1> QED
  BY <1>2, <1>3, <1>4, <1>5, <1>6, <1>7, <1>8, <1>9, <1>10, <1>11, <1>12, <1>13, <1>14
  DEF Next, Tick, Key, Execute, Handler, Call, Interrupts

LEMMA FlagsAre ==
  /\ \A pc \in Pcs : Opening(pc) => pc \in {"open_enable", "open_write"}
  /\ \A pc \in Pcs : Closing(pc) => pc \in {"close_disable", "close_write"}
  /\ \A pc \in {"isr", "end_irq", "leave", "window", "end", "read", "read_reset", "turnoff",
                "turnoff_2", "turnoff_stop", "open", "close"} : ~Opening(pc) /\ ~Closing(pc)
  /\ \A pc \in {"open_enable", "open_write"} : Opening(pc) /\ ~Closing(pc)
  /\ \A pc \in {"close_disable", "close_write"} : ~Opening(pc) /\ Closing(pc)
BY DEF Opening, Closing

(* A step that moves on without touching the lines.                        *)
LEMMA MaskTo ==
  ASSUME StackOK, MaskInv, UNCHANGED irqVars, stack # <<>>,
         NEW pc, Goto(pc) \/ ReadMaskGoto(pc), <<Top.fn, pc>> \in Steps,
         pc \in {"isr", "end_irq"} <=> Top.pc \in {"isr", "end_irq"},
         pc \in {"end_irq", "open_write", "close_write"} => ReadMaskGoto(pc),
         Opening(pc) <=> Opening(Top.pc), Closing(pc) <=> Closing(Top.pc)
  PROVE  MaskInv'
<1>1. CASE ReadMaskGoto(pc)
  <2>1. PICK f \in Frames : stack' = Append(Below, f) /\ f.fn = Top.fn /\ f.pc = pc /\ f.mask = irq_mask
    BY <1>1, ReadMaskGotoIs DEF MaskInv
  <2> QED BY <2>1, MaskGoto
<1>2. CASE ~ReadMaskGoto(pc)
  <2>1. PICK f \in Frames : stack' = Append(Below, f) /\ f.fn = Top.fn /\ f.pc = pc
    BY <1>2, GotoIs
  <2> QED BY <1>2, <2>1, MaskGoto
<1> QED BY <1>1, <1>2

LEMMA OpenMask ==
  ASSUME SizesAssumption, StackOK, MaskInv, Open
  PROVE  MaskInv'
<1>1. ASSUME OpenRegister PROVE MaskInv'
  <2>1. /\ stack # <<>> /\ Top.pc = "open" /\ Top.fn = "open" /\ Goto("open_enable")
        /\ irq_mask' = irq_mask /\ irqhandler' = [irqhandler EXCEPT ![KEYBOARD] = "keyboard_isr"]
    BY <1>1, AtIs DEF OpenRegister, At
  <2>2. Top.fn \notin Interrupts /\ <<Top.fn, "open_enable">> \in Steps
    BY <2>1, StepsAre
  <2>3. PICK f \in Frames : stack' = Append(Below, f) /\ f.fn = Top.fn /\ f.pc = "open_enable"
    BY <2>1, <2>2, GotoIs
  <2>4. irq_mask = Unhandled
    BY <2>1, <2>2, MaskAlone, FlagsAre DEF UserMask
  <2>5. /\ irqhandler' \in [Lines -> {"timer_isr", "keyboard_isr", "ignore", NULL}]
        /\ irqhandler'[KEYBOARD] = "keyboard_isr"
        /\ \A n \in Lines \ {KEYBOARD} : irqhandler'[n] = irqhandler[n]
    BY <2>1 DEF MaskInv, Lines
  <2>6. Unhandled' = irq_mask \ {KEYBOARD}
    BY <2>4, <2>5 DEF Unhandled
  <2>7. Opening(f.pc) /\ ~Closing(f.pc) /\ irq_mask' \subseteq Lines
    BY <2>1, <2>3, FlagsAre DEF MaskInv
  <2> QED BY <2>1, <2>2, <2>3, <2>5, <2>6, <2>7, MaskDevice
<1>2. ASSUME ReadMask("open_enable", "open_write") PROVE MaskInv'
  <2>1. /\ At("open_enable") /\ ReadMaskGoto("open_write") /\ UNCHANGED irqVars
    BY <1>2 DEF ReadMask
  <2> QED BY <2>1, AtIs, StepsAre, FlagsAre, MaskTo
<1>3. ASSUME enable_irq("open_write", "end") PROVE MaskInv'
  <2>1. /\ stack # <<>> /\ Top.pc = "open_write" /\ Top.fn = "open" /\ Goto("end")
        /\ irq_mask' = Top.mask \ {LineOf(Top.fn)} /\ irqhandler' = irqhandler
    BY <1>3, AtIs DEF enable_irq, At
  <2>2. Top.fn \notin Interrupts /\ <<Top.fn, "end">> \in Steps
    BY <2>1, StepsAre
  <2>3. PICK f \in Frames : stack' = Append(Below, f) /\ f.fn = Top.fn /\ f.pc = "end"
    BY <2>1, <2>2, GotoIs
  <2>4. irq_mask \ {KEYBOARD} = Unhandled /\ Top.mask = irq_mask
    BY <2>1, <2>2, MaskAlone, FlagsAre DEF UserMask
  <2>5. irq_mask' = Unhandled' /\ irq_mask' \subseteq Lines
    BY <2>1, <2>4 DEF LineOf, Unhandled
  <2>6. irqhandler' \in [Lines -> {"timer_isr", "keyboard_isr", "ignore", NULL}]
    BY <2>1 DEF MaskInv
  <2>7. ~Opening(f.pc) /\ ~Closing(f.pc)
    BY <2>3, FlagsAre
  <2> QED BY <2>1, <2>2, <2>3, <2>5, <2>6, <2>7, MaskDevice
<1> QED BY <1>1, <1>2, <1>3 DEF Open

LEMMA CloseMask ==
  ASSUME SizesAssumption, StackOK, MaskInv, Close
  PROVE  MaskInv'
<1>1. ASSUME CloseUnregister PROVE MaskInv'
  <2>1. /\ stack # <<>> /\ Top.pc = "close" /\ Top.fn = "close" /\ Goto("close_disable")
        /\ irq_mask' = irq_mask /\ irqhandler' = [irqhandler EXCEPT ![KEYBOARD] = NULL]
    BY <1>1, AtIs DEF CloseUnregister, At
  <2>2. Top.fn \notin Interrupts /\ <<Top.fn, "close_disable">> \in Steps
    BY <2>1, StepsAre
  <2>3. PICK f \in Frames : stack' = Append(Below, f) /\ f.fn = Top.fn /\ f.pc = "close_disable"
    BY <2>1, <2>2, GotoIs
  <2>4. irq_mask = Unhandled
    BY <2>1, <2>2, MaskAlone, FlagsAre DEF UserMask
  <2>5. /\ irqhandler' \in [Lines -> {"timer_isr", "keyboard_isr", "ignore", NULL}]
        /\ irqhandler'[KEYBOARD] = NULL
        /\ \A n \in Lines \ {KEYBOARD} : irqhandler'[n] = irqhandler[n]
    BY <2>1 DEF MaskInv, Lines
  <2>6. Unhandled' = irq_mask \cup {KEYBOARD}
    <3>1. NULL \notin {"timer_isr", "keyboard_isr"}
      BY DEF SizesAssumption
    <3>2. KEYBOARD \in Lines
      BY DEF Lines
    <3> QED BY <2>4, <2>5, <3>1, <3>2 DEF Unhandled
  <2>7. ~Opening(f.pc) /\ Closing(f.pc) /\ irq_mask' \subseteq Lines
    BY <2>1, <2>3, FlagsAre DEF MaskInv
  <2> QED BY <2>1, <2>2, <2>3, <2>5, <2>6, <2>7, MaskDevice
<1>2. ASSUME ReadMask("close_disable", "close_write") PROVE MaskInv'
  <2>1. /\ At("close_disable") /\ ReadMaskGoto("close_write") /\ UNCHANGED irqVars
    BY <1>2 DEF ReadMask
  <2> QED BY <2>1, AtIs, StepsAre, FlagsAre, MaskTo
<1>3. ASSUME disable_irq("close_write", "end") PROVE MaskInv'
  <2>1. /\ stack # <<>> /\ Top.pc = "close_write" /\ Top.fn = "close" /\ Goto("end")
        /\ irq_mask' = Top.mask \cup {LineOf(Top.fn)} /\ irqhandler' = irqhandler
    BY <1>3, AtIs DEF disable_irq, At
  <2>2. Top.fn \notin Interrupts /\ <<Top.fn, "end">> \in Steps
    BY <2>1, StepsAre
  <2>3. PICK f \in Frames : stack' = Append(Below, f) /\ f.fn = Top.fn /\ f.pc = "end"
    BY <2>1, <2>2, GotoIs
  <2>4. irq_mask \cup {KEYBOARD} = Unhandled /\ Top.mask = irq_mask
    BY <2>1, <2>2, MaskAlone, FlagsAre DEF UserMask
  <2>5. irq_mask' = Unhandled' /\ irq_mask' \subseteq Lines
    BY <2>1, <2>4 DEF LineOf, Unhandled
  <2>6. irqhandler' \in [Lines -> {"timer_isr", "keyboard_isr", "ignore", NULL}]
    BY <2>1 DEF MaskInv
  <2>7. ~Opening(f.pc) /\ ~Closing(f.pc)
    BY <2>3, FlagsAre
  <2> QED BY <2>1, <2>2, <2>3, <2>5, <2>6, <2>7, MaskDevice
<1> QED BY <1>1, <1>2, <1>3 DEF Close

LEMMA MaskStep ==
  ASSUME SizesAssumption, CallsAssumption, IInv, [Next]_vars
  PROVE  MaskInv'
<1>0. StackOK /\ MaskInv
  BY DEF IInv
<1>1. ASSUME UNCHANGED vars \/ UserStep \/ Halted \/ MissingIsr PROVE MaskInv'
  BY <1>0, <1>1, MaskSame DEF UserStep, Halted, MissingIsr, vars
<1>2. ASSUME NEW c \in Calls, SystemCall(c) PROVE MaskInv'
  <2>1. stack = <<>> /\ Push(c, c) /\ c \in {"open", "close", "read", "turnoff"} /\ UNCHANGED irqVars
    BY <1>2 DEF SystemCall, InUser, CallsAssumption
  <2>2. Frame(c, c) \in Frames /\ Frame(c, c).pc = c
    BY <2>1 DEF Frame, Frames, Pcs
  <2> QED BY <1>0, <2>1, <2>2, MaskCall DEF Push
<1>3. ASSUME NEW fn \in Interrupts, Interrupt(fn) PROVE MaskInv'
  <2>1. Frame(fn, "isr") \in Frames /\ Frame(fn, "isr").pc = "isr" /\ Frame(fn, "isr").fn = fn
    BY DEF Frame, Frames, Pcs, Interrupts
  <2> QED BY <1>0, <1>3, <2>1, MaskInterrupt DEF Interrupt, Push
<1>4. ASSUME TimerIsr \/ KeyboardIsr PROVE MaskInv'
  <2>1. At("isr") /\ ReadMaskGoto("end_irq") /\ UNCHANGED irqVars
    BY <1>4 DEF TimerIsr, KeyboardIsr
  <2> QED BY <1>0, <2>1, AtIs, StepsAre, FlagsAre, MaskTo
<1>5. ASSUME EndIrq PROVE MaskInv'
  BY <1>0, <1>5, MaskEndIrq
<1>6. ASSUME LeaveIrq \/ Resume \/ ReadReset \/ LeaveCall PROVE MaskInv'
  <2>1. PICK pc \in {"leave", "window", "read_reset", "end"} : At(pc) /\ Return /\ UNCHANGED irqVars
    BY <1>6 DEF LeaveIrq, Resume, ReadReset, LeaveCall
  <2> QED BY <1>0, <2>1, AtIs, FlagsAre, MaskPop DEF Return
<1>7. ASSUME Schedule PROVE MaskInv'
  <2>1. At("leave") /\ Top.fn = "timer" /\ UNCHANGED irqVars
    BY <1>7 DEF Schedule
  <2>2. CASE Goto("window")
    BY <1>0, <2>1, <2>2, AtIs, StepsAre, FlagsAre, MaskTo
  <2>3. CASE stack' = stack
    BY <1>0, <2>1, <2>3, MaskSame
  <2> QED BY <1>7, <2>2, <2>3 DEF Schedule
<1>8. ASSUME Open PROVE MaskInv'
  BY <1>0, <1>8, OpenMask
<1>9. ASSUME Close PROVE MaskInv'
  BY <1>0, <1>9, CloseMask
<1>10. ASSUME ReadCopy PROVE MaskInv'
  <2>1. PICK f \in Frames : stack' = Append(Below, f) /\ f.fn = Top.fn /\ f.pc = Top.pc
    BY <1>0, <1>10, ReadCopyIs DEF IInv
  <2>2. At("read") /\ UNCHANGED irqVars
    BY <1>10 DEF ReadCopy
  <2> QED BY <1>0, <2>1, <2>2, AtIs, MaskGoto
<1>11. ASSUME ReadAll PROVE MaskInv'
  <2>1. At("read") /\ Goto("read_reset") /\ UNCHANGED irqVars
    BY <1>11 DEF ReadAll
  <2> QED BY <1>0, <2>1, AtIs, StepsAre, FlagsAre, MaskTo
<1>12. ASSUME Turnoff PROVE MaskInv'
  <2>1. PICK pc \in {"turnoff", "turnoff_2", "turnoff_stop"}, next \in {"turnoff_2", "turnoff_stop", "end"} :
          At(pc) /\ Goto(next) /\ UNCHANGED irqVars
    BY <1>12 DEF Turnoff, del_task, stop_scheduler
  <2> QED BY <1>0, <2>1, AtIs, StepsAre, FlagsAre, MaskTo
<1> QED
  BY <1>1, <1>2, <1>3, <1>4, <1>5, <1>6, <1>7, <1>8, <1>9, <1>10, <1>11, <1>12
  DEF Next, Tick, Key, Execute, Handler, Call, Interrupts

-----------------------------------------------------------------------------
(* What a step makes of the bottom of the stack.                           *)
LEMMA BottomTo ==
  ASSUME StackOK, stack # <<>>, NEW f \in Frames, stack' = Append(Below, f), f.fn = Top.fn
  PROVE  /\ InCall' <=> InCall
         /\ Depth = 1 => Bottom = Top.pc /\ Bottom' = f.pc
         /\ Depth # 1 => Bottom' = Bottom
<1>1. /\ Depth \in Nat \ {0} /\ Depth' = Depth /\ stack'[Depth] = f
      /\ \A i \in 1..(Depth - 1) : stack'[i] = stack[i]
      /\ stack' # <<>>
  BY Replaced DEF StackOK
<1>2. CASE Depth = 1
  BY <1>1, <1>2 DEF InCall, Bottom, Top
<1>3. CASE Depth # 1
  <2>1. 1 \in 1..(Depth - 1)
    BY <1>1, <1>3
  <2> QED BY <1>1, <1>3, <2>1 DEF InCall, Bottom
<1> QED BY <1>2, <1>3

LEMMA BottomPop ==
  ASSUME StackOK, stack # <<>>, stack' = Below
  PROVE  /\ InCall' => InCall
         /\ Depth = 1 => Bottom = Top.pc /\ Bottom' = "user"
         /\ Depth # 1 => Bottom' = Bottom
<1>1. /\ Depth \in Nat \ {0} /\ \A i \in 1..(Depth - 1) : stack'[i] = stack[i]
      /\ stack' = <<>> <=> Depth = 1
  BY Popped DEF StackOK
<1>2. CASE Depth = 1
  BY <1>1, <1>2 DEF InCall, Bottom, Top
<1>3. CASE Depth # 1
  <2>1. 1 \in 1..(Depth - 1)
    BY <1>1, <1>3
  <2> QED BY <1>1, <1>3, <2>1 DEF InCall, Bottom
<1> QED BY <1>2, <1>3

LEMMA BottomPush ==
  ASSUME StackOK, NEW fn, NEW pc, Push(fn, pc), Frame(fn, pc) \in Frames
  PROVE  /\ stack # <<>> => Bottom' = Bottom /\ (InCall' <=> InCall)
         /\ stack = <<>> => Bottom = "user" /\ Bottom' = pc /\ (InCall' <=> fn \notin Interrupts)
<1>1. Frame(fn, pc).fn = fn /\ Frame(fn, pc).pc = pc
  BY DEF Frame
<1> DEFINE f == Frame(fn, pc)
<1> HIDE DEF f
<1>2. /\ Depth \in Nat /\ stack'[Depth + 1] = f /\ \A i \in 1..Depth : stack'[i] = stack[i]
      /\ stack' # <<>>
  BY Pushed DEF Push, StackOK, f
<1>3. f.fn = fn /\ f.pc = pc
  BY <1>1 DEF f
<1>4. CASE stack = <<>>
  <2>1. Depth = 0
    BY <1>4 DEF Depth
  <2> QED BY <1>2, <1>3, <1>4, <2>1 DEF Bottom, InCall
<1>5. CASE stack # <<>>
  <2>1. 1 \in 1..Depth
    BY <1>5, TopIs
  <2> QED BY <1>2, <1>5, <2>1 DEF Bottom, InCall
<1> QED BY <1>4, <1>5

-----------------------------------------------------------------------------
(* The tasks.                                                              *)
Deleting(pc) == pc \in {"turnoff_2", "turnoff_stop"}

LEMMA TaskKeep ==
  ASSUME TaskInv, UNCHANGED <<task_table, task_count, schedule_enable, cur_task>>,
         halted' \in {"no", "handler", "tcb"},
         Deleting(Bottom) => Deleting(Bottom'),
         InCall' => cur_task = fore_task
  PROVE  TaskInv'
BY DEF TaskInv, Deleting, fore_task, Pids

LEMMA TaskTo ==
  ASSUME StackOK, TaskInv, UNCHANGED <<task_table, task_count, schedule_enable, cur_task, halted>>,
         stack # <<>>, NEW f \in Frames, stack' = Append(Below, f), f.fn = Top.fn, ~Deleting(Top.pc)
  PROVE  TaskInv'
<1>1. /\ InCall' <=> InCall
      /\ Depth = 1 => Bottom = Top.pc
      /\ Depth # 1 => Bottom' = Bottom
  BY BottomTo
<1>2. Deleting(Bottom) => Deleting(Bottom')
  BY <1>1
<1>3. (InCall => cur_task = fore_task) /\ halted' \in {"no", "handler", "tcb"}
  BY DEF TaskInv
<1> QED BY <1>1, <1>2, <1>3, TaskKeep

LEMMA TaskGoto ==
  ASSUME StackOK, TaskInv, irq_mask \subseteq Lines,
         UNCHANGED <<task_table, task_count, schedule_enable, cur_task, halted>>,
         stack # <<>>, NEW pc, Goto(pc) \/ ReadMaskGoto(pc), <<Top.fn, pc>> \in Steps,
         ~Deleting(Top.pc)
  PROVE  TaskInv'
<1>1. PICK f \in Frames : stack' = Append(Below, f) /\ f.fn = Top.fn
  BY GotoIs, ReadMaskGotoIs
<1> QED BY <1>1, TaskTo

(* do_turnoff deletes two tasks and stops the scheduler, and no tick comes *)
(* to schedule in between.                                                 *)
LEMMA TaskTurnoff ==
  ASSUME SizesAssumption, StackOK, TaskInv, Turnoff
  PROVE  TaskInv'
<1>1. ASSUME NEW pc, NEW id, NEW next,
             <<pc, id, next>> \in {<<"turnoff", 1, "turnoff_2">>, <<"turnoff_2", 2, "turnoff_stop">>},
             del_task(pc, id, next)
      PROVE  TaskInv'
  <2>1. At(pc) /\ Goto(next) /\ pc \in {"turnoff", "turnoff_2"} /\ id \in {1, 2}
        /\ next \in {"turnoff_2", "turnoff_stop"}
    BY <1>1 DEF del_task
  <2>2. Top.fn = "turnoff" /\ stack # <<>>
    BY <2>1, AtIs
  <2>3. <<Top.fn, next>> \in Steps /\ Top.fn \notin Interrupts
    BY <2>1, <2>2, StepsAre
  <2>4. PICK f \in Frames : stack' = Append(Below, f) /\ f.fn = Top.fn /\ f.pc = next
    BY <2>1, <2>2, <2>3, GotoIs
  <2>5. Depth = 1
    BY <2>2, <2>3, TopIs
  <2>6. Bottom' = next /\ InCall
    BY <2>2, <2>3, <2>4, <2>5, BottomTo DEF InCall, Top
  <2>7. cur_task = 0
    BY <2>6 DEF TaskInv, fore_task
  <2>8. /\ task_table' \in [Pids -> Pids \cup {NULL}]
        /\ task_table'[0] # NULL
    BY <1>1, <2>1 DEF del_task, TaskInv, fore_task, Pids, SizesAssumption
  <2>9. UNCHANGED <<task_count, schedule_enable, cur_task, halted>>
    BY <1>1 DEF del_task
  <2> QED BY <2>1, <2>6, <2>7, <2>8, <2>9 DEF TaskInv, fore_task
<1>2. ASSUME stop_scheduler PROVE TaskInv'
  <2>1. /\ At("turnoff_stop") /\ Goto("end") /\ schedule_enable' = FALSE
        /\ UNCHANGED <<task_table, task_count, cur_task, halted>>
    BY <1>2 DEF stop_scheduler
  <2>2. Top.fn = "turnoff" /\ stack # <<>>
    BY <2>1, AtIs
  <2>3. Top.fn \notin Interrupts
    BY <2>2, StepsAre
  <2>4. Depth = 1
    BY <2>2, <2>3, TopIs
  <2>5. cur_task = 0
    BY <2>2, <2>3, <2>4 DEF TaskInv, fore_task, InCall, Top
  <2> QED BY <2>1, <2>5 DEF TaskInv, fore_task
<1> QED BY <1>1, <1>2 DEF Turnoff

(* The round-robin never meets an empty entry of the table.                *)
LEMMA TaskSchedule ==
  ASSUME SizesAssumption, StackOK, irq_mask \subseteq Lines, TaskInv, Schedule
  PROVE  /\ TaskInv' /\ Goto("window") /\ Bottom = "leave" /\ Bottom' = "window" /\ Depth = 1
         /\ cur_task \in Pids /\ cur_task' \in Pids
         /\ thread' = [thread EXCEPT ![cur_task] = regs] /\ halted' = "no"
<1>1. /\ stack # <<>> /\ Top.pc = "leave" /\ Top.fn = "timer" /\ Depth = 1 /\ schedule_enable /\ halted = "no"
      /\ UNCHANGED <<task_table, task_count, schedule_enable>>
      /\ cur_task' = NextTask
  BY DEF Schedule, At, InterruptedUser
<1>2. Bottom = "leave"
  BY <1>1, TopIs DEF Top
<1>3. cur_task' \in 0..(task_count - 1) /\ cur_task \in Pids /\ cur_task' \in Pids
  BY <1>1 DEF NextTask, TaskInv, Pids, SizesAssumption
<1>4. task_table[cur_task'] # NULL
  BY <1>1, <1>2, <1>3 DEF TaskInv
<1>5. /\ thread' = [thread EXCEPT ![cur_task] = regs] /\ Goto("window") /\ halted' = halted
  BY <1>1, <1>4 DEF Schedule, Saver
<1>6. <<Top.fn, "window">> \in Steps
  BY <1>1, StepsAre
<1>7. PICK f \in Frames : stack' = Append(Below, f) /\ f.fn = Top.fn /\ f.pc = "window"
  BY <1>1, <1>5, <1>6, GotoIs
<1>8. (InCall' <=> InCall) /\ Bottom' = "window"
  BY <1>1, <1>7, BottomTo
<1>9. ~InCall
  BY <1>1 DEF InCall, Top, Interrupts
<1>10. TaskInv'
  BY <1>1, <1>2, <1>3, <1>5, <1>8, <1>9 DEF TaskInv
<1> QED BY <1>1, <1>2, <1>3, <1>5, <1>8, <1>10

LEMMA TaskStep ==
  ASSUME SizesAssumption, CallsAssumption, IInv, [Next]_vars
  PROVE  TaskInv'
<1>0. StackOK /\ TaskInv /\ irq_mask \subseteq Lines
  BY DEF IInv, MaskInv
<1>1. ASSUME UNCHANGED <<stack, task_table, task_count, schedule_enable, cur_task>>,
             halted' \in {"no", "handler", "tcb"}
      PROVE  TaskInv'
  BY <1>0, <1>1 DEF TaskInv, Bottom, InCall
<1>2. ASSUME UNCHANGED vars \/ UserStep \/ Halted \/ MissingIsr PROVE TaskInv'
  <2>1. halted \in {"no", "handler", "tcb"}
    BY <1>0 DEF TaskInv
  <2> QED BY <1>1, <1>2, <2>1 DEF UserStep, Halted, MissingIsr, vars, taskVars
<1>3. ASSUME NEW c \in Calls, SystemCall(c) PROVE TaskInv'
  <2>1. /\ stack = <<>> /\ Push(c, c) /\ c \in {"open", "close", "read", "turnoff"}
        /\ cur_task = fore_task
        /\ UNCHANGED <<task_table, task_count, schedule_enable, cur_task, halted>>
    BY <1>3 DEF SystemCall, InUser, CallsAssumption, taskVars
  <2>2. Frame(c, c) \in Frames
    BY <2>1 DEF Frame, Frames, Pcs
  <2>3. Bottom = "user"
    BY <2>1 DEF Bottom
  <2> QED BY <1>0, <2>1, <2>3, TaskKeep DEF Deleting, TaskInv
<1>4. ASSUME NEW fn \in Interrupts, Interrupt(fn) PROVE TaskInv'
  <2>1. Frame(fn, "isr") \in Frames
    BY DEF Frame, Frames, Pcs, Interrupts
  <2>2. /\ Push(fn, "isr") /\ halted' \in {"no", "tcb"}
        /\ UNCHANGED <<task_table, task_count, schedule_enable, cur_task>>
    BY <1>4 DEF Interrupt, taskVars
  <2>3. (InCall' => InCall) /\ (Deleting(Bottom) => Deleting(Bottom'))
    BY <1>0, <2>1, <2>2, BottomPush DEF Deleting
  <2>4. InCall => cur_task = fore_task
    BY <1>0 DEF TaskInv
  <2> QED BY <1>0, <2>2, <2>3, <2>4, TaskKeep
<1>5. ASSUME TimerIsr \/ KeyboardIsr PROVE TaskInv'
  <2>1. /\ At("isr") /\ ReadMaskGoto("end_irq")
        /\ UNCHANGED <<task_table, task_count, schedule_enable, cur_task, halted>>
    BY <1>5 DEF TimerIsr, KeyboardIsr, taskVars
  <2> QED BY <1>0, <2>1, AtIs, StepsAre, TaskGoto DEF Deleting
<1>6. ASSUME EndIrq PROVE TaskInv'
  <2>1. /\ At("end_irq") /\ Goto("leave")
        /\ UNCHANGED <<task_table, task_count, schedule_enable, cur_task, halted>>
    BY <1>6 DEF EndIrq, enable_irq, taskVars
  <2> QED BY <1>0, <2>1, AtIs, StepsAre, TaskGoto DEF Deleting
<1>7. ASSUME LeaveIrq \/ Resume \/ ReadReset \/ LeaveCall PROVE TaskInv'
  <2>1. PICK pc \in {"leave", "window", "read_reset", "end"} :
          At(pc) /\ Return /\ UNCHANGED <<task_table, task_count, schedule_enable, cur_task, halted>>
    BY <1>7 DEF LeaveIrq, Resume, ReadReset, LeaveCall, taskVars
  <2>2. stack # <<>> /\ stack' = Below /\ ~Deleting(Top.pc)
    BY <2>1 DEF At, Return, Deleting
  <2>3. (InCall' => InCall) /\ (Deleting(Bottom) => Deleting(Bottom'))
    BY <1>0, <2>2, BottomPop
  <2>4. (InCall => cur_task = fore_task) /\ halted \in {"no", "handler", "tcb"}
    BY <1>0 DEF TaskInv
  <2> QED BY <1>0, <2>1, <2>3, <2>4, TaskKeep
<1>8. ASSUME Schedule PROVE TaskInv'
  BY <1>0, <1>8, TaskSchedule
<1>9. ASSUME Open PROVE TaskInv'
  <2>1. PICK pc \in {"open", "open_enable", "open_write"}, next \in {"open_enable", "open_write", "end"} :
          /\ At(pc) /\ (Goto(next) \/ ReadMaskGoto(next))
          /\ UNCHANGED <<task_table, task_count, schedule_enable, cur_task, halted>>
    BY <1>9 DEF Open, OpenRegister, ReadMask, enable_irq, taskVars
  <2> QED BY <1>0, <2>1, AtIs, StepsAre, TaskGoto DEF Deleting
<1>10. ASSUME Close PROVE TaskInv'
  <2>1. PICK pc \in {"close", "close_disable", "close_write"}, next \in {"close_disable", "close_write", "end"} :
          /\ At(pc) /\ (Goto(next) \/ ReadMaskGoto(next))
          /\ UNCHANGED <<task_table, task_count, schedule_enable, cur_task, halted>>
    BY <1>10 DEF Close, CloseUnregister, ReadMask, disable_irq, taskVars
  <2> QED BY <1>0, <2>1, AtIs, StepsAre, TaskGoto DEF Deleting
<1>11. ASSUME ReadCopy PROVE TaskInv'
  <2>1. PICK f \in Frames : stack' = Append(Below, f) /\ f.fn = Top.fn
    BY <1>0, <1>11, ReadCopyIs DEF IInv
  <2>2. At("read") /\ UNCHANGED <<task_table, task_count, schedule_enable, cur_task, halted>>
    BY <1>11 DEF ReadCopy, taskVars
  <2> QED BY <1>0, <2>1, <2>2, AtIs, TaskTo DEF Deleting
<1>12. ASSUME ReadAll PROVE TaskInv'
  <2>1. /\ At("read") /\ Goto("read_reset")
        /\ UNCHANGED <<task_table, task_count, schedule_enable, cur_task, halted>>
    BY <1>12 DEF ReadAll, taskVars
  <2> QED BY <1>0, <2>1, AtIs, StepsAre, TaskGoto DEF Deleting
<1>13. ASSUME Turnoff PROVE TaskInv'
  BY <1>0, <1>13, TaskTurnoff
<1> QED
  BY <1>2, <1>3, <1>4, <1>5, <1>6, <1>7, <1>8, <1>9, <1>10, <1>11, <1>12, <1>13
  DEF Next, Tick, Key, Execute, Handler, Call, Interrupts

-----------------------------------------------------------------------------
(* The contexts.                                                           *)
LEMMA ContextKeep ==
  ASSUME ContextInv, UNCHANGED <<thread, regs, context, cur_task>>,
         Bottom' = "window" <=> Bottom = "window"
  PROVE  ContextInv'
BY DEF ContextInv, AnyContext, Pids

LEMMA ContextTo ==
  ASSUME StackOK, ContextInv, UNCHANGED <<thread, regs, context, cur_task>>,
         stack # <<>>, NEW f \in Frames, stack' = Append(Below, f), f.fn = Top.fn,
         Top.pc # "window", f.pc # "window"
  PROVE  ContextInv'
<1>1. Bottom' = "window" <=> Bottom = "window"
  BY BottomTo
<1> QED BY <1>1, ContextKeep

LEMMA ContextGoto ==
  ASSUME StackOK, ContextInv, irq_mask \subseteq Lines,
         UNCHANGED <<thread, regs, context, cur_task>>,
         stack # <<>>, NEW pc, Goto(pc) \/ ReadMaskGoto(pc), <<Top.fn, pc>> \in Steps,
         Top.pc # "window", pc # "window"
  PROVE  ContextInv'
<1>1. PICK f \in Frames : stack' = Append(Below, f) /\ f.fn = Top.fn /\ f.pc = pc
  BY GotoIs, ReadMaskGotoIs
<1> QED BY <1>1, ContextTo

LEMMA ContextStep ==
  ASSUME SizesAssumption, CallsAssumption, IInv, [Next]_vars
  PROVE  ContextInv'
<1>0. StackOK /\ TaskInv /\ ContextInv /\ irq_mask \subseteq Lines
  BY DEF IInv, MaskInv
<1>1. ASSUME UNCHANGED vars \/ Halted \/ MissingIsr PROVE ContextInv'
  <2>1. UNCHANGED <<stack, thread, regs, context, cur_task>>
    BY <1>1 DEF Halted, MissingIsr, vars, taskVars
  <2> QED BY <1>0, <2>1, ContextKeep DEF Bottom
<1>2. ASSUME UserStep PROVE ContextInv'
  <2>1. /\ stack = <<>> /\ stack' = <<>> /\ regs' = (regs + 1) % Contexts
        /\ context' = [context EXCEPT ![cur_task] = regs']
        /\ UNCHANGED <<thread, cur_task>>
    BY <1>2 DEF UserStep, InUser
  <2>2. Bottom = "user" /\ Bottom' = "user"
    BY <2>1 DEF Bottom
  <2>3. regs' \in AnyContext
    BY <1>0, <2>1 DEF ContextInv, AnyContext, SizesAssumption
  <2>4. cur_task \in Pids
    BY <1>0 DEF TaskInv, Pids, SizesAssumption
  <2> QED BY <1>0, <2>1, <2>2, <2>3, <2>4 DEF ContextInv
<1>3. ASSUME NEW c \in Calls, SystemCall(c) PROVE ContextInv'
  <2>1. /\ stack = <<>> /\ Push(c, c) /\ c \in {"open", "close", "read", "turnoff"}
        /\ UNCHANGED <<thread, regs, context, cur_task>>
    BY <1>3 DEF SystemCall, InUser, CallsAssumption, taskVars
  <2>2. Frame(c, c) \in Frames
    BY <2>1 DEF Frame, Frames, Pcs
  <2>3. Bottom = "user" /\ Bottom' = c
    BY <1>0, <2>1, <2>2, BottomPush
  <2> QED BY <1>0, <2>1, <2>3, ContextKeep
<1>4. ASSUME NEW fn \in Interrupts, Interrupt(fn) PROVE ContextInv'
  <2>1. Frame(fn, "isr") \in Frames
    BY DEF Frame, Frames, Pcs, Interrupts
  <2>2. Push(fn, "isr") /\ UNCHANGED <<thread, regs, context, cur_task>>
    BY <1>4 DEF Interrupt, taskVars
  <2>3. Bottom' = "window" <=> Bottom = "window"
    BY <1>0, <2>1, <2>2, BottomPush
  <2> QED BY <1>0, <2>2, <2>3, ContextKeep
<1>5. ASSUME TimerIsr \/ KeyboardIsr PROVE ContextInv'
  <2>1. /\ At("isr") /\ ReadMaskGoto("end_irq") /\ UNCHANGED <<thread, regs, context, cur_task>>
    BY <1>5 DEF TimerIsr, KeyboardIsr, taskVars
  <2>2. stack # <<>> /\ Top.pc # "window" /\ Top.fn \in Interrupts
    BY <1>0, <2>1, AtIs
  <2>3. <<Top.fn, "end_irq">> \in Steps
    BY <2>2, StepsAre
  <2> QED BY <1>0, <2>1, <2>2, <2>3, ContextGoto
<1>6. ASSUME EndIrq PROVE ContextInv'
  <2>1. /\ At("end_irq") /\ Goto("leave") /\ UNCHANGED <<thread, regs, context, cur_task>>
    BY <1>6 DEF EndIrq, enable_irq, taskVars
  <2>2. stack # <<>> /\ Top.pc # "window" /\ Top.fn \in Interrupts
    BY <1>0, <2>1, AtIs
  <2>3. <<Top.fn, "leave">> \in Steps
    BY <2>2, StepsAre
  <2> QED BY <1>0, <2>1, <2>2, <2>3, ContextGoto
<1>7. ASSUME LeaveIrq \/ ReadReset \/ LeaveCall PROVE ContextInv'
  <2>1. PICK pc \in {"leave", "read_reset", "end"} :
          At(pc) /\ Return /\ UNCHANGED <<thread, regs, context, cur_task>>
    BY <1>7 DEF LeaveIrq, ReadReset, LeaveCall, taskVars
  <2>2. stack # <<>> /\ stack' = Below /\ Top.pc # "window"
    BY <2>1 DEF At, Return
  <2>3. Bottom' = "window" <=> Bottom = "window"
    BY <1>0, <2>2, BottomPop
  <2> QED BY <1>0, <2>1, <2>3, ContextKeep
(* What schedule saves is the context of the task it leaves ...            *)
<1>8. ASSUME Schedule PROVE ContextInv'
  <2>1. /\ Bottom = "leave" /\ Bottom' = "window" /\ cur_task \in Pids /\ cur_task' \in Pids
        /\ thread' = [thread EXCEPT ![cur_task] = regs]
    BY <1>0, <1>8, TaskSchedule
  <2>2. UNCHANGED <<regs, context>>
    BY <1>8 DEF Schedule
  <2>3. /\ thread \in [Pids -> AnyContext] /\ regs \in AnyContext /\ context \in [Pids -> AnyContext]
        /\ \A p \in Pids \ {cur_task} : thread[p] = context[p]
        /\ regs = context[cur_task]
    BY <1>0, <2>1 DEF ContextInv
  <2>4. thread' \in [Pids -> AnyContext] /\ \A p \in Pids : thread'[p] = context[p]
    BY <2>1, <2>3
  <2> QED BY <2>1, <2>2, <2>3, <2>4 DEF ContextInv
(* ... and what is popped is that of the task it goes on with.             *)
<1>9. ASSUME Resume PROVE ContextInv'
  <2>1. /\ At("window") /\ stack' = Below /\ regs' = thread[cur_task]
        /\ UNCHANGED <<thread, context, cur_task>>
    BY <1>9 DEF Resume, Return
  <2>2. stack # <<>> /\ Top.pc = "window" /\ halted = "no"
    BY <2>1 DEF At
  <2>3. Depth = 1
    BY <1>0, <2>2, TopIs DEF StackOK, Top
  <2>4. Bottom = "window" /\ Bottom' = "user"
    BY <1>0, <2>1, <2>2, <2>3, BottomPop
  <2>5. cur_task \in Pids
    BY <1>0 DEF TaskInv, Pids, SizesAssumption
  <2> QED BY <1>0, <2>1, <2>4, <2>5 DEF ContextInv
<1>10. ASSUME Open PROVE ContextInv'
  <2>1. PICK pc \in {"open", "open_enable", "open_write"}, next \in {"open_enable", "open_write", "end"} :
          At(pc) /\ (Goto(next) \/ ReadMaskGoto(next)) /\ UNCHANGED <<thread, regs, context, cur_task>>
    BY <1>10 DEF Open, OpenRegister, ReadMask, enable_irq, taskVars
  <2>2. stack # <<>> /\ Top.pc # "window" /\ next # "window" /\ <<Top.fn, next>> \in Steps
    BY <1>0, <2>1, AtIs, StepsAre
  <2> QED BY <1>0, <2>1, <2>2, ContextGoto
<1>11. ASSUME Close PROVE ContextInv'
  <2>1. PICK pc \in {"close", "close_disable", "close_write"}, next \in {"close_disable", "close_write", "end"} :
          At(pc) /\ (Goto(next) \/ ReadMaskGoto(next)) /\ UNCHANGED <<thread, regs, context, cur_task>>
    BY <1>11 DEF Close, CloseUnregister, ReadMask, disable_irq, taskVars
  <2>2. stack # <<>> /\ Top.pc # "window" /\ next # "window" /\ <<Top.fn, next>> \in Steps
    BY <1>0, <2>1, AtIs, StepsAre
  <2> QED BY <1>0, <2>1, <2>2, ContextGoto
<1>12. ASSUME ReadCopy PROVE ContextInv'
  <2>1. PICK f \in Frames : stack' = Append(Below, f) /\ f.fn = Top.fn /\ f.pc = Top.pc
    BY <1>0, <1>12, ReadCopyIs DEF IInv
  <2>2. At("read") /\ UNCHANGED <<thread, regs, context, cur_task>>
    BY <1>12 DEF ReadCopy, taskVars
  <2> QED BY <1>0, <2>1, <2>2, AtIs, ContextTo
<1>13. ASSUME ReadAll PROVE ContextInv'
  <2>1. At("read") /\ Goto("read_reset") /\ UNCHANGED <<thread, regs, context, cur_task>>
    BY <1>13 DEF ReadAll, taskVars
  <2> QED BY <1>0, <2>1, AtIs, StepsAre, ContextGoto
<1>14. ASSUME Turnoff PROVE ContextInv'
  <2>1. PICK pc \in {"turnoff", "turnoff_2", "turnoff_stop"}, next \in {"turnoff_2", "turnoff_stop", "end"} :
          At(pc) /\ Goto(next) /\ UNCHANGED <<thread, regs, context, cur_task>>
    BY <1>14 DEF Turnoff, del_task, stop_scheduler
  <2> QED BY <1>0, <2>1, AtIs, StepsAre, ContextGoto
<1> QED
  BY <1>1, <1>2, <1>3, <1>4, <1>5, <1>6, <1>7, <1>8, <1>9, <1>10, <1>11, <1>12, <1>13, <1>14
  DEF Next, Tick, Key, Execute, Handler, Call, Interrupts

-----------------------------------------------------------------------------
(* The keys.                                                               *)

(* The part of KeyInv about one step f of the stack, number n of it.       *)
Copied(f) ==
  /\ Len(f.buf) <= key_offset
  /\ \A i \in 1..Len(f.buf) : f.buf[i] = key_input[i]
  /\ f.fn = "keyboard" /\ f.pc = "isr" => keys < MaxKeys

LEMMA KeyKeep ==
  ASSUME KeyInv, UNCHANGED <<key_input, keys, delivered>>, irqhandler'[TIMER] = irqhandler[TIMER],
         \A n \in 1..Depth' : Copied(stack'[n])
  PROVE  KeyInv'
<1>1. key_offset' = key_offset
  BY DEF key_offset
<1> QED BY <1>1 DEF KeyInv, Copied

LEMMA KeyTo ==
  ASSUME StackOK, KeyInv, UNCHANGED <<key_input, keys, delivered>>, irqhandler'[TIMER] = irqhandler[TIMER],
         stack # <<>>, NEW f \in Frames, stack' = Append(Below, f), Copied(f)
  PROVE  KeyInv'
<1>1. /\ Depth \in Nat \ {0} /\ Depth' = Depth /\ stack'[Depth] = f
      /\ \A i \in 1..(Depth - 1) : stack'[i] = stack[i]
  BY Replaced DEF StackOK
<1>2. \A n \in 1..(Depth - 1) : n \in 1..Depth
  BY <1>1
<1>3. \A n \in 1..(Depth - 1) : Copied(stack'[n])
  <2>1. \A n \in 1..Depth : Copied(stack[n])
    BY DEF KeyInv, Copied
  <2> QED BY <1>1, <1>2, <2>1
<1>4. \A n \in 1..Depth' : Copied(stack'[n])
  BY <1>1, <1>3, LastOrBefore
<1> QED BY <1>4, KeyKeep

LEMMA KeyGoto ==
  ASSUME StackOK, KeyInv, irq_mask \subseteq Lines,
         UNCHANGED <<key_input, keys, delivered>>, irqhandler'[TIMER] = irqhandler[TIMER],
         stack # <<>>, NEW pc, Goto(pc) \/ ReadMaskGoto(pc), <<Top.fn, pc>> \in Steps, pc # "isr"
  PROVE  KeyInv'
<1>1. PICK f \in Frames : stack' = Append(Below, f) /\ f.fn = Top.fn /\ f.pc = pc /\ f.buf = Top.buf
  BY GotoIs, ReadMaskGotoIs
<1>2. Depth \in 1..Depth
  BY TopIs
<1>3. Copied(f)
  BY <1>1, <1>2 DEF KeyInv, Copied, Top
<1> QED BY <1>1, <1>3, KeyTo

LEMMA KeyPop ==
  ASSUME StackOK, KeyInv, UNCHANGED <<key_input, keys, delivered>>, irqhandler' = irqhandler,
         stack # <<>>, stack' = Below
  PROVE  KeyInv'
<1>1. /\ Depth \in Nat \ {0} /\ Depth' = Depth - 1
      /\ \A i \in 1..(Depth - 1) : stack'[i] = stack[i]
  BY Popped DEF StackOK
<1>2. \A n \in 1..Depth' : n \in 1..Depth /\ stack'[n] = stack[n]
  BY <1>1
<1>3. \A n \in 1..Depth' : Copied(stack'[n])
  BY <1>2 DEF KeyInv, Copied
<1> QED BY <1>3, KeyKeep

LEMMA KeyPush ==
  ASSUME StackOK, KeyInv, UNCHANGED <<key_input, keys, delivered>>, irqhandler' = irqhandler,
         NEW fn, NEW pc, Push(fn, pc), Frame(fn, pc) \in Frames,
         fn = "keyboard" => keys < MaxKeys
  PROVE  KeyInv'
<1> DEFINE f == Frame(fn, pc)
<1>1. f.fn = fn /\ f.buf = <<>> /\ f \in Frames
  BY DEF Frame
<1>2. key_offset \in Nat
  BY LenProperties DEF KeyInv, key_offset
<1>3. Copied(f)
  BY <1>1, <1>2 DEF Copied
<1> HIDE DEF f
<1>4. /\ Depth \in Nat /\ Depth' = Depth + 1 /\ stack'[Depth + 1] = f
      /\ \A i \in 1..Depth : stack'[i] = stack[i]
  BY <1>1, Pushed DEF Push, StackOK, f
<1>5. \A n \in 1..Depth : Copied(stack'[n])
  BY <1>4 DEF KeyInv, Copied
<1>6. \A n \in 1..Depth' : n \in 1..Depth \/ n = Depth + 1
  BY <1>4
<1>7. \A n \in 1..Depth' : Copied(stack'[n])
  BY <1>3, <1>4, <1>5, <1>6
<1> QED BY <1>7, KeyKeep

(* A key comes: it is later than all in the buffer, and no read that is    *)
(* under way has copied its place yet.                                     *)
LEMMA KeyArrives ==
  ASSUME SizesAssumption, StackOK, MaskInv, KeyInv, KeyboardIsr
  PROVE  KeyInv'
<1>1. /\ At("isr") /\ irqhandler[LineOf(Top.fn)] = "keyboard_isr"
      /\ keys' = keys + 1 /\ key_buffer_insert /\ ReadMaskGoto("end_irq")
      /\ UNCHANGED <<irqhandler, delivered>>
  BY DEF KeyboardIsr, irqVars
<1>2. stack # <<>> /\ Top.pc = "isr" /\ Top.fn \in Interrupts
  BY <1>1, AtIs
<1>3. Top.fn = "keyboard"
  BY <1>1, <1>2 DEF KeyInv, Interrupts, LineOf
<1>4. <<Top.fn, "end_irq">> \in Steps
  BY <1>2, StepsAre
<1>5. PICK f \in Frames : stack' = Append(Below, f) /\ f.fn = Top.fn /\ f.pc = "end_irq" /\ f.buf = Top.buf
  BY <1>1, <1>2, <1>4, ReadMaskGotoIs DEF MaskInv
<1>6. /\ Depth \in Nat \ {0} /\ Depth' = Depth /\ stack'[Depth] = f
      /\ \A i \in 1..(Depth - 1) : stack'[i] = stack[i]
  BY <1>2, <1>5, Replaced DEF StackOK
<1>7. Depth \in 1..Depth /\ \A n \in 1..(Depth - 1) : n \in 1..Depth /\ n # Depth
  BY <1>6
(* There is no other interrupt of the keyboard on the stack.               *)
<1>8. \A n \in 1..Depth' : ~(stack'[n].fn = "keyboard" /\ stack'[n].pc = "isr")
  <2>1. ActiveAt(Depth) /\ stack[Depth].fn = "keyboard"
    BY <1>2, <1>3 DEF ActiveAt, Top
  <2>2. \A n \in 1..(Depth - 1) : ~(stack[n].fn = "keyboard" /\ stack[n].pc = "isr")
    BY <1>7, <2>1 DEF MaskInv, ActiveInv, ActiveAt
  <2> QED BY <1>5, <1>6, <2>2, LastOrBefore
<1>9. keys < MaxKeys
  BY <1>2, <1>3, <1>7 DEF KeyInv, Top
<1>10. keys \in Nat /\ keys' \in 1..MaxKeys /\ keys' \in 0..MaxKeys
  BY <1>1, <1>9 DEF KeyInv, SizesAssumption
<1>11. /\ key_offset \in Nat /\ key_offset' \in Nat /\ key_offset <= key_offset'
       /\ key_input' \in Seq(1..MaxKeys) /\ key_offset' <= KEY_INPUT_MAX
       /\ \A i \in 1..key_offset : key_input'[i] = key_input[i]
       /\ \A i \in 1..key_offset' : i \in 1..key_offset \/ (i = key_offset + 1 /\ key_input'[i] = keys')
  <2>1. key_input \in Seq(1..MaxKeys) /\ key_offset <= KEY_INPUT_MAX /\ key_offset \in Nat
    BY LenProperties DEF KeyInv, key_offset
  <2>2. CASE key_input' = key_input
    BY <2>1, <2>2 DEF key_offset
  <2>3. CASE key_offset < KEY_INPUT_MAX /\ key_input' = Append(key_input, keys')
    <3>1. /\ key_input' \in Seq(1..MaxKeys) /\ key_offset' = key_offset + 1
          /\ \A i \in 1..key_offset : key_input'[i] = key_input[i]
          /\ key_input'[key_offset + 1] = keys'
      BY <1>10, <2>1, <2>3, AppendProperties DEF key_offset
    <3>2. \A i \in 1..(key_offset + 1) : i \in 1..key_offset \/ i = key_offset + 1
      BY <2>1
    <3>3. key_offset + 1 \in Nat /\ key_offset <= key_offset + 1 /\ key_offset + 1 <= KEY_INPUT_MAX
      BY <2>1, <2>3 DEF SizesAssumption
    <3> QED BY <2>1, <3>1, <3>2, <3>3
  <2> QED BY <1>1, <2>2, <2>3 DEF key_buffer_insert
<1>12. \A i \in 1..key_offset : key_input[i] \in 1..MaxKeys /\ delivered < key_input[i] /\ key_input[i] < keys'
  <2>1. \A i \in 1..key_offset : key_input[i] \in 1..MaxKeys
    BY ElementOfSeq DEF KeyInv, key_offset
  <2>2. \A i \in 1..key_offset : key_input[i] <= keys /\ delivered < key_input[i]
    BY DEF KeyInv
  <2> QED BY <1>1, <1>10, <2>1, <2>2 DEF SizesAssumption
<1>13. \A i \in 1..key_offset' : delivered' < key_input'[i] /\ key_input'[i] <= keys'
  <2>1. delivered \in Nat /\ delivered < keys'
    BY <1>1, <1>10 DEF KeyInv
  <2> QED BY <1>1, <1>10, <1>11, <1>12, <2>1 DEF SizesAssumption
<1>14. \A i, j \in 1..key_offset' : i < j => key_input'[i] < key_input'[j]
  <2> SUFFICES ASSUME NEW i \in 1..key_offset', NEW j \in 1..key_offset', i < j
               PROVE  key_input'[i] < key_input'[j]
    OBVIOUS
  <2>1. CASE j \in 1..key_offset
    <3>1. i \in 1..key_offset
      BY <1>11, <2>1
    <3> QED BY <1>11, <2>1, <3>1 DEF KeyInv
  <2>2. CASE j = key_offset + 1 /\ key_input'[j] = keys'
    <3>1. i \in 1..key_offset
      BY <1>11, <2>2
    <3> QED BY <1>11, <1>12, <2>2, <3>1
  <2> QED BY <1>11, <2>1, <2>2
<1>15. \A n \in 1..Depth' : /\ Len(stack'[n].buf) <= key_offset'
                            /\ \A i \in 1..Len(stack'[n].buf) : stack'[n].buf[i] = key_input'[i]
  <2> SUFFICES ASSUME NEW n \in 1..Depth
               PROVE  /\ Len(stack'[n].buf) <= key_offset'
                      /\ \A i \in 1..Len(stack'[n].buf) : stack'[n].buf[i] = key_input'[i]
    BY <1>6
  <2>1. stack'[n].buf = stack[n].buf
    <3>1. CASE n = Depth
      BY <1>5, <1>6, <3>1 DEF Top
    <3>2. CASE n \in 1..(Depth - 1)
      BY <1>6, <3>2
    <3> QED BY <1>6, <3>1, <3>2, LastOrBefore
  <2>2. /\ Len(stack[n].buf) <= key_offset
        /\ \A i \in 1..Len(stack[n].buf) : stack[n].buf[i] = key_input[i]
    BY DEF KeyInv
  <2>3. Len(stack[n].buf) \in Nat
    <3>1. stack[n] \in Frames
      BY ElementOfSeq DEF StackOK, Depth
    <3>2. stack[n].buf \in Seq(1..MaxKeys)
      BY <3>1, FrameIs
    <3> QED BY <3>2, LenProperties
  <2>4. \A i \in 1..Len(stack[n].buf) : i \in 1..key_offset
    BY <1>11, <2>2, <2>3
  <2> QED BY <1>11, <2>1, <2>2, <2>3, <2>4
<1>16. delivered' \in 0..keys' /\ irqhandler'[TIMER] # "keyboard_isr"
  BY <1>1, <1>10 DEF KeyInv
<1> QED BY <1>8, <1>10, <1>11, <1>13, <1>14, <1>15, <1>16 DEF KeyInv

(* A read ends: the buffer is emptied of what was copied.                  *)
LEMMA KeyRead ==
  ASSUME SizesAssumption, StackOK, KeyInv, ReadReset
  PROVE  KeyInv'
<1>1. /\ At("read_reset") /\ key_input' = <<>> /\ delivered' = LastOf(Top.buf) /\ stack' = Below
      /\ UNCHANGED <<irqhandler, keys>>
  BY DEF ReadReset, irqVars, Return
<1>2. stack # <<>> /\ Top.fn = "read" /\ Top \in Frames
  BY <1>1, AtIs
<1>3. Depth = 1 /\ Depth' = 0
  <2>1. Depth = 1
    BY <1>2, TopIs, StepsAre
  <2> QED BY <1>1, <1>2, <2>1, Popped DEF StackOK
<1>4. key_offset' = 0 /\ key_input' \in Seq(1..MaxKeys)
  BY <1>1 DEF key_offset
<1>5. Top.buf \in Seq(1..MaxKeys) /\ Len(Top.buf) \in Nat
  <2>1. Top.buf \in Seq(1..MaxKeys)
    BY <1>2, FrameIs
  <2> QED BY <2>1, LenProperties
<1>6. delivered' \in 0..keys
  <2>1. CASE Top.buf = <<>>
    BY <1>1, <2>1 DEF LastOf, KeyInv
  <2>2. CASE Top.buf # <<>>
    <3>1. Len(Top.buf) \in 1..Len(Top.buf) /\ Len(Top.buf) >= 1
      BY <1>5, <2>2, EmptySeq
    <3>2. Len(Top.buf) <= key_offset /\ Top.buf[Len(Top.buf)] = key_input[Len(Top.buf)]
      <4>1. Top = stack[1] /\ 1 \in 1..Depth
        BY <1>3 DEF Top
      <4> QED BY <3>1, <4>1 DEF KeyInv
    <3>3. key_offset \in Nat
      BY LenProperties DEF KeyInv, key_offset
    <3>4. Len(Top.buf) \in 1..key_offset
      BY <1>5, <3>1, <3>2, <3>3
    <3>5. key_input[Len(Top.buf)] \in 1..MaxKeys /\ key_input[Len(Top.buf)] <= keys
      BY <3>4, ElementOfSeq DEF KeyInv, key_offset
    <3>6. delivered' = key_input[Len(Top.buf)] /\ keys \in Nat
      BY <1>1, <2>2, <3>2 DEF LastOf, KeyInv
    <3> QED BY <3>5, <3>6
  <2> QED BY <2>1, <2>2
<1> QED BY <1>1, <1>3, <1>4, <1>6 DEF KeyInv, SizesAssumption

LEMMA KeyStep ==
  ASSUME SizesAssumption, CallsAssumption, IInv, [Next]_vars
  PROVE  KeyInv'
<1>0. StackOK /\ MaskInv /\ KeyInv /\ irq_mask \subseteq Lines
  BY DEF IInv, MaskInv
<1>1. ASSUME UNCHANGED vars \/ UserStep \/ Halted \/ MissingIsr PROVE KeyInv'
  <2>1. UNCHANGED <<stack, key_input, keys, delivered, irqhandler>>
    BY <1>1 DEF UserStep, Halted, MissingIsr, vars, keyVars, irqVars
  <2>2. Depth' = Depth /\ \A n \in 1..Depth : Copied(stack[n])
    BY <1>0, <2>1 DEF KeyInv, Copied, Depth
  <2> QED BY <1>0, <2>1, <2>2, KeyKeep
<1>2. ASSUME NEW c \in Calls, SystemCall(c) PROVE KeyInv'
  <2>1. /\ Push(c, c) /\ c \in {"open", "close", "read", "turnoff"}
        /\ UNCHANGED <<key_input, keys, delivered, irqhandler>>
    BY <1>2 DEF SystemCall, CallsAssumption, keyVars, irqVars
  <2>2. Frame(c, c) \in Frames
    BY <2>1 DEF Frame, Frames, Pcs
  <2> QED BY <1>0, <2>1, <2>2, KeyPush
<1>3. ASSUME Tick \/ Key PROVE KeyInv'
  <2>1. PICK fn \in Interrupts : Interrupt(fn) /\ (fn = "keyboard" => keys < MaxKeys)
    BY <1>3 DEF Tick, Key, Interrupts
  <2>2. Frame(fn, "isr") \in Frames
    BY DEF Frame, Frames, Pcs, Interrupts
  <2>3. Push(fn, "isr") /\ UNCHANGED <<key_input, keys, delivered, irqhandler>>
    BY <2>1 DEF Interrupt, keyVars
  <2> QED BY <1>0, <2>1, <2>2, <2>3, KeyPush
<1>4. ASSUME TimerIsr PROVE KeyInv'
  <2>1. /\ At("isr") /\ ReadMaskGoto("end_irq") /\ UNCHANGED <<key_input, keys, delivered, irqhandler>>
    BY <1>4 DEF TimerIsr, keyVars, irqVars
  <2>2. stack # <<>> /\ <<Top.fn, "end_irq">> \in Steps
    BY <1>0, <2>1, AtIs, StepsAre
  <2> QED BY <1>0, <2>1, <2>2, KeyGoto
<1>5. ASSUME KeyboardIsr PROVE KeyInv'
  BY <1>0, <1>5, KeyArrives
<1>6. ASSUME EndIrq PROVE KeyInv'
  <2>1. /\ At("end_irq") /\ Goto("leave") /\ UNCHANGED <<key_input, keys, delivered, irqhandler>>
    BY <1>6 DEF EndIrq, enable_irq, keyVars
  <2>2. stack # <<>> /\ <<Top.fn, "leave">> \in Steps
    BY <1>0, <2>1, AtIs, StepsAre
  <2> QED BY <1>0, <2>1, <2>2, KeyGoto
<1>7. ASSUME LeaveIrq \/ Resume \/ LeaveCall PROVE KeyInv'
  <2>1. /\ stack # <<>> /\ stack' = Below /\ UNCHANGED <<key_input, keys, delivered>>
        /\ irqhandler' = irqhandler
    BY <1>7 DEF LeaveIrq, Resume, LeaveCall, At, Return, keyVars, irqVars
  <2> QED BY <1>0, <2>1, KeyPop
<1>8. ASSUME Schedule PROVE KeyInv'
  <2>1. /\ At("leave") /\ Top.fn = "timer" /\ Goto("window")
        /\ UNCHANGED <<key_input, keys, delivered, irqhandler>>
    BY <1>0, <1>8, TaskSchedule DEF Schedule, IInv, keyVars, irqVars
  <2>2. stack # <<>> /\ <<Top.fn, "window">> \in Steps
    BY <1>0, <2>1, AtIs, StepsAre
  <2> QED BY <1>0, <2>1, <2>2, KeyGoto
<1>9. ASSUME Open PROVE KeyInv'
  <2>1. PICK pc \in {"open", "open_enable", "open_write"}, next \in {"open_enable", "open_write", "end"} :
          /\ At(pc) /\ (Goto(next) \/ ReadMaskGoto(next)) /\ UNCHANGED <<key_input, keys, delivered>>
    BY <1>9 DEF Open, OpenRegister, ReadMask, enable_irq, keyVars
  <2>2. irqhandler'[TIMER] = irqhandler[TIMER]
    BY <1>0, <1>9 DEF Open, OpenRegister, ReadMask, enable_irq, irqVars, MaskInv, TIMER, KEYBOARD, Lines
  <2>3. stack # <<>> /\ <<Top.fn, next>> \in Steps /\ next # "isr"
    BY <1>0, <2>1, AtIs, StepsAre
  <2> QED BY <1>0, <2>1, <2>2, <2>3, KeyGoto
<1>10. ASSUME Close PROVE KeyInv'
  <2>1. PICK pc \in {"close", "close_disable", "close_write"}, next \in {"close_disable", "close_write", "end"} :
          /\ At(pc) /\ (Goto(next) \/ ReadMaskGoto(next)) /\ UNCHANGED <<key_input, keys, delivered>>
    BY <1>10 DEF Close, CloseUnregister, ReadMask, disable_irq, keyVars
  <2>2. irqhandler'[TIMER] = irqhandler[TIMER]
    BY <1>0, <1>10 DEF Close, CloseUnregister, ReadMask, disable_irq, irqVars, MaskInv, TIMER, KEYBOARD, Lines
  <2>3. stack # <<>> /\ <<Top.fn, next>> \in Steps /\ next # "isr"
    BY <1>0, <2>1, AtIs, StepsAre
  <2> QED BY <1>0, <2>1, <2>2, <2>3, KeyGoto
(* keyboard_read copies one more key.                                      *)
<1>11. ASSUME ReadCopy PROVE KeyInv'
  <2>1. /\ At("read") /\ UNCHANGED <<key_input, keys, delivered, irqhandler>>
    BY <1>11 DEF ReadCopy, keyVars, irqVars
  <2>2. stack # <<>> /\ Top.fn = "read" /\ Top \in Frames
    BY <1>0, <2>1, AtIs
  <2>3. PICK f \in Frames :
          /\ stack' = Append(Below, f) /\ f.fn = Top.fn
          /\ Len(Top.buf) + 1 \in 1..key_offset
          /\ f.buf = Append(Top.buf, key_input[Len(Top.buf) + 1])
    BY <1>0, <1>11, ReadCopyIs
  <2>4. Top.buf \in Seq(1..MaxKeys) /\ Len(Top.buf) \in Nat
    <3>1. Top.buf \in Seq(1..MaxKeys)
      BY <2>2, FrameIs
    <3> QED BY <3>1, LenProperties
  <2>5. \A i \in 1..Len(Top.buf) : Top.buf[i] = key_input[i]
    <3>1. Depth \in 1..Depth
      BY <1>0, <2>2, TopIs
    <3> QED BY <1>0, <3>1 DEF KeyInv, Top
  <2>6. key_input[Len(Top.buf) + 1] \in 1..MaxKeys
    BY <1>0, <2>3, ElementOfSeq DEF KeyInv, key_offset
  <2>7. /\ Len(f.buf) = Len(Top.buf) + 1 /\ f.buf[Len(Top.buf) + 1] = key_input[Len(Top.buf) + 1]
        /\ \A i \in 1..Len(Top.buf) : f.buf[i] = Top.buf[i]
    BY <2>3, <2>4, <2>6, AppendProperties
  <2>8. \A i \in 1..(Len(Top.buf) + 1) : i \in 1..Len(Top.buf) \/ i = Len(Top.buf) + 1
    BY <2>4
  <2>9. key_offset \in Nat
    BY <1>0, LenProperties DEF KeyInv, key_offset
  <2>10. Copied(f)
    <3>1. Len(f.buf) <= key_offset
      BY <2>3, <2>4, <2>7, <2>9
    <3>2. \A i \in 1..Len(f.buf) : f.buf[i] = key_input[i]
      BY <2>5, <2>7, <2>8
    <3>3. f.fn # "keyboard"
      BY <2>2, <2>3
    <3> QED BY <3>1, <3>2, <3>3 DEF Copied
  <2> QED BY <1>0, <2>1, <2>2, <2>3, <2>10, KeyTo
<1>12. ASSUME ReadAll PROVE KeyInv'
  <2>1. /\ At("read") /\ Goto("read_reset") /\ UNCHANGED <<key_input, keys, delivered, irqhandler>>
    BY <1>12 DEF ReadAll, keyVars, irqVars
  <2>2. stack # <<>> /\ <<Top.fn, "read_reset">> \in Steps
    BY <1>0, <2>1, AtIs, StepsAre
  <2> QED BY <1>0, <2>1, <2>2, KeyGoto
<1>13. ASSUME ReadReset PROVE KeyInv'
  BY <1>0, <1>13, KeyRead
<1>14. ASSUME Turnoff PROVE KeyInv'
  <2>1. PICK pc \in {"turnoff", "turnoff_2", "turnoff_stop"}, next \in {"turnoff_2", "turnoff_stop", "end"} :
          At(pc) /\ Goto(next) /\ UNCHANGED <<key_input, keys, delivered, irqhandler>>
    BY <1>14 DEF Turnoff, del_task, stop_scheduler, keyVars, irqVars
  <2>2. stack # <<>> /\ <<Top.fn, next>> \in Steps /\ next # "isr"
    BY <1>0, <2>1, AtIs, StepsAre
  <2> QED BY <1>0, <2>1, <2>2, KeyGoto
<1> QED
  BY <1>1, <1>2, <1>3, <1>4, <1>5, <1>6, <1>7, <1>8, <1>9, <1>10, <1>11, <1>12, <1>13, <1>14
  DEF Next, Execute, Handler, Call

-----------------------------------------------------------------------------
(* The invariant.                                                          *)

LEMMA InitHolds ==
  ASSUME SizesAssumption, Init
  PROVE  IInv
<1>1. /\ stack = <<>> /\ Depth = 0 /\ Bottom = "user" /\ ~InCall /\ stack \in Seq(Frames)
      /\ \A i \in 1..Depth : FALSE
  BY DEF Init, Depth, Bottom, InCall
<1>2. StackOK
  BY <1>1 DEF StackOK
<1>3. MaskInv
  <2>1. Active(0) = {}
    BY <1>1 DEF Active
  <2>2. /\ irqhandler \in [Lines -> {"timer_isr", "keyboard_isr", "ignore", NULL}]
        /\ irq_mask = {KEYBOARD} /\ Unhandled = {KEYBOARD}
    BY DEF Init, Unhandled, Lines, TIMER, KEYBOARD
  <2>3. UserMask(Bottom) /\ irq_mask \subseteq Lines
    BY <1>1, <2>1, <2>2 DEF UserMask, MaskFor, Opening, Closing, Lines
  <2> QED BY <1>1, <2>1, <2>2, <2>3 DEF MaskInv, ActiveInv, SavedMasks
<1>4. KeyInv
  <2>1. key_input = <<>> /\ key_offset = 0 /\ keys = 0 /\ delivered = 0
    BY DEF Init, key_offset
  <2>2. irqhandler[TIMER] = "timer_isr"
    BY DEF Init, Lines
  <2> QED BY <1>1, <2>1, <2>2 DEF KeyInv, SizesAssumption
<1>5. TaskInv
  <2>1. /\ task_count \in 1..3 /\ cur_task = 0 /\ schedule_enable = TRUE /\ halted = "no"
        /\ task_table = [p \in Pids |-> IF p < task_count THEN p ELSE NULL]
    BY DEF Init
  <2>2. task_count \in 1..MAX_TASK /\ cur_task \in 0..(task_count - 1) /\ 0 \in Pids
        /\ \A p \in 0..(task_count - 1) : p \in Pids /\ p < task_count
    BY <2>1 DEF SizesAssumption, Pids
  <2>3. \A p \in Pids : p # NULL
    BY DEF SizesAssumption, Pids
  <2>4. \A p \in 0..(task_count - 1) : task_table[p] = p
    BY <2>1, <2>2
  <2>5. task_table \in [Pids -> Pids \cup {NULL}]
    BY <2>1
  <2> QED BY <1>1, <2>1, <2>2, <2>3, <2>4, <2>5 DEF TaskInv, fore_task
<1>6. ContextInv
  BY <1>1 DEF Init, ContextInv, AnyContext, SizesAssumption, Pids
<1> QED BY <1>2, <1>3, <1>4, <1>5, <1>6 DEF IInv

(* The invariant of the running kernel.                                    *)
THEOREM KernelInvariant == Spec => []IInv
<1>1. Init => IInv
  BY InitHolds, SizesAssumption
<1>2. IInv /\ [Next]_vars => IInv'
  BY SizesAssumption, CallsAssumption, StackStep, MaskStep, TaskStep, ContextStep, KeyStep DEF IInv
<1> QED BY <1>1, <1>2, PTL DEF Spec

(* init_irq.c:139: user code runs with exactly the lines unmasked that     *)
(* have a handler, however do_irq and end_irq have nested.                 *)
THEOREM MasksRestored == Spec => []MaskRestored
<1>1. IInv => MaskRestored
  <2> SUFFICES ASSUME IInv, InUser PROVE irq_mask = Unhandled
    BY DEF MaskRestored, Unhandled
  <2>1. Depth = 0 /\ Bottom = "user"
    BY DEF InUser, Depth, Bottom
  <2>2. Active(0) = {}
    BY <2>1 DEF Active
  <2> QED BY <2>1, <2>2 DEF IInv, MaskInv, UserMask, Opening, Closing, MaskFor
<1> QED BY <1>1, KernelInvariant, PTL

(* schedule never leaves for an empty entry of task_table, and user code   *)
(* that runs is never that of a deleted task.                              *)
THEOREM TasksRun == Spec => []OnlyTasksRun
<1>1. IInv => OnlyTasksRun
  <2>1. IInv => halted # "next"
    BY DEF IInv, TaskInv
  <2>2. ASSUME IInv, InUser PROVE task_table[cur_task] # NULL
    <3>1. Bottom = "user"
      BY <2>2 DEF InUser, Bottom
    <3> QED BY <2>2, <3>1 DEF IInv, TaskInv
  <2> QED BY <2>1, <2>2 DEF OnlyTasksRun
<1> QED BY <1>1, KernelInvariant, PTL

(* Every task goes on in the context schedule has interrupted it in.       *)
THEOREM ContextsAreKept == Spec => []ContextsKept
<1>1. IInv => ContextsKept
  <2> SUFFICES ASSUME IInv PROVE ContextsKept
    OBVIOUS
  <2>1. InUser => Bottom = "user"
    BY DEF InUser, Bottom
  <2> QED BY <2>1 DEF IInv, ContextInv, ContextsKept
<1> QED BY <1>1, KernelInvariant, PTL

(* keyboard_read returns the keys in the order they were hit, none twice,  *)
(* whatever keys come while it copies.                                     *)
THEOREM KeysComeInOrder == Spec => []KeysInOrder
<1>1. IInv => KeysInOrder
  <2> SUFFICES ASSUME IInv, NEW n \in 1..Depth, NEW i \in 1..Len(stack[n].buf)
               PROVE  /\ stack[n].buf[i] > delivered
                      /\ i > 1 => stack[n].buf[i] > stack[n].buf[i - 1]
    BY DEF KeysInOrder
  <2>1. stack[n] \in Frames
    BY ElementOfSeq DEF IInv, StackOK, Depth
  <2>2. stack[n].buf \in Seq(1..MaxKeys)
    BY <2>1, FrameIs
  <2>3. Len(stack[n].buf) \in Nat /\ key_offset \in Nat
    BY <2>2, LenProperties DEF IInv, KeyInv, key_offset
  <2>4. /\ Len(stack[n].buf) <= key_offset
        /\ \A j \in 1..Len(stack[n].buf) : stack[n].buf[j] = key_input[j]
    BY DEF IInv, KeyInv
  <2>5. \A j \in 1..Len(stack[n].buf) : j \in 1..key_offset
    BY <2>3, <2>4
  <2>6. \A j \in 1..key_offset : key_input[j] \in 1..MaxKeys
    BY ElementOfSeq DEF IInv, KeyInv, key_offset
  <2>7. stack[n].buf[i] > delivered
    BY <2>4, <2>5, <2>6 DEF IInv, KeyInv
  <2>8. ASSUME i > 1 PROVE stack[n].buf[i] > stack[n].buf[i - 1]
    <3>1. i - 1 \in 1..Len(stack[n].buf) /\ i - 1 < i
      BY <2>3, <2>8
    <3>2. key_input[i - 1] < key_input[i]
      BY <2>5, <3>1 DEF IInv, KeyInv
    <3> QED BY <2>4, <2>5, <2>6, <3>1, <3>2
  <2> QED BY <2>7, <2>8
<1> QED BY <1>1, KernelInvariant, PTL

(* The state of the kernel has the types of its declarations; a read never *)
(* copies more than the buffer holds.                                      *)
THEOREM KernelTypes == Spec => []CaosTypeOK
<1>1. IInv => CaosTypeOK
  <2> SUFFICES ASSUME IInv PROVE CaosTypeOK
    OBVIOUS
  <2>1. ASSUME NEW i \in 1..Depth
        PROVE  stack[i].mask \subseteq Lines /\ Len(stack[i].buf) <= KEY_INPUT_MAX
    <3>1. stack[i] \in Frames
      BY ElementOfSeq DEF IInv, StackOK, Depth
    <3>2. stack[i].mask \in SUBSET Lines /\ stack[i].buf \in Seq(1..MaxKeys)
      BY <3>1, FrameIs
    <3>3. Len(stack[i].buf) \in Nat /\ key_offset \in Nat
      BY <3>2, LenProperties DEF IInv, KeyInv, key_offset
    <3>4. Len(stack[i].buf) <= key_offset /\ key_offset <= KEY_INPUT_MAX
      BY DEF IInv, KeyInv
    <3> QED BY <3>2, <3>3, <3>4, SizesAssumption DEF SizesAssumption
  <2>2. cur_task \in Pids
    BY SizesAssumption DEF IInv, TaskInv, Pids, SizesAssumption
  <2>3. /\ thread \in [Pids -> 0..(Contexts - 1) \cup {NULL}]
        /\ regs \in 0..(Contexts - 1) \cup {NULL}
    BY DEF IInv, ContextInv, AnyContext
  <2>4. delivered \in 0..MaxKeys
    BY SizesAssumption DEF IInv, KeyInv, SizesAssumption
  <2> QED BY <2>1, <2>2, <2>3, <2>4 DEF IInv, MaskInv, KeyInv, TaskInv, CaosTypeOK
<1> QED BY <1>1, KernelInvariant, PTL
=============================================================================
