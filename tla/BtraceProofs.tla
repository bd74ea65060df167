----------------------------- MODULE BtraceProofs -----------------------------
(***************************************************************************)
(* Theorems about the backtrace library, for any signals, tracers, call    *)
(* depths and first size of the buffer, and traces nested to any depth.    *)
(***************************************************************************)
EXTENDS Btrace, SequenceTheorems, TLAPS

(* The steps at which a handler can have been installed.                   *)
Tracing_steps == {"set", "global", "data", "count", "ready", "close", "unset"}
Main_steps    == Tracing_steps \cup {"quiet", "made", "stream", "clear", "drop", "over"}

Tracer_records ==
  [type : Types, attr : SUBSET {"console", "file", "signal"},
   stream : {"junk", "open", "NULL", "closed"}, data : {"junk", "buffer", "NULL"},
   size : Nat, addr_count : Nat]

Activations ==
  [bt : Tracers, depth : Depths, size : Nat,
   pc : {"backtrace", "test", "double", "realloc", "print"}, interrupted : BOOLEAN]

(* There is one tracer at most, the program's.                             *)
TracerInv ==
  /\ main \in Main_steps /\ attr \in SUBSET {"console", "file", "signal"}
  /\ ended \in {"no", "killed", "crash"} /\ early \in BOOLEAN
  /\ IF main = "quiet" THEN tracer = <<>> ELSE bt \in Tracers /\ DOMAIN tracer = {bt}
  /\ main # "quiet" => tracer \in [{bt} -> Tracer_records]

(* A signal leads to the library only while its tracer is the program's,   *)
(* or init is installing handlers; final takes them back one by one.       *)
HandlerInv ==
  /\ i \in 1..Len(sig_nums) /\ (main \notin {"set", "unset"} => i = 1)
  /\ handler \in [Signals -> {"default", "trace"}]
  /\ \A s \in Signals : handler[s] = "trace" =>
       \/ main \in {"set", "global"}
       \/ main \in {"data", "count", "ready", "close", "unset"} /\ global_btracer = bt
  /\ main = "unset" => \A j \in 1..(i - 1) : handler[sig_nums[j]] = "default"

(* Traces: all of the one tracer, and all but the last were interrupted.   *)
ActsInv ==
  /\ acts \in Seq(Activations)
  /\ acts # <<>> => main \in Tracing_steps
  /\ \A k \in 1..Len(acts) : acts[k].bt = bt
  /\ \A k \in 1..Len(acts) : k # Len(acts) => acts[k].interrupted

Enlarging == \E k \in 1..Len(acts) : acts[k].pc = "realloc"

(* glib's traces use the buffer; one that would print has found it longer  *)
(* than the stack, so none gets there while addr_count is 0.               *)
TypeInv ==
  \A k \in 1..Len(acts) :
    /\ acts[k].pc \in {"test", "double", "realloc"} => Of(bt).type = "glib"
    /\ acts[k].pc = "print" => Of(bt).type = "builtin" \/ Of(bt).addr_count # 0

(* Between init and final the tracer is complete, and its buffer has as    *)
(* many addresses as addr_count says but for traces that enlarge it and    *)
(* for a signal that came too early.  Before addr_count is set only a      *)
(* trace that never ends can have lost the buffer.                         *)
BufferInv ==
  /\ main \in {"set", "clear", "global", "data", "count", "ready", "close"} =>
       Of(bt).stream \in {"open", "NULL"}
  /\ main = "count" /\ (acts = <<>> \/ Of(bt).type = "builtin" \/ Of(bt).addr_count # 0) =>
       Of(bt).data = "buffer"
  /\ main = "count" /\ ~early => acts = <<>> /\ Of(bt).size = DEFAULT_DEPTH
  /\ main \in {"ready", "close"} =>
       /\ Of(bt).data = "buffer" /\ Of(bt).addr_count # 0
       /\ Of(bt).size = Of(bt).addr_count \/ Enlarging \/ early

(* What a trace that was not interrupted has found.                        *)
FramesInv ==
  acts # <<>> /\ ~Top.interrupted =>
    /\ Top.pc = "test" => Top.size = Filled
    /\ Top.pc = "print" => Top.size = Top.depth

IInv ==
  TracerInv /\ HandlerInv /\ ActsInv /\ TypeInv /\ BufferInv /\ FramesInv /\ CrashInWindow

-----------------------------------------------------------------------------
(* Sequences of traces.                                                    *)

LEMMA LastReplaced ==
  ASSUME NEW S, NEW s \in Seq(S), s # <<>>, NEW a \in S
  PROVE  LET r == [s EXCEPT ![Len(s)] = a]
         IN /\ r \in Seq(S) /\ Len(r) = Len(s) /\ r # <<>>
            /\ \A k \in 1..Len(s) : r[k] = IF k = Len(s) THEN a ELSE s[k]
<1>1. Len(s) \in Nat \ {0} /\ Len(s) \in 1..Len(s)
  BY EmptySeq, LenProperties
<1>2. [s EXCEPT ![Len(s)] = a] \in Seq(S) /\ Len([s EXCEPT ![Len(s)] = a]) = Len(s)
  BY <1>1, ExceptSeq
<1>3. DOMAIN s = 1..Len(s)
  BY LenProperties
<1>4. \A k \in 1..Len(s) : [s EXCEPT ![Len(s)] = a][k] = IF k = Len(s) THEN a ELSE s[k]
  BY <1>3
<1>5. [s EXCEPT ![Len(s)] = a] # <<>>
  BY <1>1, <1>2, EmptySeq
<1> QED BY <1>2, <1>4, <1>5

LEMMA LastRemoved ==
  ASSUME NEW S, NEW s \in Seq(S), s # <<>>
  PROVE  LET r == SubSeq(s, 1, Len(s) - 1)
         IN /\ r \in Seq(S) /\ Len(r) = Len(s) - 1 /\ Len(r) \in Nat
            /\ \A k \in 1..Len(r) : r[k] = s[k] /\ k \in 1..Len(s) /\ k # Len(s)
<1>1. Len(s) \in Nat \ {0}
  BY EmptySeq, LenProperties
<1> DEFINE m == Len(s) - 1
<1>2. m \in Nat /\ 1..m \subseteq 1..Len(s) /\ \A k \in 1..m : k # Len(s)
  BY <1>1
<1>3. \A k \in 1..m : s[k] \in S
  BY <1>2, ElementOfSeq
<1> HIDE DEF m
<1>4. /\ SubSeq(s, 1, m) \in Seq(S)
      /\ Len(SubSeq(s, 1, m)) = IF 1 <= m THEN m - 1 + 1 ELSE 0
      /\ \A k \in 1..(m - 1 + 1) : SubSeq(s, 1, m)[k] = s[1 + k - 1]
  BY <1>2, <1>3, SubSeqProperties
<1>5. Len(SubSeq(s, 1, m)) = m /\ \A k \in 1..m : SubSeq(s, 1, m)[k] = s[k]
  BY <1>2, <1>4
<1> QED BY <1>2, <1>4, <1>5 DEF m

LEMMA OneMore ==
  ASSUME NEW S, NEW s \in Seq(S), NEW a \in S
  PROVE  LET r == Append(s, a)
         IN /\ r \in Seq(S) /\ Len(r) = Len(s) + 1 /\ Len(s) \in Nat /\ r # <<>>
            /\ r[Len(s) + 1] = a /\ \A k \in 1..Len(s) : r[k] = s[k]
<1>1. /\ Append(s, a) \in Seq(S) /\ Len(Append(s, a)) = Len(s) + 1 /\ Len(s) \in Nat
      /\ Append(s, a)[Len(s) + 1] = a /\ \A k \in 1..Len(s) : Append(s, a)[k] = s[k]
  BY AppendProperties, LenProperties
<1>2. Append(s, a) # <<>>
  BY <1>1, EmptySeq
<1> QED BY <1>1, <1>2

-----------------------------------------------------------------------------
(* What the guards of the program's and of a trace's steps say.            *)

LEMMA TracerIs ==
  ASSUME TracerInv, main # "quiet"
  PROVE  /\ bt \in Tracers /\ tracer \in [{bt} -> Tracer_records] /\ Of(bt) \in Tracer_records
         /\ bt # NULL /\ tracer # <<>>
<1>1. bt \in Tracers /\ DOMAIN tracer = {bt} /\ tracer \in [{bt} -> Tracer_records]
  BY DEF TracerInv
<1>2. tracer # <<>>
  <2>1. DOMAIN <<>> = {}
    BY EmptySeq, LenProperties
  <2> QED BY <1>1, <2>1
<1> QED BY <1>1, <1>2, NullAssumption DEF Of

LEMMA TopIs ==
  ASSUME TracerInv, ActsInv, acts # <<>>
  PROVE  /\ Len(acts) \in Nat \ {0} /\ Len(acts) \in 1..Len(acts)
         /\ Top \in Activations /\ Top.bt = bt /\ main # "quiet" /\ main \in Tracing_steps
<1>1. acts \in Seq(Activations)
  BY DEF ActsInv
<1>2. Len(acts) \in Nat \ {0} /\ Len(acts) \in 1..Len(acts)
  BY <1>1, EmptySeq, LenProperties
<1>3. Top \in Activations
  BY <1>1, <1>2, ElementOfSeq DEF Top
<1> QED BY <1>2, <1>3 DEF ActsInv, Top, Tracing_steps

(* A change of the tracer's fields keeps one tracer.                       *)
LEMMA SetKeeps ==
  ASSUME TracerInv, main # "quiet", NEW r \in Tracer_records, Set(bt, r)
  PROVE  DOMAIN tracer' = {bt} /\ tracer' \in [{bt} -> Tracer_records] /\ tracer'[bt] = r
<1>1. tracer \in [{bt} -> Tracer_records]
  BY TracerIs
<1> QED BY <1>1 DEF Set

-----------------------------------------------------------------------------
(* One lemma per part of the invariant.                                    *)

LEMMA TracerStep ==
  ASSUME IInv, [Next]_vars
  PROVE  TracerInv'
<1> USE DEF Goto, At, Main_steps, Tracing_steps
<1>0. TracerInv /\ ActsInv
  BY DEF IInv
<1>1. ASSUME NEW r \in Tracer_records, Set(bt, r), main # "quiet", main' # "quiet", main' \in Main_steps,
             bt' = bt, attr' \in SUBSET {"console", "file", "signal"}, ended' = ended, early' = early
      PROVE  TracerInv'
  BY <1>0, <1>1, SetKeeps, TracerIs DEF TracerInv
<1>2. ASSUME tracer' = tracer, bt' = bt, attr' = attr, main' \in Main_steps,
             main' = "quiet" <=> main = "quiet", ended' \in {"no", "killed", "crash"}, early' \in BOOLEAN
      PROVE  TracerInv'
  BY <1>0, <1>2 DEF TracerInv
<1>3. CASE get_instance
  <2>1. PICK b \in Tracers, type \in Types, data \in {"junk", "NULL"}, count \in JunkCounts :
          tracer' = [c \in {b} |-> Fresh(type, data, count)] /\ bt' = b
    BY <1>3 DEF get_instance
  <2>2. Fresh(type, data, count) \in Tracer_records
    BY <2>1, JunkAssumption DEF Fresh, Tracer_records
  <2>3. DOMAIN tracer' = {bt'} /\ tracer' \in [{bt'} -> Tracer_records]
    BY <2>1, <2>2
  <2> QED BY <1>0, <1>3, <2>1, <2>3 DEF get_instance, TracerInv
<1>4. CASE InitStart
  <2>1. PICK a \in Attrs : attr' = a /\ Set(bt, [tracer[bt] EXCEPT !.attr = a])
    BY <1>4 DEF InitStart
  <2>2. a \in SUBSET {"console", "file", "signal"}
    BY <2>1 DEF Attrs
  <2>3. [tracer[bt] EXCEPT !.attr = a] \in Tracer_records
    BY <1>0, <1>4, <2>2, TracerIs DEF InitStart, Of, Tracer_records
  <2> QED BY <1>1, <1>4, <2>1, <2>2, <2>3 DEF InitStart
<1>5. CASE InitStream \/ InitStreamFails
  <2>1. PICK x \in {"open", "NULL"} : Set(bt, [tracer[bt] EXCEPT !.stream = x])
    BY <1>5 DEF InitStream, InitStreamFails
  <2>2. [tracer[bt] EXCEPT !.stream = x] \in Tracer_records
    BY <1>0, <1>5, TracerIs DEF InitStream, InitStreamFails, Of, Tracer_records
  <2> QED BY <1>0, <1>1, <1>5, <2>1, <2>2 DEF InitStream, InitStreamFails, TracerInv
<1>6. CASE InitRefused \/ InitSignals \/ InitGlobal \/ InitNoGlobal \/ FinalSignals \/ Trace
  BY <1>0, <1>2, <1>6
     DEF InitRefused, InitSignals, InitGlobal, InitNoGlobal, FinalSignals, Trace, SetSignal, TracerInv
<1>7. CASE InitData \/ InitCount
  <2>1. PICK r \in Tracer_records : Set(bt, r)
    <3>1. /\ [tracer[bt] EXCEPT !.data = "buffer", !.size = DEFAULT_DEPTH] \in Tracer_records
          /\ [tracer[bt] EXCEPT !.addr_count = DEFAULT_DEPTH] \in Tracer_records
      BY <1>0, <1>7, TracerIs, DepthAssumption DEF InitData, InitCount, Of, Tracer_records
    <3> QED BY <1>7, <3>1 DEF InitData, InitCount
  <2> QED BY <1>0, <1>1, <1>7, <2>1 DEF InitData, InitCount, TracerInv
<1>8. CASE FinalAttr
  <2>1. [tracer[bt] EXCEPT !.attr = {}] \in Tracer_records
    BY <1>0, <1>8, TracerIs DEF FinalAttr, Of, Tracer_records
  <2> QED BY <1>0, <1>1, <1>8, <2>1 DEF FinalAttr, TracerInv
<1>9. CASE FinalStream
  <2>1. [tracer[bt] EXCEPT !.stream = IF @ = "NULL" THEN @ ELSE "closed"] \in Tracer_records
    BY <1>0, <1>9, TracerIs DEF FinalStream, Of, Tracer_records
  <2> QED BY <1>0, <1>1, <1>9, <2>1 DEF FinalStream, TracerInv
<1>10. CASE FinalData
  <2>1. [tracer[bt] EXCEPT !.data = "NULL", !.size = 0, !.addr_count = 0] \in Tracer_records
    BY <1>0, <1>10, TracerIs DEF FinalData, Of, Tracer_records
  <2> QED BY <1>0, <1>1, <1>10, <2>1 DEF FinalData, TracerInv
<1>11. CASE free_instance
  BY <1>0, <1>11 DEF free_instance, TracerInv
<1>12. CASE \E s \in Signals : Signal(s) \/ Kill(s)
  BY <1>0, <1>2, <1>12 DEF Signal, Kill, Crash, TracerInv
<1>13. CASE Backtrace \/ Walk \/ Test \/ PrintFrames
  BY <1>0, <1>2, <1>13 DEF Backtrace, Walk, Test, PrintFrames, Crash, TracerInv
<1>14. CASE Double \/ Realloc
  <2>1. acts # <<>> /\ main # "quiet" /\ Top.bt = bt /\ ended = "no" /\ UNCHANGED <<main, bt, attr, early>>
    BY <1>0, <1>14, TopIs DEF Double, Realloc, Tracing
  <2>2. Of(bt) \in Tracer_records
    BY <1>0, <2>1, TracerIs
  <2>6. [Of(bt) EXCEPT !.addr_count = 2 * @] \in Tracer_records
    BY <2>2 DEF Tracer_records
  <2>7. ASSUME NEW x \in {"buffer", "NULL"}
        PROVE  [Of(bt) EXCEPT !.data = x, !.size = Of(bt).addr_count] \in Tracer_records
    BY <2>2 DEF Tracer_records
  <2>3. [Of(bt) EXCEPT !.addr_count = 2 * @] \in Tracer_records /\ Reallocated(Of(bt)) \in Tracer_records
    BY <2>6, <2>7 DEF Reallocated
  <2>4. CASE Crash
    BY <1>0, <1>2, <2>1, <2>4 DEF Crash, TracerInv
  <2>5. CASE UNCHANGED ended /\ \E r \in Tracer_records : Set(bt, r)
    BY <1>0, <1>1, <2>1, <2>5 DEF TracerInv
  <2> QED BY <1>14, <2>1, <2>3, <2>4, <2>5 DEF Double, Realloc
<1>15. CASE UNCHANGED vars
  BY <1>0, <1>15 DEF vars, TracerInv
<1> QED BY <1>3, <1>4, <1>5, <1>6, <1>7, <1>8, <1>9, <1>10, <1>11, <1>12, <1>13, <1>14, <1>15
        DEF Next, Program, Tracer

LEMMA SignalsAre ==
  /\ Len(sig_nums) \in Nat \ {0} /\ 1 \in 1..Len(sig_nums)
  /\ \A j \in 1..Len(sig_nums) : sig_nums[j] \in Signals
  /\ \A s \in Signals : \E j \in 1..Len(sig_nums) : s = sig_nums[j]
<1>1. Len(sig_nums) \in Nat \ {0}
  BY SignalsAssumption, EmptySeq, LenProperties
<1> QED BY <1>1 DEF Signals

LEMMA HandlerStep ==
  ASSUME IInv, [Next]_vars
  PROVE  HandlerInv'
<1> USE SignalsAre DEF Goto, At
<1>0. TracerInv /\ HandlerInv /\ i \in 1..Len(sig_nums) /\ handler \in [Signals -> {"default", "trace"}]
  BY DEF IInv, HandlerInv
<1>1. ASSUME handler' = handler, i' = i, main' \notin {"set", "unset"}, main \notin {"set", "unset"},
             \A s \in Signals : handler[s] = "trace" =>
               main' = "global" \/ (main' \in {"data", "count", "ready", "close"} /\ global_btracer' = bt')
      PROVE  HandlerInv'
  BY <1>0, <1>1 DEF HandlerInv
<1>2. ASSUME UNCHANGED <<main, i, bt, global_btracer>>, handler' \in [Signals -> {"default", "trace"}],
             \A s \in Signals : handler'[s] = "trace" => handler[s] = "trace"
      PROVE  HandlerInv'
  <2>1. main = "unset" => \A j \in 1..(i - 1) : handler'[sig_nums[j]] = "default"
    <3> SUFFICES ASSUME main = "unset", NEW j \in 1..(i - 1) PROVE handler'[sig_nums[j]] = "default"
      OBVIOUS
    <3>1. j \in 1..Len(sig_nums) /\ sig_nums[j] \in Signals
      BY <1>0
    <3> QED BY <1>2, <3>1 DEF IInv, HandlerInv
  <2> QED BY <1>0, <1>2, <2>1 DEF HandlerInv
<1>3. CASE get_instance \/ InitStart \/ InitRefused \/ InitStreamFails \/ free_instance \/ FinalData
  BY <1>0, <1>1, <1>3
     DEF get_instance, InitStart, InitRefused, InitStreamFails, free_instance, FinalData, HandlerInv
<1>4. CASE InitStream
  <2>1. /\ handler' = handler /\ i' = 1 /\ main' \in {"set", "clear"}
        /\ \A s \in Signals : handler[s] # "trace"
    BY <1>0, <1>4 DEF InitStream, HandlerInv
  <2> QED BY <1>0, <2>1 DEF HandlerInv
<1>5. CASE InitSignals
  <2>1. handler' = [handler EXCEPT ![sig_nums[i]] = "trace"] /\ main' \in {"set", "global"}
    BY <1>5 DEF InitSignals, SetSignal
  <2>2. i' \in 1..Len(sig_nums) /\ (main' # "set" => i' = 1)
    BY <1>0, <1>5 DEF InitSignals, SetSignal
  <2> QED BY <1>0, <2>1, <2>2 DEF HandlerInv
<1>6. CASE InitGlobal \/ InitNoGlobal \/ InitData \/ InitCount \/ FinalAttr
  BY <1>0, <1>1, <1>6 DEF InitGlobal, InitNoGlobal, InitData, InitCount, FinalAttr, HandlerInv
<1>7. CASE FinalStream
  <2>1. /\ i' = 1 /\ handler' = handler /\ UNCHANGED <<bt, global_btracer>> /\ main = "close"
        /\ main' = IF global_btracer # NULL THEN "unset" ELSE "drop"
    BY <1>0, <1>7 DEF FinalStream, HandlerInv
  <2>2. bt # NULL
    BY <1>0, <2>1, TracerIs
  <2>3. \A s \in Signals : handler[s] = "trace" => main' = "unset" /\ global_btracer' = bt'
    BY <1>0, <2>1, <2>2 DEF HandlerInv
  <2> QED BY <1>0, <2>1, <2>3 DEF HandlerInv
<1>8. CASE FinalSignals
  <2>1. /\ handler' = [handler EXCEPT ![sig_nums[i]] = "default"] /\ main = "unset"
        /\ i' = IF i = Len(sig_nums) THEN 1 ELSE i + 1
        /\ main' = IF i = Len(sig_nums) THEN "drop" ELSE "unset"
        /\ UNCHANGED <<bt, global_btracer>>
    BY <1>8 DEF FinalSignals, SetSignal
  <2>2. i' \in 1..Len(sig_nums) /\ (main' # "unset" => i' = 1)
    BY <1>0, <2>1
  <2>3. \A j \in 1..i : handler'[sig_nums[j]] = "default"
    <3> SUFFICES ASSUME NEW j \in 1..i PROVE handler'[sig_nums[j]] = "default"
      OBVIOUS
    <3>1. j \in 1..Len(sig_nums) /\ (j = i \/ j \in 1..(i - 1))
      BY <1>0
    <3> QED BY <1>0, <2>1, <3>1 DEF HandlerInv
  <2>4. main' = "drop" => \A s \in Signals : handler'[s] # "trace"
    BY <2>1, <2>3
  <2>5. main' = "unset" => i' - 1 = i
    BY <1>0, <2>1
  <2>6. \A s \in Signals : handler[s] = "trace" => global_btracer' = bt'
    BY <1>0, <2>1 DEF HandlerInv
  <2>7. handler' \in [Signals -> {"default", "trace"}]
    BY <1>0, <2>1
  <2>8. \A s \in Signals : handler'[s] = "trace" => handler[s] = "trace"
    BY <1>0, <2>1
  <2> QED BY <2>1, <2>2, <2>3, <2>4, <2>5, <2>6, <2>7, <2>8 DEF HandlerInv
<1>9. CASE \E s \in Signals : Signal(s)
  BY <1>0, <1>2, <1>9 DEF Signal
<1>10. CASE (\E s \in Signals : Kill(s)) \/ Trace \/ Tracer \/ UNCHANGED vars
  BY <1>0, <1>2, <1>10 DEF Kill, Trace, Tracer, Backtrace, Walk, Test, Double, Realloc, PrintFrames, vars
<1> QED BY <1>3, <1>4, <1>5, <1>6, <1>7, <1>8, <1>9, <1>10 DEF Next, Program

(* A signal that finds a tracer: every trace under way is interrupted, and *)
(* the handler's trace of the same tracer begins.                          *)
LEMMA SignalTraces ==
  ASSUME TracerInv, ActsInv, HandlerInv, NEW s \in Signals, Signal(s), Alive(global_btracer)
  PROVE  /\ acts' \in Seq(Activations) /\ Len(acts') = Len(acts) + 1 /\ Len(acts) \in Nat
         /\ acts'[Len(acts) + 1].bt = bt /\ acts'[Len(acts) + 1].pc = "backtrace"
         /\ \A k \in 1..Len(acts) :
              acts'[k].bt = bt /\ acts'[k].interrupted /\ acts'[k].pc = acts[k].pc
<1> DEFINE stopped == [k \in 1..Len(acts) |-> [acts[k] EXCEPT !.interrupted = TRUE]]
<1>1. PICK d \in Depths : acts' = Append(stopped, Activation(global_btracer, d))
  BY DEF Signal
<1>2. main # "quiet"
  BY DEF HandlerInv, Signal
<1>3. global_btracer = bt
  BY <1>2 DEF Alive, TracerInv
<1>4. /\ Activation(bt, d) \in Activations /\ Activation(bt, d).bt = bt
      /\ Activation(bt, d).pc = "backtrace"
  BY <1>2, TracerIs DEF Activation, Activations
<1>5. acts \in Seq(Activations) /\ Len(acts) \in Nat
  BY LenProperties DEF ActsInv
<1>6. ASSUME NEW k \in 1..Len(acts)
      PROVE  LET a == [acts[k] EXCEPT !.interrupted = TRUE]
             IN a \in Activations /\ a.bt = bt /\ a.interrupted /\ a.pc = acts[k].pc
  <2>1. acts[k] \in Activations /\ acts[k].bt = bt
    BY <1>5, ElementOfSeq DEF ActsInv
  <2> QED BY <2>1 DEF Activations
<1>7. stopped \in Seq(Activations) /\ Len(stopped) = Len(acts)
  BY <1>5, <1>6, IsASeq
<1>8. \A k \in 1..Len(acts) :
        stopped[k].bt = bt /\ stopped[k].interrupted /\ stopped[k].pc = acts[k].pc
  BY <1>6
<1> HIDE DEF stopped
<1>9. /\ acts' \in Seq(Activations) /\ Len(acts') = Len(acts) + 1
      /\ acts'[Len(acts) + 1] = Activation(bt, d)
      /\ \A k \in 1..Len(acts) : acts'[k] = stopped[k]
  BY <1>1, <1>3, <1>4, <1>7, OneMore
<1> QED BY <1>4, <1>5, <1>8, <1>9

LEMMA ActsStep ==
  ASSUME IInv, [Next]_vars
  PROVE  ActsInv'
<1> USE DEF Goto, At
<1>0. TracerInv /\ ActsInv /\ HandlerInv
  BY DEF IInv
<1>1. ASSUME acts = <<>>, acts' = acts
      PROVE  ActsInv'
  <2>1. acts' = <<>> /\ Len(acts') = 0
    BY <1>1, EmptySeq
  <2> QED BY <2>1, EmptySeq DEF ActsInv
<1>2. ASSUME acts' = acts, UNCHANGED <<main, bt>>
      PROVE  ActsInv'
  BY <1>0, <1>2 DEF ActsInv
<1>3. ASSUME acts # <<>>, UNCHANGED <<main, bt>>,
             NEW a \in Activations, a.bt = bt, Advance(a)
      PROVE  ActsInv'
  <2>1. acts \in Seq(Activations) /\ main \in Tracing_steps
    BY <1>0, <1>3 DEF ActsInv
  <2>2. /\ acts' \in Seq(Activations) /\ Len(acts') = Len(acts)
        /\ \A k \in 1..Len(acts) : acts'[k] = IF k = Len(acts) THEN a ELSE acts[k]
    BY <1>3, <2>1, LastReplaced DEF Advance
  <2> QED BY <1>0, <1>3, <2>1, <2>2 DEF ActsInv
<1>4. CASE Program /\ ~Trace
  <2>1. acts = <<>> /\ acts' = acts
    BY <1>4 DEF Program, get_instance, InitStart, InitRefused, InitStream, InitStreamFails, InitSignals,
                InitGlobal, InitNoGlobal, InitData, InitCount, FinalAttr, FinalStream, FinalSignals, FinalData,
                free_instance, SetSignal
  <2> QED BY <1>1, <2>1
<1>5. CASE Trace
  <2>1. PICK d \in Depths : acts' = <<Activation(bt, d)>>
    BY <1>5 DEF Trace
  <2>2. main = "ready" /\ UNCHANGED <<main, bt>>
    BY <1>5 DEF Trace
  <2>3. Activation(bt, d) \in Activations /\ Activation(bt, d).bt = bt
    BY <1>0, <2>2, TracerIs DEF Activation, Activations
  <2>4. acts' \in Seq(Activations) /\ Len(acts') = 1 /\ acts'[1] = Activation(bt, d)
    BY <2>1, <2>3
  <2> QED BY <2>2, <2>3, <2>4 DEF ActsInv, Tracing_steps
<1>6. ASSUME NEW s \in Signals, Signal(s)
      PROVE  ActsInv'
  <2>1. UNCHANGED <<main, bt, global_btracer>> /\ handler[s] = "trace"
    BY <1>6 DEF Signal
  <2>2. CASE Alive(global_btracer)
    <3>1. /\ acts' \in Seq(Activations) /\ Len(acts') = Len(acts) + 1 /\ Len(acts) \in Nat
          /\ acts'[Len(acts) + 1].bt = bt
          /\ \A k \in 1..Len(acts) : acts'[k].bt = bt /\ acts'[k].interrupted
      BY <1>0, <1>6, <2>2, SignalTraces
    <3>2. main \in Tracing_steps
      BY <1>0, <2>1 DEF HandlerInv, Tracing_steps
    <3>10. \A k \in 1..Len(acts') : k = Len(acts') \/ k \in 1..Len(acts)
      BY <3>1
    <3>11. \A k \in 1..Len(acts') : acts'[k].bt = bt
      BY <3>1, <3>10
    <3>12. \A k \in 1..Len(acts') : k # Len(acts') => acts'[k].interrupted
      BY <3>1, <3>10
    <3> QED BY <2>1, <3>1, <3>2, <3>11, <3>12 DEF ActsInv
  <2>3. CASE ~Alive(global_btracer)
    BY <1>2, <1>6, <2>1, <2>3 DEF Signal, Crash
  <2> QED BY <2>2, <2>3
<1>7. CASE Backtrace \/ Walk \/ Test \/ Double \/ Realloc
  <2>1. acts # <<>> /\ UNCHANGED <<main, bt>>
    BY <1>7 DEF Backtrace, Walk, Test, Double, Realloc, Tracing
  <2>2. Top \in Activations /\ Top.bt = bt /\ Of(bt) \in Tracer_records
    BY <1>0, <2>1, TopIs, TracerIs
  <2>3. Filled \in Nat /\ Top.depth \in Nat
    BY <2>2, DepthAssumption DEF Filled, MIN, Activations, Tracer_records
  <2>4. ASSUME NEW n \in Nat, NEW l \in {"backtrace", "test", "double", "realloc", "print"}
        PROVE  /\ [Top EXCEPT !.size = n, !.pc = l] \in Activations
               /\ [Top EXCEPT !.size = n, !.pc = l].bt = bt
               /\ [Top EXCEPT !.pc = l] \in Activations /\ [Top EXCEPT !.pc = l].bt = bt
    BY <2>2 DEF Activations
  <2>5. CASE Backtrace
    <3>1. CASE Advance([Top EXCEPT !.size = Filled, !.pc = "test"])
      BY <1>3, <2>1, <2>3, <2>4, <3>1
    <3>2. CASE Crash
      BY <1>2, <2>1, <3>2 DEF Crash
    <3> QED BY <2>5, <3>1, <3>2 DEF Backtrace
  <2>6. CASE Walk
    BY <1>3, <2>1, <2>3, <2>4, <2>6 DEF Walk
  <2>7. CASE Test
    BY <1>3, <2>1, <2>4, <2>7 DEF Test
  <2>8. CASE Double
    BY <1>3, <2>1, <2>4, <2>8 DEF Double
  <2>9. CASE Realloc
    <3>1. CASE Crash
      BY <1>2, <2>1, <3>1 DEF Crash
    <3>2. CASE Advance([Top EXCEPT !.pc = "backtrace"])
      BY <1>3, <2>1, <2>4, <3>2
    <3> QED BY <2>9, <3>1, <3>2 DEF Realloc
  <2> QED BY <1>7, <2>5, <2>6, <2>7, <2>8, <2>9
<1>8. CASE PrintFrames
  <2>1. acts # <<>> /\ UNCHANGED <<main, bt>>
    BY <1>8 DEF PrintFrames, Tracing
  <2>2. CASE acts' = SubSeq(acts, 1, Len(acts) - 1)
    <3>1. /\ acts' \in Seq(Activations) /\ Len(acts') \in Nat
          /\ \A k \in 1..Len(acts') : acts'[k] = acts[k] /\ k \in 1..Len(acts) /\ k # Len(acts)
      BY <1>0, <2>1, <2>2, LastRemoved DEF ActsInv
    <3> QED BY <1>0, <2>1, <3>1 DEF ActsInv
  <2>3. CASE Crash
    BY <1>2, <2>1, <2>3 DEF Crash
  <2> QED BY <1>8, <2>2, <2>3 DEF PrintFrames
<1>9. CASE (\E s \in Signals : Kill(s)) \/ UNCHANGED vars
  BY <1>2, <1>9 DEF Kill, vars
<1> QED BY <1>4, <1>5, <1>6, <1>7, <1>8, <1>9 DEF Next, Tracer

(* Which of its steps a trace can be at.                                   *)
LEMMA TypeStep ==
  ASSUME IInv, [Next]_vars
  PROVE  TypeInv'
<1> USE DEF Goto, At
<1>0. TracerInv /\ ActsInv /\ HandlerInv /\ TypeInv
  BY DEF IInv
<1>1. ASSUME acts' = <<>> PROVE TypeInv'
  BY <1>1, EmptySeq DEF TypeInv
<1>2. ASSUME UNCHANGED <<acts, tracer, bt>> PROVE TypeInv'
  BY <1>0, <1>2 DEF TypeInv, Of
<1>3. ASSUME acts # <<>>, NEW a \in Activations, Advance(a), bt' = bt,
             Of(bt)'.type = Of(bt).type, Of(bt).addr_count # 0 => Of(bt)'.addr_count # 0,
             a.pc \in {"test", "double", "realloc"} => Of(bt).type = "glib",
             a.pc = "print" => Of(bt).type = "builtin" \/ Of(bt).addr_count # 0
      PROVE  TypeInv'
  <2>1. /\ Len(acts') = Len(acts)
        /\ \A k \in 1..Len(acts) : acts'[k] = IF k = Len(acts) THEN a ELSE acts[k]
    BY <1>0, <1>3, LastReplaced DEF Advance, ActsInv
  <2> QED BY <1>0, <1>3, <2>1 DEF TypeInv
<1>4. CASE Program /\ ~Trace
  <2>1. acts' = <<>>
    BY <1>4 DEF Program, get_instance, InitStart, InitRefused, InitStream, InitStreamFails, InitSignals,
                InitGlobal, InitNoGlobal, InitData, InitCount, FinalAttr, FinalStream, FinalSignals,
                FinalData, free_instance, SetSignal
  <2> QED BY <1>1, <2>1
<1>5. CASE Trace
  <2>1. PICK d \in Depths : acts' = <<Activation(bt, d)>>
    BY <1>5 DEF Trace
  <2>2. Len(acts') = 1 /\ \A k \in 1..Len(acts') : acts'[k].pc = "backtrace"
    BY <2>1 DEF Activation
  <2> QED BY <2>2 DEF TypeInv
<1>6. ASSUME NEW s \in Signals, Signal(s) PROVE TypeInv'
  <2>1. CASE Alive(global_btracer)
    <3>1. /\ Len(acts') = Len(acts) + 1 /\ Len(acts) \in Nat
          /\ acts'[Len(acts) + 1].pc = "backtrace"
          /\ \A k \in 1..Len(acts) : acts'[k].pc = acts[k].pc
      BY <1>0, <1>6, <2>1, SignalTraces
    <3>2. UNCHANGED <<tracer, bt>>
      BY <1>6, <2>1 DEF Signal
    <3>3. \A k \in 1..Len(acts') : k = Len(acts) + 1 \/ k \in 1..Len(acts)
      BY <3>1
    <3> QED BY <1>0, <3>1, <3>2, <3>3 DEF TypeInv, Of
  <2>2. CASE ~Alive(global_btracer)
    BY <1>2, <1>6, <2>2 DEF Signal, Crash
  <2> QED BY <2>1, <2>2
<1>7. ASSUME acts # <<>>
      PROVE  /\ Top \in Activations /\ Of(bt) \in Tracer_records /\ Top.bt = bt /\ main # "quiet"
             /\ Filled \in Nat /\ Top.depth \in Nat
             /\ Top.pc \in {"test", "double", "realloc"} => Of(bt).type = "glib"
             /\ Top.pc = "print" => Of(bt).type = "builtin" \/ Of(bt).addr_count # 0
  <2>1. /\ Top \in Activations /\ Top.bt = bt /\ Of(bt) \in Tracer_records /\ main # "quiet"
        /\ Len(acts) \in 1..Len(acts)
    BY <1>0, <1>7, TopIs, TracerIs
  <2>2. Filled \in Nat /\ Top.depth \in Nat
    BY <2>1, DepthAssumption DEF Filled, MIN, Activations, Tracer_records
  <2> QED BY <1>0, <2>1, <2>2 DEF TypeInv, Top
<1>8. ASSUME acts # <<>>, NEW n \in Nat, NEW l \in {"backtrace", "test", "double", "realloc", "print"}
      PROVE  /\ [Top EXCEPT !.pc = l] \in Activations /\ [Top EXCEPT !.pc = l].pc = l
             /\ [Top EXCEPT !.size = n, !.pc = l] \in Activations
             /\ [Top EXCEPT !.size = n, !.pc = l].pc = l
  BY <1>7, <1>8 DEF Activations
<1>9. CASE Backtrace
  <2>1. acts # <<>> /\ bt' = bt /\ Of(bt).type = "glib"
    BY <1>7, <1>9 DEF Backtrace, Tracing
  <2>2. CASE Advance([Top EXCEPT !.size = Filled, !.pc = "test"]) /\ UNCHANGED <<tracer, ended>>
    <3> DEFINE a == [Top EXCEPT !.size = Filled, !.pc = "test"]
    <3>1. a \in Activations /\ a.pc = "test" /\ Advance(a)
      BY <1>7, <1>8, <2>1, <2>2
    <3> HIDE DEF a
    <3> QED BY <1>3, <2>1, <2>2, <3>1 DEF Of
  <2>3. CASE Crash
    BY <1>2, <2>1, <2>3 DEF Crash
  <2> QED BY <1>9, <2>2, <2>3 DEF Backtrace
<1>10. CASE Walk
  <2>1. acts # <<>> /\ UNCHANGED <<bt, tracer>> /\ Of(bt).type = "builtin"
    BY <1>7, <1>10 DEF Walk, Tracing
  <2> DEFINE a == [Top EXCEPT !.size = Top.depth, !.pc = "print"]
  <2>2. a \in Activations /\ a.pc = "print" /\ Advance(a)
    BY <1>7, <1>8, <1>10, <2>1 DEF Walk
  <2> HIDE DEF a
  <2> QED BY <1>3, <2>1, <2>2 DEF Of
<1>11. CASE Test
  <2>1. acts # <<>> /\ UNCHANGED <<bt, tracer>> /\ Of(bt).type = "glib" /\ Top.bt = bt
    BY <1>7, <1>11 DEF Test, Tracing
  <2> DEFINE l == IF Top.size < Of(Top.bt).addr_count THEN "print" ELSE "double"
             a == [Top EXCEPT !.pc = l]
  <2>2. a \in Activations /\ a.pc = l /\ Advance(a)
    BY <1>8, <1>11, <2>1 DEF Test
  <2>3. l = "print" => Of(bt).addr_count # 0
    <3>1. Top.size \in Nat
      BY <1>7, <2>1 DEF Activations
    <3> QED BY <2>1, <3>1
  <2> HIDE DEF a, l
  <2> QED BY <1>3, <2>1, <2>2, <2>3 DEF Of
<1>12. CASE Double
  <2>1. acts # <<>> /\ bt' = bt /\ Of(bt).type = "glib" /\ Top.bt = bt /\ main # "quiet"
    BY <1>7, <1>12 DEF Double, Tracing
  <2>2. Of(bt)' = [Of(bt) EXCEPT !.addr_count = 2 * @]
    BY <1>0, <1>12, <2>1, TracerIs DEF Double, Set, Of
  <2>3. Of(bt)'.type = Of(bt).type /\ (Of(bt).addr_count # 0 => Of(bt)'.addr_count # 0)
    BY <1>7, <2>1, <2>2 DEF Tracer_records
  <2> DEFINE a == [Top EXCEPT !.pc = "realloc"]
  <2>4. a \in Activations /\ a.pc = "realloc" /\ Advance(a)
    BY <1>8, <1>12, <2>1 DEF Double
  <2> HIDE DEF a
  <2> QED BY <1>3, <2>1, <2>3, <2>4
<1>13. CASE Realloc
  <2>1. acts # <<>> /\ bt' = bt /\ Top.bt = bt /\ main # "quiet"
    BY <1>7, <1>13 DEF Realloc, Tracing
  <2>2. CASE Crash
    BY <1>2, <2>1, <2>2 DEF Crash
  <2>3. CASE Set(Top.bt, Reallocated(Of(Top.bt))) /\ Advance([Top EXCEPT !.pc = "backtrace"])
    <3>1. Of(bt)' = Reallocated(Of(bt))
      BY <1>0, <2>1, <2>3, TracerIs DEF Set, Of
    <3>2. Of(bt)'.type = Of(bt).type /\ Of(bt)'.addr_count = Of(bt).addr_count
      BY <1>7, <2>1, <3>1 DEF Tracer_records, Reallocated
    <3> DEFINE a == [Top EXCEPT !.pc = "backtrace"]
    <3>3. a \in Activations /\ a.pc = "backtrace" /\ Advance(a)
      BY <1>8, <2>1, <2>3
    <3> HIDE DEF a
    <3> QED BY <1>3, <2>1, <3>2, <3>3
  <2> QED BY <1>13, <2>2, <2>3 DEF Realloc
<1>14. CASE PrintFrames
  <2>1. acts # <<>> /\ UNCHANGED <<tracer, bt>>
    BY <1>14 DEF PrintFrames, Tracing, Crash
  <2>2. CASE acts' = SubSeq(acts, 1, Len(acts) - 1)
    <3>1. \A k \in 1..Len(acts') : acts'[k] = acts[k] /\ k \in 1..Len(acts)
      BY <1>0, <2>1, <2>2, LastRemoved DEF ActsInv
    <3> QED BY <1>0, <2>1, <3>1 DEF TypeInv, Of
  <2>3. CASE Crash
    BY <1>2, <2>1, <2>3 DEF Crash
  <2> QED BY <1>14, <2>2, <2>3 DEF PrintFrames
<1>15. CASE (\E s \in Signals : Kill(s)) \/ UNCHANGED vars
  BY <1>2, <1>15 DEF Kill, vars
<1> QED BY <1>4, <1>5, <1>6, <1>9, <1>10, <1>11, <1>12, <1>13, <1>14, <1>15 DEF Next, Tracer

(* The buffer, while traces come and go.                                   *)
LEMMA BufferStep ==
  ASSUME IInv, [Next]_vars
  PROVE  BufferInv'
<1> USE DEF Goto, At
<1>0. TracerInv /\ ActsInv /\ HandlerInv /\ TypeInv /\ BufferInv
  BY DEF IInv
<1>1. ASSUME UNCHANGED <<tracer, main, bt>>, early => early',
             main \in {"ready", "close"} /\ Enlarging => Enlarging',
             main = "count" /\ acts' = <<>> =>
               acts = <<>> \/ Of(bt).type = "builtin" \/ Of(bt).addr_count # 0,
             main = "count" /\ ~early' => acts' = acts
      PROVE  BufferInv'
  BY <1>0, <1>1 DEF BufferInv, Of
<1>2. ASSUME main' \notin {"set", "clear", "global", "data", "count", "ready", "close"}
      PROVE  BufferInv'
  BY <1>2 DEF BufferInv
<1>3. CASE get_instance \/ InitStart \/ InitRefused \/ InitStreamFails
            \/ FinalStream \/ FinalSignals \/ FinalData \/ free_instance
  BY <1>2, <1>3 DEF get_instance, InitStart, InitRefused, InitStreamFails,
                    FinalStream, FinalSignals, SetSignal, FinalData, free_instance
<1>4. CASE InitStream
  <2>1. main' \in {"set", "clear"} /\ bt' = bt /\ main # "quiet"
    BY <1>4 DEF InitStream
  <2>2. Of(bt)' = [tracer[bt] EXCEPT !.stream = IF "file" \in attr THEN "open" ELSE "NULL"]
    BY <1>0, <1>4, <2>1, TracerIs DEF InitStream, Set, Of
  <2>3. Of(bt)'.stream \in {"open", "NULL"}
    BY <1>0, <2>1, <2>2, TracerIs DEF Of, Tracer_records
  <2> QED BY <2>1, <2>3 DEF BufferInv
<1>5. CASE InitSignals \/ InitGlobal \/ InitNoGlobal
  BY <1>0, <1>5 DEF InitSignals, SetSignal, InitGlobal, InitNoGlobal, BufferInv, Of
<1>6. CASE InitData
  <2>1. main = "data" /\ main' = "count" /\ bt' = bt /\ acts' = <<>>
    BY <1>6 DEF InitData
  <2>2. Of(bt)' = [tracer[bt] EXCEPT !.data = "buffer", !.size = DEFAULT_DEPTH]
    BY <1>0, <1>6, <2>1, TracerIs DEF InitData, Set, Of
  <2>3. /\ Of(bt)'.stream = Of(bt).stream /\ Of(bt)'.data = "buffer"
        /\ Of(bt)'.size = DEFAULT_DEPTH
    BY <1>0, <2>1, <2>2, TracerIs DEF Of, Tracer_records
  <2> QED BY <1>0, <2>1, <2>3 DEF BufferInv
<1>16. CASE InitCount
  <2>1. main = "count" /\ main' = "ready" /\ bt' = bt /\ acts = <<>> /\ early' = early
    BY <1>16 DEF InitCount
  <2>2. Of(bt)' = [tracer[bt] EXCEPT !.addr_count = DEFAULT_DEPTH]
    BY <1>0, <1>16, <2>1, TracerIs DEF InitCount, Set, Of
  <2>3. /\ Of(bt)'.stream = Of(bt).stream /\ Of(bt)'.data = Of(bt).data
        /\ Of(bt)'.size = Of(bt).size /\ Of(bt)'.addr_count = DEFAULT_DEPTH
    BY <1>0, <2>1, <2>2, TracerIs DEF Of, Tracer_records
  <2> QED BY <1>0, <2>1, <2>3, DepthAssumption DEF BufferInv
<1>7. CASE FinalAttr
  <2>1. main = "ready" /\ main' = "close" /\ UNCHANGED <<bt, acts, early>>
    BY <1>7 DEF FinalAttr
  <2>2. Of(bt)' = [tracer[bt] EXCEPT !.attr = {}]
    BY <1>0, <1>7, <2>1, TracerIs DEF FinalAttr, Set, Of
  <2>3. /\ Of(bt)'.stream = Of(bt).stream /\ Of(bt)'.data = Of(bt).data
        /\ Of(bt)'.size = Of(bt).size /\ Of(bt)'.addr_count = Of(bt).addr_count
    BY <1>0, <2>1, <2>2, TracerIs DEF Of, Tracer_records
  <2> QED BY <1>0, <2>1, <2>3 DEF BufferInv, Enlarging
<1>8. CASE Trace
  <2>1. acts = <<>> /\ UNCHANGED <<tracer, main, bt, early>> /\ main = "ready"
    BY <1>8 DEF Trace
  <2>2. ~Enlarging
    BY <2>1, EmptySeq DEF Enlarging
  <2> QED BY <1>1, <2>1, <2>2
<1>9. ASSUME NEW s \in Signals, Signal(s)
      PROVE  BufferInv'
  <2>1. UNCHANGED <<tracer, main, bt>> /\ (early => early')
    BY <1>9 DEF Signal, Crash
  <2>2. CASE Alive(global_btracer)
    <3>1. /\ Len(acts') = Len(acts) + 1 /\ Len(acts) \in Nat /\ acts' \in Seq(Activations)
          /\ \A k \in 1..Len(acts) : acts'[k].pc = acts[k].pc
      BY <1>0, <1>9, <2>2, SignalTraces
    <3>2. acts' # <<>>
      BY <3>1, EmptySeq
    <3>3. ASSUME Enlarging PROVE Enlarging'
      <4>1. PICK k \in 1..Len(acts) : acts[k].pc = "realloc"
        BY <3>3 DEF Enlarging
      <4>2. k \in 1..Len(acts') /\ acts'[k].pc = "realloc"
        BY <3>1, <4>1
      <4> QED BY <4>2 DEF Enlarging
    <3>4. main = "count" => early'
      BY <1>9, <2>2 DEF Signal
    <3> QED BY <1>1, <2>1, <3>2, <3>3, <3>4
  <2>3. CASE ~Alive(global_btracer)
    <3>1. UNCHANGED <<acts, early>>
      BY <1>9, <2>3 DEF Signal, Crash
    <3> QED BY <1>1, <2>1, <3>1 DEF Enlarging
  <2> QED BY <2>2, <2>3
(* The steps of a trace: its own pc leaves "realloc" only with a buffer.   *)
<1>10. ASSUME acts # <<>>, NEW a \in Activations, Advance(a), Top.pc # "realloc", Enlarging
       PROVE  Enlarging'
  <2>1. PICK k \in 1..Len(acts) : acts[k].pc = "realloc"
    BY <1>10 DEF Enlarging
  <2>2. k # Len(acts)
    BY <1>10, <2>1 DEF Top
  <2>3. Len(acts') = Len(acts) /\ acts'[k] = acts[k]
    BY <1>0, <1>10, <2>2, LastReplaced DEF Advance, ActsInv
  <2> QED BY <2>1, <2>3 DEF Enlarging
<1>11. ASSUME acts # <<>>, NEW l \in {"backtrace", "test", "double", "realloc", "print"}, NEW n \in Nat
       PROVE  /\ [Top EXCEPT !.pc = l] \in Activations /\ [Top EXCEPT !.pc = l].pc = l
              /\ [Top EXCEPT !.size = n, !.pc = l] \in Activations
  BY <1>0, <1>11, TopIs DEF Activations
<1>12. CASE Backtrace \/ Walk \/ Test
  <2>1. acts # <<>> /\ UNCHANGED <<tracer, main, bt, early>> /\ Top.pc # "realloc"
    BY <1>12 DEF Backtrace, Walk, Test, Tracing, Crash
  <2>2. Filled \in Nat /\ Top.depth \in Nat
    <3>1. Top \in Activations /\ Top.bt = bt /\ Of(bt) \in Tracer_records
      BY <1>0, <2>1, TopIs, TracerIs
    <3> QED BY <3>1, DepthAssumption DEF Filled, MIN, Activations, Tracer_records
  <2>3. acts' = acts \/ \E a \in Activations : Advance(a)
    BY <1>11, <1>12, <2>1, <2>2 DEF Backtrace, Walk, Test, Crash
  <2>4. acts' # <<>> /\ (Enlarging => Enlarging')
    <3>1. CASE acts' = acts
      BY <2>1, <3>1 DEF Enlarging
    <3>2. ASSUME NEW a \in Activations, Advance(a) PROVE acts' # <<>> /\ (Enlarging => Enlarging')
      <4>1. acts' # <<>>
        BY <1>0, <2>1, <3>2, LastReplaced DEF Advance, ActsInv
      <4> QED BY <1>10, <2>1, <3>2, <4>1
    <3> QED BY <2>3, <3>1, <3>2
  <2>5. main = "count" => early
    BY <1>0, <2>1 DEF BufferInv
  <2> QED BY <1>1, <2>1, <2>4, <2>5
<1>13. CASE Double \/ Realloc
  <2>1. acts # <<>> /\ UNCHANGED <<main, bt, early>> /\ Top.bt = bt /\ main # "quiet"
    BY <1>0, <1>13, TopIs DEF Double, Realloc, Tracing
  <2>2. Of(bt) \in Tracer_records /\ (main = "count" => early)
    BY <1>0, <2>1, TracerIs DEF BufferInv
  <2>5. ASSUME NEW l \in {"realloc", "backtrace"}, Advance([Top EXCEPT !.pc = l]) PROVE acts' # <<>>
    <3> DEFINE a == [Top EXCEPT !.pc = l]
    <3>1. a \in Activations /\ Advance(a)
      BY <1>0, <2>1, <2>5, TopIs DEF Activations
    <3> HIDE DEF a
    <3> QED BY <1>0, <2>1, <3>1, LastReplaced DEF Advance, ActsInv
  <2>3. CASE Double
    <3>1. Of(bt)' = [Of(bt) EXCEPT !.addr_count = 2 * @] /\ Advance([Top EXCEPT !.pc = "realloc"])
      BY <1>0, <2>1, <2>3, TracerIs DEF Double, Set, Of
    <3>2. /\ Of(bt)'.stream = Of(bt).stream /\ Of(bt)'.data = Of(bt).data
          /\ Of(bt)'.type = Of(bt).type /\ (Of(bt)'.addr_count # 0 <=> Of(bt).addr_count # 0)
      BY <2>2, <3>1 DEF Tracer_records
    <3>3. Len(acts) \in 1..Len(acts') /\ acts'[Len(acts)] = [Top EXCEPT !.pc = "realloc"]
      <4>1. acts \in Seq(Activations) /\ Len(acts) \in 1..Len(acts)
        BY <1>0, <2>1, TopIs DEF ActsInv
      <4>2. /\ Len(acts') = Len(acts)
            /\ \A k \in 1..Len(acts) :
                 acts'[k] = IF k = Len(acts) THEN [Top EXCEPT !.pc = "realloc"] ELSE acts[k]
        <5> DEFINE a == [Top EXCEPT !.pc = "realloc"]
        <5>1. a \in Activations
          BY <1>11, <2>1, LenProperties, <4>1
        <5> HIDE DEF a
        <5>2. acts' = [acts EXCEPT ![Len(acts)] = a]
          BY <3>1 DEF Advance, a
        <5>3. /\ Len(acts') = Len(acts)
              /\ \A k \in 1..Len(acts) : acts'[k] = IF k = Len(acts) THEN a ELSE acts[k]
          BY <2>1, <4>1, <5>1, <5>2, LastReplaced
        <5> QED BY <5>3 DEF a
      <4> QED BY <4>1, <4>2
    <3>4. Enlarging'
      BY <1>11, <2>1, <3>3 DEF Enlarging
    <3>5. acts' # <<>>
      BY <2>5, <3>1
    <3> QED BY <1>0, <2>1, <2>2, <3>2, <3>4, <3>5 DEF BufferInv
  <2>4. CASE Realloc
    <3>1. CASE Crash
      BY <1>1, <2>1, <2>2, <3>1 DEF Crash, Enlarging
    <3>2. CASE Set(Top.bt, Reallocated(Of(Top.bt))) /\ Advance([Top EXCEPT !.pc = "backtrace"])
      <4>1. Of(bt)' = Reallocated(Of(bt)) /\ acts' # <<>>
        BY <1>0, <2>1, <2>5, <3>2, TracerIs DEF Set, Of
      <4>2. /\ Of(bt)'.stream = Of(bt).stream /\ Of(bt)'.type = Of(bt).type
            /\ Of(bt)'.addr_count = Of(bt).addr_count /\ Of(bt)'.size = Of(bt)'.addr_count
            /\ Of(bt).addr_count # 0 => Of(bt)'.data = "buffer"
        BY <2>2, <4>1 DEF Tracer_records, Reallocated
      <4>3. Of(bt).type = "glib"
        <5>1. Len(acts) \in 1..Len(acts) /\ acts[Len(acts)].pc = "realloc"
          BY <1>0, <2>1, <2>4, TopIs DEF Realloc, Tracing, Top
        <5> QED BY <1>0, <5>1 DEF TypeInv
      <4> QED BY <1>0, <2>1, <2>2, <4>1, <4>2, <4>3 DEF BufferInv
    <3> QED BY <2>4, <3>1, <3>2 DEF Realloc
  <2> QED BY <1>13, <2>3, <2>4
<1>14. CASE PrintFrames
  <2>1. acts # <<>> /\ UNCHANGED <<tracer, main, bt, early>> /\ Top.pc = "print"
    BY <1>14 DEF PrintFrames, Tracing, Crash
  <2>3. Of(bt).type = "builtin" \/ Of(bt).addr_count # 0
    BY <1>0, <2>1, TopIs DEF TypeInv, Top
  <2>4. main = "count" => early
    BY <1>0, <2>1 DEF BufferInv
  <2>2. ASSUME Enlarging PROVE Enlarging'
    <3>1. CASE acts' = acts
      BY <2>2, <3>1 DEF Enlarging
    <3>2. CASE acts' = SubSeq(acts, 1, Len(acts) - 1)
      <4>1. PICK k \in 1..Len(acts) : acts[k].pc = "realloc"
        BY <2>2 DEF Enlarging
      <4>2. k # Len(acts) /\ Len(acts) \in Nat
        BY <1>0, <2>1, <4>1, TopIs DEF Top
      <4>3. /\ Len(acts') = Len(acts) - 1
            /\ \A j \in 1..Len(acts') : acts'[j] = acts[j]
        BY <1>0, <2>1, <3>2, LastRemoved DEF ActsInv
      <4>4. k \in 1..Len(acts')
        BY <4>2, <4>3
      <4> QED BY <4>1, <4>3, <4>4 DEF Enlarging
    <3> QED BY <1>14, <3>1, <3>2 DEF PrintFrames, Crash
  <2> QED BY <1>1, <2>1, <2>2, <2>3, <2>4
<1>15. CASE (\E s \in Signals : Kill(s)) \/ UNCHANGED vars
  BY <1>1, <1>15 DEF Kill, vars, Enlarging
<1> QED BY <1>3, <1>4, <1>5, <1>6, <1>7, <1>8, <1>9, <1>12, <1>13, <1>14, <1>15, <1>16
        DEF Next, Program, Tracer

(* What an advancing trace leaves on top.                                  *)
LEMMA Advanced ==
  ASSUME acts \in Seq(Activations), acts # <<>>, NEW a \in Activations, Advance(a)
  PROVE  Top' = a
<1>1. Len(acts) \in 1..Len(acts)
  BY EmptySeq, LenProperties
<1>2. Len(acts') = Len(acts) /\ acts'[Len(acts)] = a
  BY <1>1, LastReplaced DEF Advance
<1> QED BY <1>2 DEF Top

LEMMA FramesStep ==
  ASSUME IInv, [Next]_vars
  PROVE  FramesInv'
<1> USE DEF Goto, At
<1>0. TracerInv /\ ActsInv /\ HandlerInv /\ FramesInv /\ acts \in Seq(Activations)
  BY DEF IInv, ActsInv
<1>1. ASSUME UNCHANGED <<acts, tracer>> PROVE FramesInv'
  BY <1>0, <1>1 DEF FramesInv, Top, Filled, Of, MIN
<1>2. CASE Program /\ ~Trace
  <2>1. acts' = <<>>
    BY <1>2 DEF Program, get_instance, InitStart, InitRefused, InitStream, InitStreamFails, InitSignals,
                InitGlobal, InitNoGlobal, InitData, InitCount, FinalAttr, FinalStream, FinalSignals, FinalData,
                free_instance, SetSignal
  <2> QED BY <2>1 DEF FramesInv
<1>3. CASE Trace
  <2>1. PICK d \in Depths : acts' = <<Activation(bt, d)>>
    BY <1>3 DEF Trace
  <2>2. Top'.pc = "backtrace"
    BY <2>1 DEF Top, Activation
  <2> QED BY <2>2 DEF FramesInv
<1>4. ASSUME NEW s \in Signals, Signal(s) PROVE FramesInv'
  <2>1. CASE Alive(global_btracer)
    <3>1. Len(acts') = Len(acts) + 1 /\ acts'[Len(acts) + 1].pc = "backtrace"
      BY <1>0, <1>4, <2>1, SignalTraces
    <3>2. Top'.pc = "backtrace"
      BY <3>1 DEF Top
    <3> QED BY <3>2 DEF FramesInv
  <2>2. CASE ~Alive(global_btracer)
    BY <1>1, <1>4, <2>2 DEF Signal, Crash
  <2> QED BY <2>1, <2>2
<1>5. ASSUME acts # <<>>
      PROVE  /\ Top \in Activations /\ Of(Top.bt) \in Tracer_records
             /\ Filled \in Nat /\ Top.depth \in Nat /\ Of(Top.bt).addr_count \in Nat
  <2>1. Top \in Activations /\ Of(Top.bt) \in Tracer_records
    BY <1>0, <1>5, TopIs, TracerIs
  <2> QED BY <2>1, DepthAssumption DEF Filled, MIN, Activations, Tracer_records
<1>6. CASE Backtrace
  <2>1. acts # <<>>
    BY <1>6 DEF Backtrace, Tracing
  <2>2. CASE Advance([Top EXCEPT !.size = Filled, !.pc = "test"]) /\ UNCHANGED <<tracer, ended>>
    <3>1. /\ [Top EXCEPT !.size = Filled, !.pc = "test"] \in Activations
      BY <1>5, <2>1 DEF Activations
    <3>2. Top' = [Top EXCEPT !.size = Filled, !.pc = "test"]
      BY <1>0, <2>1, <2>2, <3>1, Advanced
    <3>3. /\ Top'.pc = "test" /\ Top'.size = Filled /\ Top'.depth = Top.depth /\ Top'.bt = Top.bt
      BY <1>5, <2>1, <3>2 DEF Activations
    <3>4. Filled' = Filled
      BY <2>2, <3>3 DEF Filled, Of
    <3> QED BY <3>3, <3>4 DEF FramesInv
  <2>3. CASE Crash
    BY <1>1, <2>3 DEF Crash
  <2> QED BY <1>6, <2>2, <2>3 DEF Backtrace
<1>7. CASE Walk
  <2>1. acts # <<>> /\ Advance([Top EXCEPT !.size = Top.depth, !.pc = "print"])
    BY <1>7 DEF Walk, Tracing
  <2>2. [Top EXCEPT !.size = Top.depth, !.pc = "print"] \in Activations
    BY <1>5, <2>1 DEF Activations
  <2>3. Top' = [Top EXCEPT !.size = Top.depth, !.pc = "print"]
    BY <1>0, <2>1, <2>2, Advanced
  <2>4. Top'.pc = "print" /\ Top'.size = Top'.depth
    BY <1>5, <2>1, <2>3 DEF Activations
  <2> QED BY <2>4 DEF FramesInv
<1>8. CASE Test
  <2> DEFINE label == IF Top.size < Of(Top.bt).addr_count THEN "print" ELSE "double"
  <2>1. acts # <<>> /\ Top.pc = "test" /\ Advance([Top EXCEPT !.pc = label])
    BY <1>8 DEF Test, Tracing
  <2>2. [Top EXCEPT !.pc = label] \in Activations
    BY <1>5, <2>1 DEF Activations
  <2>3. Top' = [Top EXCEPT !.pc = label]
    <3> HIDE DEF label
    <3> QED BY <1>0, <2>1, <2>2, Advanced
  <2>4. /\ Top'.pc = label /\ Top'.size = Top.size /\ Top'.depth = Top.depth
        /\ Top'.interrupted = Top.interrupted
    BY <1>5, <2>1, <2>3 DEF Activations
  <2>5. ~Top.interrupted /\ label = "print" => Top.size = Top.depth
    <3> SUFFICES ASSUME ~Top.interrupted, label = "print" PROVE Top.size = Top.depth
      OBVIOUS
    <3>1. Top.size = Filled /\ Top.size < Of(Top.bt).addr_count
      BY <1>0, <2>1 DEF FramesInv
    <3> QED BY <1>5, <2>1, <3>1 DEF Filled, MIN
  <2>6. label # "test"
    OBVIOUS
  <2> HIDE DEF label
  <2> QED BY <2>4, <2>5, <2>6 DEF FramesInv
<1>9. CASE Double \/ Realloc
  <2>4. CASE Crash
    BY <1>1, <2>4 DEF Crash
  <2> SUFFICES ASSUME ~Crash PROVE FramesInv'
    BY <2>4
  <2>1. PICK l \in {"realloc", "backtrace"} : acts # <<>> /\ Advance([Top EXCEPT !.pc = l])
    BY <1>9 DEF Double, Realloc, Tracing
  <2>2. [Top EXCEPT !.pc = l] \in Activations /\ [Top EXCEPT !.pc = l].pc = l
    BY <1>5, <2>1 DEF Activations
  <2>3. Top'.pc = l
    BY <1>0, <2>1, <2>2, Advanced
  <2> QED BY <2>1, <2>3 DEF FramesInv
<1>10. CASE PrintFrames
  <2>1. acts # <<>>
    BY <1>10 DEF PrintFrames, Tracing
  <2>2. CASE acts' = SubSeq(acts, 1, Len(acts) - 1)
    <3> SUFFICES ASSUME acts' # <<>> PROVE Top'.interrupted
      BY DEF FramesInv
    <3>1. /\ acts' \in Seq(Activations) /\ Len(acts') \in Nat
          /\ \A k \in 1..Len(acts') : acts'[k] = acts[k] /\ k \in 1..Len(acts) /\ k # Len(acts)
      BY <1>0, <2>1, <2>2, LastRemoved
    <3>2. Len(acts') \in 1..Len(acts')
      BY <3>1, EmptySeq
    <3> QED BY <1>0, <3>1, <3>2 DEF ActsInv, Top
  <2>3. CASE Crash
    BY <1>1, <2>3 DEF Crash
  <2> QED BY <1>10, <2>2, <2>3 DEF PrintFrames
<1>11. CASE (\E s \in Signals : Kill(s)) \/ UNCHANGED vars
  BY <1>1, <1>11 DEF Kill, vars
<1> QED BY <1>2, <1>3, <1>4, <1>6, <1>7, <1>8, <1>9, <1>10, <1>11 DEF Next, Tracer

(* A signal or a trace that finds the tracer unfit to use.                 *)
LEMMA CrashStep ==
  ASSUME IInv, [Next]_vars
  PROVE  CrashInWindow'
<1> USE DEF Goto, At
<1>0. TracerInv /\ ActsInv /\ HandlerInv /\ BufferInv /\ CrashInWindow
  BY DEF IInv
<1>1. ASSUME ended' # "crash" PROVE CrashInWindow'
  BY <1>1 DEF CrashInWindow
<1>2. ASSUME UNCHANGED <<main, acts>>, main \in {"set", "global", "data", "count", "unset"} PROVE CrashInWindow'
  BY <1>2 DEF CrashInWindow
<1>3. CASE UNCHANGED vars
  BY <1>0, <1>3 DEF vars, CrashInWindow, Of
<1>4. CASE Program
  <2>1. ended' = "no"
    BY <1>4 DEF Program, get_instance, InitStart, InitRefused, InitStream, InitStreamFails, InitSignals,
                InitGlobal, InitNoGlobal, InitData, InitCount, FinalAttr, FinalStream, FinalSignals, FinalData,
                free_instance, SetSignal, Trace
  <2> QED BY <1>1, <2>1
<1>5. ASSUME NEW s \in Signals, Signal(s) PROVE CrashInWindow'
  <2>1. CASE Alive(global_btracer)
    BY <1>1, <1>5, <2>1 DEF Signal
  <2>2. CASE ~Alive(global_btracer)
    <3>1. handler[s] = "trace" /\ UNCHANGED <<main, acts>>
      BY <1>5, <2>2 DEF Signal, Crash
    <3>2. main \in {"set", "global"}
      <4>1. \/ main \in {"set", "global"}
            \/ main \in {"data", "count", "ready", "close", "unset"} /\ global_btracer = bt
        BY <1>0, <3>1 DEF HandlerInv
      <4> QED BY <1>0, <2>2, <4>1 DEF TracerInv, Alive
    <3> QED BY <1>2, <3>1, <3>2
  <2> QED BY <2>1, <2>2
<1>6. CASE Backtrace
  <2>1. acts # <<>> /\ Top.pc = "backtrace" /\ UNCHANGED main
    BY <1>6 DEF Backtrace, Tracing
  <2>2. CASE UNCHANGED ended
    BY <1>1, <1>6, <2>2 DEF Backtrace, Tracing
  <2>3. CASE Crash /\ ~(Filled = 0 \/ (Of(Top.bt).data = "buffer" /\ Filled <= Of(Top.bt).size))
    <3>1. acts' = acts /\ Top.bt = bt /\ Top \in Activations /\ main \in Tracing_steps /\ main # "quiet"
      BY <1>0, <2>1, <2>3, TopIs DEF Crash
    <3>2. CASE main \in {"ready", "close"}
      <4>1. Of(bt).data = "buffer" /\ (Of(bt).size = Of(bt).addr_count \/ Enlarging \/ early)
        BY <1>0, <3>2 DEF BufferInv
      <4>2. Of(bt).size < Of(bt).addr_count /\ Of(bt).size # Of(bt).addr_count
        <5>1. Of(bt) \in Tracer_records
          BY <1>0, <3>1, TracerIs
        <5>2. Of(bt).addr_count \in Nat /\ Of(bt).size \in Nat /\ Top.depth \in Nat
          BY <3>1, <5>1, DepthAssumption DEF Tracer_records, Activations
        <5>3. Filled <= Of(bt).addr_count /\ Filled \in Nat
          BY <3>1, <5>2 DEF Filled, MIN
        <5>4. ~(Filled <= Of(bt).size)
          BY <2>3, <3>1, <4>1
        <5> QED BY <5>2, <5>3, <5>4
      <4>6. CASE early
        <5>1. early' /\ Of(bt)' = Of(bt)
          BY <1>6, <2>3, <4>6 DEF Backtrace, Crash, Of
        <5> QED BY <4>2, <5>1 DEF CrashInWindow
      <4> SUFFICES ASSUME ~early PROVE CrashInWindow'
        BY <4>6
      <4>3. PICK k \in 1..Len(acts) : acts[k].pc = "realloc"
        BY <4>1, <4>2 DEF Enlarging
      <4>4. k # Len(acts)
        BY <2>1, <4>3 DEF Top
      <4>5. k \in 1..(Len(acts) - 1)
        BY <1>0, <2>1, <4>4, TopIs
      <4> QED BY <3>1, <4>3, <4>5 DEF CrashInWindow
    <3>3. CASE main \in {"set", "global", "data", "count", "unset"}
      BY <1>2, <2>1, <3>1, <3>3
    <3> QED BY <3>1, <3>2, <3>3 DEF Tracing_steps
  <2> QED BY <1>6, <2>2, <2>3 DEF Backtrace
<1>10. CASE Realloc
  <2>1. acts # <<>> /\ UNCHANGED main
    BY <1>10 DEF Realloc, Tracing
  <2>2. CASE UNCHANGED ended
    BY <1>1, <1>10, <2>2 DEF Realloc, Tracing
  <2>3. CASE Crash /\ Of(Top.bt).data = "junk"
    <3>1. acts' = acts /\ Top.bt = bt /\ main \in Tracing_steps
      BY <1>0, <2>1, <2>3, TopIs DEF Crash
    <3>2. main \notin {"ready", "close"}
      BY <1>0, <2>3, <3>1 DEF BufferInv
    <3> QED BY <1>2, <2>1, <3>1, <3>2 DEF Tracing_steps
  <2> QED BY <1>10, <2>2, <2>3 DEF Realloc
<1>7. CASE Walk \/ Test \/ Double
  <2>1. ended' = "no"
    BY <1>7 DEF Walk, Test, Double, Tracing
  <2> QED BY <1>1, <2>1
<1>8. CASE PrintFrames
  <2>1. acts # <<>> /\ UNCHANGED main
    BY <1>8 DEF PrintFrames, Tracing
  <2>2. CASE UNCHANGED ended
    BY <1>1, <1>8, <2>2 DEF PrintFrames, Tracing
  <2>3. CASE Crash /\ Of(Top.bt).stream \in {"junk", "closed"}
    <3>1. acts' = acts /\ Top.bt = bt /\ main \in Tracing_steps
      BY <1>0, <2>1, <2>3, TopIs DEF Crash
    <3>2. main \notin {"ready", "close"}
      BY <1>0, <2>3, <3>1 DEF BufferInv
    <3> QED BY <1>2, <2>1, <3>1, <3>2 DEF Tracing_steps
  <2> QED BY <1>8, <2>2, <2>3 DEF PrintFrames
<1>9. CASE \E s \in Signals : Kill(s)
  BY <1>1, <1>9 DEF Kill
<1> QED BY <1>3, <1>4, <1>5, <1>6, <1>7, <1>8, <1>9, <1>10 DEF Next, Tracer

-----------------------------------------------------------------------------
LEMMA InitHolds == Init => IInv
<1> SUFFICES ASSUME Init PROVE IInv
  OBVIOUS
<1>1. TracerInv
  BY DEF Init, TracerInv, Main_steps, Tracing_steps
<1>2. HandlerInv
  BY SignalsAre DEF Init, HandlerInv
<1>3. acts = <<>> /\ Len(acts) = 0 /\ acts \in Seq(Activations)
  BY EmptySeq DEF Init
<1>4. ActsInv
  BY <1>3 DEF ActsInv
<1>5. TypeInv /\ BufferInv /\ FramesInv /\ CrashInWindow
  BY <1>3 DEF Init, TypeInv, BufferInv, FramesInv, CrashInWindow
<1> QED BY <1>1, <1>2, <1>4, <1>5 DEF IInv

(* The invariant of the tracers.                                           *)
THEOREM TracerInvariant == Spec => []IInv
<1>1. IInv /\ [Next]_vars => IInv'
  BY TracerStep, HandlerStep, ActsStep, TypeStep, BufferStep, FramesStep, CrashStep DEF IInv
<1> QED BY <1>1, InitHolds, PTL DEF Spec

(* btrace.c:116, 139, 165: only init, final and a trace that enlarges the  *)
(* buffer are windows in which a signal can meet half a tracer; a tracer   *)
(* that is ready answers every signal, traces of other signals included,   *)
(* unless a signal came between its buffer and its count.                  *)
THEOREM CrashesInWindows == Spec => []CrashInWindow
<1>1. IInv => CrashInWindow
  BY DEF IInv
<1> QED BY <1>1, TracerInvariant, PTL

(* btrace.c:164: a trace that is not interrupted prints the whole stack.   *)
THEOREM StacksPrintedWhole == Spec => []WholeStackPrinted
<1>1. IInv => WholeStackPrinted
  BY DEF IInv, FramesInv, WholeStackPrinted
<1> QED BY <1>1, TracerInvariant, PTL
=============================================================================
