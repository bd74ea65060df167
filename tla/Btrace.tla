-------------------------------- MODULE Btrace --------------------------------
(***************************************************************************)
(* backtrace/btrace.c: tracers print the call stack when they are asked to *)
(* or when a signal arrives.  A signal interrupts the program, or another  *)
(* signal's handler, between any two steps; the handler traces with the    *)
(* tracer that global_btracer names, if it names one.                      *)
(***************************************************************************)
EXTENDS Integers, Sequences, FiniteSets

CONSTANTS
  Tracers,       \* where malloc puts tracers
  sig_nums,      \* the signals of btrace_set_signal, in order
  DEFAULT_DEPTH, \* BTRACE_DEFAULT_DEPTH
  Depths,        \* the depths of the call stack where a trace begins
  JunkCounts,    \* what addr_count may be in memory malloc returns
  NULL

ASSUME DepthAssumption == DEFAULT_DEPTH \in Nat \ {0} /\ Depths \subseteq Nat \ {0}
ASSUME JunkAssumption == JunkCounts \subseteq Nat
ASSUME SignalsAssumption == sig_nums \in Seq(STRING) /\ sig_nums # <<>>
ASSUME NullAssumption == NULL \notin Tracers

Signals == {sig_nums[i] : i \in 1..Len(sig_nums)}
Types == {"glib", "builtin"}
Attrs == {{"console"}, {"file"}, {"console", "signal"}, {"file", "signal"}}

VARIABLES
  tracer,         \* *btracer, for every address that holds one
  global_btracer,
  handler,        \* what every signal leads to
  main, bt, attr, i, \* the program: its step, tracer, attribute and loop index
  acts,           \* the traces under way, the innermost last
  early,          \* history: a signal came between the buffer and its count
  ended           \* "no", "killed" by a signal, or "crash"

vars == <<tracer, global_btracer, handler, main, bt, attr, i, acts, early, ended>>

(* A tracer's memory before init: what malloc returns, which may be that   *)
(* of a tracer given back, with no buffer and a count of 0.  size is the   *)
(* buffer's, which the program does not keep.                              *)
Fresh(type, data, count) ==
  [type |-> type, attr |-> {}, stream |-> "junk", data |-> data,
   size |-> 0, addr_count |-> count]
Alive(b) == b \in DOMAIN tracer

Init ==
  /\ tracer = <<>> /\ global_btracer = NULL
  /\ handler = [s \in Signals |-> "default"]
  /\ main = "quiet" /\ bt = NULL /\ attr = {} /\ i = 1
  /\ acts = <<>> /\ early = FALSE /\ ended = "no"

(* The program runs when no handler does.                                  *)
At(step) == ended = "no" /\ acts = <<>> /\ main = step
Goto(step) == main' = step
Set(b, fields) == tracer' = [tracer EXCEPT ![b] = fields]

-----------------------------------------------------------------------------
(* btrace_get_instance, for one tracer at a time.                          *)
get_instance ==
  /\ At("quiet") /\ tracer = <<>>
  /\ \E b \in Tracers, type \in Types, data \in {"junk", "NULL"}, count \in JunkCounts :
       tracer' = [c \in {b} |-> Fresh(type, data, count)] /\ bt' = b
  /\ Goto("made")
  /\ UNCHANGED <<global_btracer, handler, attr, i, acts, early, ended>>

(* init: an attribute that selects no output is refused.                   *)
InitStart ==
  /\ At("made")
  /\ \E a \in Attrs : attr' = a /\ Set(bt, [tracer[bt] EXCEPT !.attr = a])
  /\ Goto("stream")
  /\ UNCHANGED <<global_btracer, handler, bt, i, acts, early, ended>>

InitRefused ==
  /\ At("made") /\ Goto("over")
  /\ UNCHANGED <<tracer, global_btracer, handler, bt, attr, i, acts, early, ended>>

(* Mutant: a tracer for the console keeps what was in its memory.          *)
InitStreamUnset ==
  /\ At("stream")
  /\ Set(bt, [tracer[bt] EXCEPT !.stream = IF "file" \in attr THEN "open" ELSE @])
  /\ Goto(IF "signal" \in attr THEN "set" ELSE "clear")
  /\ i' = 1
  /\ UNCHANGED <<global_btracer, handler, bt, attr, acts, early, ended>>

InitStream ==
  /\ At("stream")
  /\ Set(bt, [tracer[bt] EXCEPT !.stream = IF "file" \in attr THEN "open" ELSE "NULL"])
  /\ Goto(IF "signal" \in attr THEN "set" ELSE "clear")
  /\ i' = 1
  /\ UNCHANGED <<global_btracer, handler, bt, attr, acts, early, ended>>

InitStreamFails ==
  /\ At("stream") /\ "file" \in attr
  /\ Set(bt, [tracer[bt] EXCEPT !.stream = "NULL"])
  /\ Goto("over")
  /\ UNCHANGED <<global_btracer, handler, bt, attr, i, acts, early, ended>>

(* btrace_set_signal goes through the signals one by one.                  *)
SetSignal(step, action, next) ==
  /\ At(step)
  /\ handler' = [handler EXCEPT ![sig_nums[i]] = action]
  /\ i' = IF i = Len(sig_nums) THEN 1 ELSE i + 1
  /\ Goto(IF i = Len(sig_nums) THEN next ELSE step)
  /\ UNCHANGED <<tracer, global_btracer, bt, attr, acts, early, ended>>

InitSignals == SetSignal("set", "trace", "global")

InitGlobal ==
  /\ At("global") /\ global_btracer' = bt /\ Goto("data")
  /\ UNCHANGED <<tracer, handler, bt, attr, i, acts, early, ended>>

InitNoGlobal ==
  /\ At("clear") /\ global_btracer' = NULL /\ Goto("data")
  /\ UNCHANGED <<tracer, handler, bt, attr, i, acts, early, ended>>

(* The buffer is there before addr_count says how long it is.              *)
InitData ==
  /\ At("data")
  /\ Set(bt, [tracer[bt] EXCEPT !.data = "buffer", !.size = DEFAULT_DEPTH])
  /\ Goto("count")
  /\ UNCHANGED <<global_btracer, handler, bt, attr, i, acts, early, ended>>

InitCount ==
  /\ At("count")
  /\ Set(bt, [tracer[bt] EXCEPT !.addr_count = DEFAULT_DEPTH])
  /\ Goto("ready")
  /\ UNCHANGED <<global_btracer, handler, bt, attr, i, acts, early, ended>>

-----------------------------------------------------------------------------
(* final closes the stream before it takes the handlers back.              *)
FinalAttr ==
  /\ At("ready")
  /\ Set(bt, [tracer[bt] EXCEPT !.attr = {}])
  /\ Goto("close")
  /\ UNCHANGED <<global_btracer, handler, bt, attr, i, acts, early, ended>>

FinalStream ==
  /\ At("close")
  /\ Set(bt, [tracer[bt] EXCEPT !.stream = IF @ = "NULL" THEN @ ELSE "closed"])
  /\ Goto(IF global_btracer # NULL THEN "unset" ELSE "drop")
  /\ UNCHANGED <<global_btracer, handler, bt, attr, i, acts, early, ended>>

FinalSignals == SetSignal("unset", "default", "drop")

FinalData ==
  /\ At("drop")
  /\ Set(bt, [tracer[bt] EXCEPT !.data = "NULL", !.size = 0, !.addr_count = 0])
  /\ Goto("over")
  /\ UNCHANGED <<global_btracer, handler, bt, attr, i, acts, early, ended>>

(* btrace_free_instance; global_btracer keeps the address.                 *)
free_instance ==
  /\ At("over")
  /\ tracer' = <<>> /\ bt' = NULL /\ attr' = {} /\ early' = FALSE
  /\ Goto("quiet")
  /\ UNCHANGED <<global_btracer, handler, i, acts, ended>>

-----------------------------------------------------------------------------
(* A trace begins, in the program or in a signal's handler.                *)
Activation(b, depth) ==
  [bt |-> b, depth |-> depth, size |-> 0, pc |-> "backtrace", interrupted |-> FALSE]

Trace ==
  /\ At("ready")
  /\ \E d \in Depths : acts' = <<Activation(bt, d)>>
  /\ UNCHANGED <<tracer, global_btracer, handler, main, bt, attr, i, early, ended>>

Crash == ended' = "crash" /\ UNCHANGED <<tracer, acts>>

(* btrace_signal_handler.  SA_RESETHAND: the next signal of this number is *)
(* left to its default action, which ends the program.                     *)
Signal(s) ==
  /\ ended = "no" /\ handler[s] = "trace"
  /\ handler' = [handler EXCEPT ![s] = "default"]
  /\ IF Alive(global_btracer)
     THEN /\ \E d \in Depths :
               acts' = Append([k \in 1..Len(acts) |-> [acts[k] EXCEPT !.interrupted = TRUE]],
                              Activation(global_btracer, d))
          /\ early' = (early \/ main = "count")
          /\ UNCHANGED <<tracer, ended>>
     ELSE Crash /\ UNCHANGED early
  /\ UNCHANGED <<global_btracer, main, bt, attr, i>>

Kill(s) ==
  /\ ended = "no" /\ handler[s] = "default"
  /\ ended' = "killed"
  /\ UNCHANGED <<tracer, global_btracer, handler, main, bt, attr, i, acts, early>>

-----------------------------------------------------------------------------
Top == acts[Len(acts)]
Of(b) == tracer[b]
Advance(a) == acts' = [acts EXCEPT ![Len(acts)] = a]
Tracing(label) == ended = "no" /\ acts # <<>> /\ Top.pc = label
MIN(a, b) == IF a < b THEN a ELSE b

(* backtrace() fills as much of the buffer as addr_count says, and touches *)
(* none if that is 0; built in, the frames are walked instead.             *)
Filled == MIN(Top.depth, Of(Top.bt).addr_count)

Backtrace ==
  /\ Tracing("backtrace") /\ Of(Top.bt).type = "glib"
  /\ IF Filled = 0 \/ (Of(Top.bt).data = "buffer" /\ Filled <= Of(Top.bt).size)
     THEN Advance([Top EXCEPT !.size = Filled, !.pc = "test"]) /\ UNCHANGED <<tracer, ended>>
     ELSE Crash
  /\ UNCHANGED <<global_btracer, handler, main, bt, attr, i, early>>

Walk ==
  /\ Tracing("backtrace") /\ Of(Top.bt).type = "builtin"
  /\ Advance([Top EXCEPT !.size = Top.depth, !.pc = "print"])
  /\ UNCHANGED <<tracer, global_btracer, handler, main, bt, attr, i, early, ended>>

(* Mutant: a buffer that is just filled is taken as large enough.          *)
TestFilled ==
  /\ Tracing("test")
  /\ Advance([Top EXCEPT !.pc = IF Top.size <= Of(Top.bt).addr_count THEN "print" ELSE "double"])
  /\ UNCHANGED <<tracer, global_btracer, handler, main, bt, attr, i, early, ended>>

(* A buffer that was filled to the end may have been too small: ...        *)
Test ==
  /\ Tracing("test")
  /\ Advance([Top EXCEPT !.pc = IF Top.size < Of(Top.bt).addr_count THEN "print" ELSE "double"])
  /\ UNCHANGED <<tracer, global_btracer, handler, main, bt, attr, i, early, ended>>

(* Mutant: the buffer stays as large as it is.                             *)
TryAgain ==
  /\ Tracing("double")
  /\ Advance([Top EXCEPT !.pc = "backtrace"])
  /\ UNCHANGED <<tracer, global_btracer, handler, main, bt, attr, i, early, ended>>

(* ... the number of addresses is doubled, then the buffer grows to it.    *)
Double ==
  /\ Tracing("double")
  /\ Set(Top.bt, [Of(Top.bt) EXCEPT !.addr_count = 2 * @])
  /\ Advance([Top EXCEPT !.pc = "realloc"])
  /\ UNCHANGED <<global_btracer, handler, main, bt, attr, i, early, ended>>

(* realloc takes what malloc gave, or NULL; for no bytes it frees a buffer *)
(* and returns NULL.                                                       *)
Reallocated(b) ==
  [b EXCEPT !.data = IF b.data = "buffer" /\ b.addr_count = 0 THEN "NULL" ELSE "buffer",
            !.size = b.addr_count]

Realloc ==
  /\ Tracing("realloc")
  /\ IF Of(Top.bt).data = "junk"
     THEN Crash
     ELSE /\ Set(Top.bt, Reallocated(Of(Top.bt)))
          /\ Advance([Top EXCEPT !.pc = "backtrace"])
          /\ UNCHANGED ended
  /\ UNCHANGED <<global_btracer, handler, main, bt, attr, i, early>>

(* Frames go to the stream if the attribute says so; glib's trace flushes  *)
(* the stream in any case, and fflush(NULL) is allowed.                    *)
Writes(b) == "file" \in Of(b).attr \/ Of(b).type = "glib"

PrintFrames ==
  /\ Tracing("print")
  /\ IF Writes(Top.bt) /\ Of(Top.bt).stream \in {"junk", "closed"}
     THEN Crash
     ELSE acts' = SubSeq(acts, 1, Len(acts) - 1) /\ UNCHANGED <<tracer, ended>>
  /\ UNCHANGED <<global_btracer, handler, main, bt, attr, i, early>>

Program ==
  \/ get_instance \/ InitStart \/ InitRefused \/ InitStream \/ InitStreamFails
  \/ InitSignals \/ InitGlobal \/ InitNoGlobal \/ InitData \/ InitCount
  \/ FinalAttr \/ FinalStream \/ FinalSignals \/ FinalData \/ free_instance \/ Trace
Tracer == Backtrace \/ Walk \/ Test \/ Double \/ Realloc \/ PrintFrames

Next == Program \/ Tracer \/ \E s \in Signals : Signal(s) \/ Kill(s)

(* A trace that has begun goes on.                                         *)
Spec == Init /\ [][Next]_vars /\ WF_vars(Tracer)

-----------------------------------------------------------------------------
(* btrace.c:116, 139, 165: a signal meets a tracer that is not there or    *)
(* not complete only while init or final runs, while the trace that it     *)
(* interrupts has told addr_count to the buffer's users and not the buffer *)
(* or, later, because a signal in init had the new buffer cut to a count   *)
(* that was not set yet.                                                   *)
CrashInWindow ==
  ended = "crash" =>
    \/ main \in {"set", "global", "data", "count", "unset"}
    \/ early /\ Of(bt).size < Of(bt).addr_count
    \/ \E k \in 1..(Len(acts) - 1) : acts[k].pc = "realloc"

(* btrace.c:164: a trace that no other interrupts prints every frame of    *)
(* the call stack, however deep it is.                                     *)
WholeStackPrinted ==
  acts # <<>> /\ Top.pc = "print" /\ ~Top.interrupted => Top.size = Top.depth

(* A trace that asks for no addresses gets 0 of them, which is not less    *)
(* than 0, and doubling 0 changes nothing: it goes round for ever.         *)
Endless ==
  /\ main \in {"set", "global", "data", "count"}
  /\ Of(bt).type = "glib" /\ Of(bt).addr_count = 0

(* btrace.c:159, "make enough buffer to store tracing addresses": the loop *)
(* ends, though the traces that interrupt it enlarge the same buffer, but  *)
(* for a signal that init let in before line 127 set addr_count.           *)
TracesEnd == acts # <<>> ~> (acts = <<>> \/ ended # "no" \/ Endless)

=============================================================================
