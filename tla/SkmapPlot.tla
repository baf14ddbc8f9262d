------------------------------ MODULE SkmapPlot ------------------------------
(***************************************************************************)
(* skmap-plot-regs: registers plotted against time.  The GUI thread owns   *)
(* the curves, the timer and the option row; an asyncio loop on a second   *)
(* thread reads the registers and hands the samples over by a queued       *)
(* signal.  A value read is a set: {} is the number zero, the members of a *)
(* nonempty set are the events an rc register has collected (1, 2, ...),   *)
(* or 0 for any other nonzero value.                                       *)
(***************************************************************************)
EXTENDS Integers, Sequences, SequencesExt, FiniteSets

CONSTANTS
  Maps,         \* base address -> register name -> register
  Targets,      \* the command lines tried: sequences of tokens
  Lengths,      \* the numbers of points asked for
  Periods,      \* the sample periods asked for
  LengthMax,    \* LENGTH_MAX
  PeriodMax,    \* PERIOD_MAX, in units of PERIOD_MIN
  MaxTraces,    \* bound: curves of a third party application
  MaxReports,   \* bound: samples reported
  MaxOptions,   \* bound: changes of the option row
  MaxEvents     \* bound: events at the device

NoIdx == -1     \* the index None of a scalar register

ASSUME BoundsAssumption ==
  MaxEvents \in Nat /\ LengthMax \in Nat \ {0} /\ Lengths \subseteq Int

\* A command line is a sequence of tokens: [addr], or [name, idx] with NoIdx
\* for a register without an index.
Tokens == UNION {ToSet(tokens) : tokens \in Targets}
ASSUME TargetsAssumption == Targets \subseteq Seq(Tokens)

\* A register is [vec, acc, kind, check]: vec the number of elements of a
\* RegVec and 0 for a Reg; the v_check is none, passed by zero only ("zero"),
\* or raises on a nonzero value ("div", a division in the expression).
ASSUME MapsAssumption ==
  \A a \in DOMAIN Maps : \A n \in DOMAIN Maps[a] :
    /\ Maps[a][n].vec \in Nat
    /\ Maps[a][n].check \in {"none", "zero", "div"}

VARIABLES
  phase,     \* "setup", "build", "run", "closing", "closed", or "exit"
  todo,      \* the tokens of the command line still to be built
  base,      \* the base address they belong to
  traces,    \* the curves: [addr, name, idx]
  curve,     \* per trace [xs, bad, readError]: samples, marker times, error
  length, period, rangesFixed,
  xrange,    \* the <<length, period>> the time axis was last set for
  inflight,  \* a sample is running
  io,        \* the sampler [at, stage, val, results], at = 0 when idle
  queue,     \* emitted and not yet handled samples_ready signals
  dev,       \* the events each rc element holds
  clock,     \* time: the number of reports handled
  options, events,   \* counters of the bounded inputs
  shown,     \* how often each event was plotted
  excused    \* events the code may lose, see EventsPlottedOnce

vars == <<phase, todo, base, traces, curve, length, period, rangesFixed, xrange, inflight,
          io, queue, dev, clock, options, events, shown, excused>>
guiVars == <<phase, todo, base, traces, curve, length, period, rangesFixed, xrange,
             inflight, clock, options, shown>>

-----------------------------------------------------------------------------
(* Setting up: the registers to plot.                                      *)

Clamp(v, lo, hi) == IF v < lo THEN lo ELSE IF v > hi THEN hi ELSE v
ClampPeriod(p) == Clamp(p, 1, PeriodMax)
ClampLength(n) == Clamp(n, 1, LengthMax)

Reg(trace) == Maps[trace.addr][trace.name]

\* The elements of a register, the scalar register itself as one.
Idxs(reg) == IF reg.vec = 0 THEN <<NoIdx>> ELSE [i \in 1..reg.vec |-> i - 1]

Lanes ==
  UNION {UNION {{<<a, n, x>> : x \in ToSet(Idxs(Maps[a][n]))} : n \in DOMAIN Maps[a]} :
           a \in DOMAIN Maps}

LaneOf(trace) == <<trace.addr, trace.name, trace.idx>>

\* The traces of some elements; <<>> stands for a refusal here and below.
CheckedTraces(a, n, idxs) ==
  IF Maps[a][n].kind = "char" THEN <<>>
  ELSE [i \in DOMAIN idxs |-> [addr |-> a, name |-> n, idx |-> idxs[i]]]

FindReg(a, name) == name \in DOMAIN Maps[a]

\* The traces of a register token.
MakeTraces(a, token) ==
  IF ~FindReg(a, token.name) THEN <<>>
  ELSE LET all == Idxs(Maps[a][token.name]) IN
       IF token.idx = NoIdx THEN CheckedTraces(a, token.name, all)
       ELSE IF token.idx \in ToSet(all) THEN CheckedTraces(a, token.name, <<token.idx>>)
       ELSE <<>>

IsAddr(token) == "addr" \in DOMAIN token

\* parse_targets: each base address is followed by the registers of its group.
Parses(tokens) ==
  /\ tokens # <<>> /\ IsAddr(tokens[1])
  /\ \A i \in DOMAIN tokens : IsAddr(tokens[i]) =>
       i < Len(tokens) /\ ~IsAddr(tokens[i + 1])

Idle == [at |-> 0, stage |-> "read", val |-> {}, results |-> <<>>]
Started == [Idle EXCEPT !.at = 1]

Init ==
  /\ phase = "setup" /\ todo = <<>> /\ base = NoIdx
  /\ traces = <<>> /\ curve = <<>>
  /\ \E n \in Lengths, p \in Periods :
       length = ClampLength(n) /\ period = ClampPeriod(p)
  /\ rangesFixed = FALSE /\ xrange = <<0, 0>>
  /\ inflight = FALSE /\ io = Idle /\ queue = <<>>
  /\ dev = [l \in Lanes |-> {}]
  /\ clock = 0 /\ options = 0 /\ events = 0
  /\ shown = [e \in 1..MaxEvents |-> 0] /\ excused = {}

\* run_plot_app: the window and the first tick.
RunPlotApp(ts) ==
  /\ phase' = "run" /\ traces' = ts
  /\ curve' = [i \in DOMAIN ts |-> [xs |-> <<>>, bad |-> <<>>, readError |-> FALSE]]
  /\ inflight' = TRUE /\ io' = Started
  /\ UNCHANGED <<todo, base, length, period, rangesFixed, xrange, queue, dev, clock,
                 options, events, shown, excused>>

Exit ==
  /\ phase' = "exit"
  /\ UNCHANGED <<todo, base, traces, curve, length, period, rangesFixed, xrange, inflight, io,
                 queue, dev, clock, options, events, shown, excused>>

\* The command line application.  Whatever is refused ends it.
Main(tokens) ==
  /\ phase = "setup" /\ traces = <<>> /\ Parses(tokens)
  /\ phase' = "build" /\ todo' = tokens
  /\ UNCHANGED <<base, traces, curve, length, period, rangesFixed, xrange, inflight, io,
                 queue, dev, clock, options, events, shown, excused>>
MainRefused(tokens) ==
  phase = "setup" /\ traces = <<>> /\ ~Parses(tokens) /\ Exit

\* build_traces: the next module, the next register, or the plot.
BuildModule ==
  /\ phase = "build" /\ todo # <<>> /\ IsAddr(todo[1])
  /\ todo[1].addr \in DOMAIN Maps
  /\ base' = todo[1].addr /\ todo' = Tail(todo)
  /\ UNCHANGED <<phase, traces, curve, length, period, rangesFixed, xrange, inflight, io,
                 queue, dev, clock, options, events, shown, excused>>
BuildTrace ==
  /\ phase = "build" /\ todo # <<>> /\ ~IsAddr(todo[1])
  /\ MakeTraces(base, todo[1]) # <<>>
  /\ traces' = traces \o MakeTraces(base, todo[1]) /\ todo' = Tail(todo)
  /\ UNCHANGED <<phase, base, curve, length, period, rangesFixed, xrange, inflight, io,
                 queue, dev, clock, options, events, shown, excused>>
BuildRefused ==
  /\ phase = "build" /\ todo # <<>>
  /\ IF IsAddr(todo[1]) THEN todo[1].addr \notin DOMAIN Maps
     ELSE MakeTraces(base, todo[1]) = <<>>
  /\ Exit
\* A command line that parses names a register: there is something to plot.
BuildDone == phase = "build" /\ todo = <<>> /\ RunPlotApp(traces)

\* A third party adds registers with SkmapPlotRegs; a refused one raises and
\* leaves the plot as it was.
Add(ts) ==
  /\ phase = "setup" /\ ts # <<>> /\ Len(traces) + Len(ts) <= MaxTraces
  /\ traces' = traces \o ts
  /\ UNCHANGED <<phase, todo, base, curve, length, period, rangesFixed, xrange, inflight, io,
                 queue, dev, clock, options, events, shown, excused>>

AddReg(a, n) == Maps[a][n].vec = 0 /\ Add(CheckedTraces(a, n, <<NoIdx>>))
AddRegVecAll(a, n) ==
  Maps[a][n].vec > 0 /\ Add(CheckedTraces(a, n, Idxs(Maps[a][n])))
AddRegVecIdx(a, n, x) ==
  Maps[a][n].vec > 0 /\ x < Maps[a][n].vec /\ Add(CheckedTraces(a, n, <<x>>))

Run == phase = "setup" /\ (IF traces = <<>> THEN Exit ELSE RunPlotApp(traces))

-----------------------------------------------------------------------------
(* The curves.                                                             *)

\* The newest n members of a sequence.
Newest(s, n) == IF Len(s) <= n THEN s ELSE SubSeq(s, Len(s) - n + 1, Len(s))

\* The markers without the leading ones that have left the window of samples
\* xs: n of them are popped.
InWindow(bad, xs) ==
  LET Gone(k) == xs = <<>> \/ bad[k] < xs[1].t
      n == CHOOSE n \in 0..Len(bad) :
             (\A k \in 1..n : Gone(k)) /\ (n < Len(bad) => ~Gone(n + 1))
  IN SubSeq(bad, n + 1, Len(bad))

AddSample(c, t, val, ok, n) ==
  LET xs == Append(Newest(c.xs, n - 1), [t |-> t, val |-> val, ok |-> ok])
  IN [xs |-> xs, readError |-> FALSE,
      bad |-> InWindow(IF ok THEN c.bad ELSE Append(c.bad, t), xs)]

TrimTrace_KeepsMarkers(c, n) == [c EXCEPT !.xs = Newest(c.xs, n)]
TrimTrace(c, n) ==
  LET xs == Newest(c.xs, n) IN [c EXCEPT !.xs = xs, !.bad = InWindow(c.bad, xs)]

\* The option row.  The spin boxes report a value only when it changes.
OnLengthChanged(n) ==
  /\ phase = "run" /\ options < MaxOptions /\ ClampLength(n) # length
  /\ length' = ClampLength(n)
  /\ curve' = [i \in DOMAIN curve |-> TrimTrace(curve[i], length')]
  /\ xrange' = <<length', period>>
  /\ options' = options + 1
  /\ UNCHANGED <<phase, todo, base, traces, period, rangesFixed, inflight, io, queue, dev, clock,
                 events, shown, excused>>

OnPeriodChanged(p) ==
  /\ phase = "run" /\ options < MaxOptions /\ ClampPeriod(p) # period
  /\ period' = ClampPeriod(p)
  /\ xrange' = <<length, period'>>
  /\ options' = options + 1
  /\ UNCHANGED <<phase, todo, base, traces, curve, length, rangesFixed, inflight, io, queue, dev,
                 clock, events, shown, excused>>

\* A tick of the timer is skipped while a sample is running.
Tick ==
  /\ phase = "run" /\ ~inflight /\ clock < MaxReports
  /\ inflight' = TRUE /\ io' = Started
  /\ UNCHANGED <<phase, todo, base, traces, curve, length, period, rangesFixed, xrange, queue, dev,
                 clock, options, events, shown, excused>>

\* A report puts one sample on each curve, at the time it is handled and with
\* the length of that moment; an error leaves the curve as it was.
Reported(c, r, t) ==
  IF r.error THEN [c EXCEPT !.readError = TRUE]
  ELSE AddSample(c, t, r.val, r.ok, length)

\* Every report ends the sample, also one with errors in it.
InflightAfter_Error(report) == \E i \in DOMAIN report : report[i].error
InflightAfter(report) == FALSE

OnSamples ==
  /\ phase = "run" /\ queue # <<>>
  /\ queue' = Tail(queue) /\ inflight' = InflightAfter(Head(queue)) /\ clock' = clock + 1
  /\ curve' = [i \in DOMAIN curve |-> Reported(curve[i], Head(queue)[i], clock')]
  /\ LET any == \E i \in DOMAIN curve : curve'[i].xs # <<>> IN
     /\ rangesFixed' = (rangesFixed \/ any)
     /\ xrange' = IF ~rangesFixed /\ any THEN <<length, period>> ELSE xrange
  /\ shown' = [e \in DOMAIN shown |-> shown[e]
       + Cardinality({i \in DOMAIN curve : ~Head(queue)[i].error /\ e \in Head(queue)[i].val})]
  /\ UNCHANGED <<phase, todo, base, traces, length, period, io, dev, options, events, excused>>

\* The window is closed: the signals still queued are never handled, and the
\* loop stops at its next turn, wherever the sampler then is.
Close ==
  /\ phase = "run" /\ phase' = "closing"
  /\ UNCHANGED <<todo, base, traces, curve, length, period, rangesFixed, xrange, inflight, io,
                 queue, dev, clock, options, events, shown, excused>>
LoopStop ==
  /\ phase = "closing" /\ phase' = "closed"
  /\ UNCHANGED <<todo, base, traces, curve, length, period, rangesFixed, xrange, inflight, io,
                 queue, dev, clock, options, events, shown, excused>>

-----------------------------------------------------------------------------
(* The sampler, on the io thread: one await per step.                      *)

Sampling(stage) ==
  phase \in {"run", "closing"} /\ io.at > 0 /\ io.stage = stage
Trace == traces[io.at]
Lane == LaneOf(Trace)

\* The result of trace io.at is there: the next trace, or the report.
Result(val, ok, error) == [val |-> val, ok |-> ok, error |-> error]

NextTrace(r) ==
  LET results == Append(io.results, r) IN
  IF io.at < Len(traces)
  THEN io' = [Started EXCEPT !.at = io.at + 1, !.results = results]
       /\ queue' = queue
  ELSE io' = Idle /\ queue' = Append(queue, results)

Failed == NextTrace(Result({}, TRUE, TRUE))

\* v_check of the value read; a raising check costs the sample.
CheckRaises(val) == Reg(Trace).check = "div" /\ val # {}
CheckOk(val) == Reg(Trace).check # "zero" \/ val = {}
Checked(val) ==
  IF CheckRaises(val) THEN Failed ELSE NextTrace(Result(val, CheckOk(val), FALSE))

IoReadFails ==
  /\ Sampling("read") /\ Reg(Trace).acc # "k"
  /\ Failed
  /\ UNCHANGED <<guiVars, dev, events, excused>>

\* read_converted, read_converted_idx: an rc register is to be cleared next.
IoReadRc ==
  /\ Sampling("read") /\ Reg(Trace).acc = "rc"
  /\ io' = [io EXCEPT !.stage = "clear", !.val = dev[Lane]]
  /\ UNCHANGED <<guiVars, queue, dev, events, excused>>

IoRead(val) ==
  /\ Sampling("read") /\ Reg(Trace).acc # "rc"
  /\ Reg(Trace).acc = "k" => val = {0}       \* a constant, from the cache
  /\ Checked(val)
  /\ UNCHANGED <<guiVars, dev, events, excused>>

\* The element trace io.at clears.
ClearRc_WholeReg == {l \in Lanes : l[1] = Trace.addr /\ l[2] = Trace.name}
ClearRc == {Lane}

Cleared == [l \in Lanes |-> IF l \in ClearRc THEN {} ELSE dev[l]]

\* Events since the read are cleared unseen.
IoClear ==
  /\ Sampling("clear")
  /\ dev' = Cleared
  /\ excused' = excused \cup (dev[Lane] \ io.val)
                        \cup (IF CheckRaises(io.val) THEN io.val ELSE {})
  /\ Checked(io.val)
  /\ UNCHANGED <<guiVars, events>>

\* The clear raises, before or after it took effect: the value is dropped.
IoClearFails(effect) ==
  /\ Sampling("clear")
  /\ dev' = IF effect THEN Cleared ELSE dev
  /\ excused' = IF effect THEN excused \cup dev[Lane] ELSE excused
  /\ Failed
  /\ UNCHANGED <<guiVars, events>>

\* The device: an event at an rc element.
Event(l) ==
  /\ phase \in {"run", "closing"} /\ Maps[l[1]][l[2]].acc = "rc"
  /\ events < MaxEvents
  /\ events' = events + 1
  /\ dev' = [dev EXCEPT ![l] = @ \cup {events'}]
  /\ UNCHANGED <<guiVars, io, queue, excused>>

IoStep ==
  \/ IoReadFails
  \/ IoReadRc
  \/ \E val \in {{}, {0}} : IoRead(val)
  \/ IoClear
  \/ \E effect \in BOOLEAN : IoClearFails(effect)

Setup ==
  \/ \E tokens \in Targets : Main(tokens)
  \/ \E tokens \in Targets : MainRefused(tokens)
  \/ BuildModule
  \/ BuildTrace
  \/ BuildRefused
  \/ BuildDone
  \/ \E a \in DOMAIN Maps : \E n \in DOMAIN Maps[a] :
       \/ AddReg(a, n)
       \/ AddRegVecAll(a, n)
       \/ \E x \in 0..Maps[a][n].vec : AddRegVecIdx(a, n, x)
  \/ Run

Next ==
  \/ Setup
  \/ \E n \in Lengths : OnLengthChanged(n)
  \/ \E p \in Periods : OnPeriodChanged(p)
  \/ Tick
  \/ OnSamples
  \/ Close
  \/ LoopStop
  \/ IoStep
  \/ \E l \in Lanes : Event(l)

\* The timer goes off, the io loop runs what is ready and each of its reads
\* and writes ends (the TCP client has a timeout), Qt delivers its signals.
Fairness == WF_vars(Tick) /\ WF_vars(IoStep) /\ WF_vars(OnSamples)

Spec == Init /\ [][Next]_vars /\ Fairness

-----------------------------------------------------------------------------
Increasing(s) == \A j, k \in DOMAIN s : j < k => s[j] < s[k]
FailedTimes(xs) == {xs[k].t : k \in {k \in DOMAIN xs : ~xs[k].ok}}

\* Samples in the order of their times, and a marker for each failed one.
InStep(xs, bad) ==
  /\ \A j, k \in DOMAIN xs : j < k => xs[j].t < xs[k].t
  /\ Increasing(bad)
  /\ ToSet(bad) = FailedTimes(xs)

\* Whatever the order of samples, trims and option changes, a curve never
\* exceeds the length of the option row, the red markers are exactly the
\* samples of the curve that failed their v_check, in order, and once fixed
\* the time axis is that of the length and the period in use (add_sample,
\* trim_trace, _apply_x_range).
CurvesInStep ==
  /\ \A i \in DOMAIN curve :
       /\ Len(curve[i].xs) <= length
       /\ InStep(curve[i].xs, curve[i].bad)
  /\ rangesFixed => xrange = <<length, period>>

\* What is on its way to the plot: read, among the results, or in a report.
Held ==
  (io.val \cup (UNION {r.val : r \in ToSet(io.results)}))
     \cup (UNION {r.val : r \in UNION {ToSet(q) : q \in ToSet(queue)}})

\* Reading and clearing rc registers in turn, no event is plotted twice, and
\* one that is neither at the device any more, nor in a sample still to be
\* handled, nor plotted, was lost in one of the ways the code has to lose it:
\* it came between the read and the clear of its own element, or its sample
\* raised after the clear (Trace.sample, _sample_all).
EventsPlottedOnce ==
  \A e \in 1..events :
    /\ shown[e] <= 1
    /\ e \notin excused =>
         shown[e] = 1 \/ e \in Held \/ \E l \in Lanes : e \in dev[l]

\* Reads, clears and checks may fail in any order: until the window is closed
\* the plot goes on sampling (_inflight is reset by every report, and every
\* sample that was started is reported).
SamplingGoesOn ==
  [](phase = "run" => <>(phase # "run" \/ clock = MaxReports))
=============================================================================
