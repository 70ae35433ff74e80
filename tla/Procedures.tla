------------------------------ MODULE Procedures ------------------------------
(***************************************************************************)
(* The schedule that one invocation of an experiment procedure computes.   *)
(*                                                                         *)
(* scheduleProcedureInvocation takes the clock, finds the next Starlink    *)
(* reconfiguration instant (RI) and calls the procedure, which decides in  *)
(* one pass, before anything runs, when each of its measurements starts    *)
(* and what the packet captures cover.  The order of the tests and the     *)
(* cool-downs are drawn at random, so the golden files of the repository   *)
(* pin down one schedule per procedure; here every draw is a choice.       *)
(*                                                                         *)
(* Times are milliseconds.  A procedure is a record: where its first test  *)
(* starts relative to the RI, its tests, the rule of its loop, whether it  *)
(* panics when it ends late, and its capture.  Packet sizes and the        *)
(* direction do not influence the schedule and are left out.               *)
(***************************************************************************)
EXTENDS Integers, FiniteSets, Sequences

CONSTANTS Params,   \* the prepared parameters, by name: lists and numbers
          Nows      \* clock readings at which an invocation is scheduled

ASSUME NowsAssumption == Nows \subseteq Nat

\* PrepareParams lets only unsigned numbers pass, in defaults and overrides, and
\* asks nothing else of them: a list may be empty or repeat a value, and a number
\* may be zero.  Offsets, switch rates and cool-downs are fixed in the code.
ASSUME ParamsAssumption ==
  /\ \A list \in {Params.tcpDurations, Params.quicDurations, Params.rateDurations,
                  Params.packetDurations, Params.packets, Params.rates,
                  Params.mice, Params.progDurations, Params.rampDurations} :
       list \in Seq(Nat)
  /\ Params.step \in Nat /\ Params.max \in Nat /\ Params.duration \in Nat
  /\ Params.offsets \subseteq Nat
  /\ Params.coolDowns \subseteq Nat /\ Params.coolDowns # {}

VARIABLES proc,     \* the procedure
          now,      \* the clock when it is scheduled
          ts,       \* the RI it refers to
          pc,       \* idle, loop, capture, planned, panic or error
          start,    \* the procedure's variable of that name
          todo,     \* the tests, or cool-downs, that have not been drawn
          group,    \* the outer loop's value, for nested loops
          round,    \* how many tests have been scheduled
          sched,    \* the measurements handed to RunClient
          window    \* the capture handed to Tcpdump

vars == <<proc, now, ts, pc, start, todo, group, round, sched, window>>

Second == 1000
Interval == 15 * Second

(***************************************************************************)
(* Reconfiguration intervals.                                              *)
(***************************************************************************)
RISeconds == {12, 27, 42, 57, 57 + 15}

\* The first boundary after a second; :72 is :12 of the next minute.
RIAfter(sec) ==
  CHOOSE r \in RISeconds : r > sec /\ \A q \in RISeconds : q > sec => r <= q

\* The clock is rounded to a second, half a second upwards.
NextRI(t) ==
  LET base == (t + Second \div 2) \div Second
      sec  == base % 60
  IN  (base - sec + RIAfter(sec)) * Second

Deadline(t) == NextRI(t) - Second

(***************************************************************************)
(* Tests.  A test is one pass of a procedure's loop: the measurements it   *)
(* starts, as offsets from start, and by how much it advances start.  nr   *)
(* is its place in the parameter's list, key what the names of its result  *)
(* files show of it.                                                       *)
(***************************************************************************)
Flow(off, len, name) == [off |-> off, len |-> len, name |-> name]

Values(list) == {list[i] : i \in DOMAIN list}

Test(nr, key, flows, step) ==
  [nr |-> nr, key |-> key, flows |-> flows, step |-> step, look |-> 0, group |-> 0]

\* A load together with the two delay probes that run beside it.
Probed(load, len) == {Flow(0, len, n) : n \in {load, "owd-icmp", "owd-udp"}}

\* A capture starts at the RI and lasts for the whole interval, or until a
\* second after start, or it is placed relative to start, or there is none.
WholeInterval == [kind |-> "interval", off |-> 0, len |-> Interval]
Followed      == [kind |-> "followed", off |-> 0, len |-> Second]
Around(off, len) == [kind |-> "around", off |-> off, len |-> len]
NoCapture     == [kind |-> "none", off |-> 0, len |-> 0]

\* A loop that leaves out the tests which would end after the deadline.
Checked(tests) ==
  [from |-> Second, rule |-> "before", tests |-> tests,
   strict |-> TRUE, capture |-> WholeInterval]

\* A loop that looks ahead once a test has been scheduled.
Following(tests, capture) ==
  [from |-> Second, rule |-> "after", tests |-> tests,
   strict |-> FALSE, capture |-> capture]

\* A procedure without a loop: one of the tests, at a fixed offset, and a
\* capture given by its offset from the start and its length.
Once(from, tests, capture) ==
  [from |-> from, rule |-> "once", tests |-> tests,
   strict |-> FALSE, capture |-> capture]

(***************************************************************************)
(* The procedures.                                                         *)
(***************************************************************************)
MultiBurst(runs) ==
  Checked({Test(pad, pad, {Flow(0, 4000, r) : r \in runs}, 4000) :
             pad \in {0, 700, 1400}})

DurationTCP ==
  LET ds == Params.tcpDurations
      cs == Params.ccas
  IN  Checked({Test(<<i, j>>, <<ds[i], cs[j]>>, Probed("tcp", ds[i]),
                    ds[i] + 2000) : i \in DOMAIN ds, j \in DOMAIN cs})

\* Mutant of ProgressiveDurationQUIC: start advances by the pause alone.
ProgressiveDurationQUICPause ==
  LET ds == Params.quicDurations
  IN  Checked({Test(i, ds[i], {Flow(0, ds[i], "quic")}, 1000) : i \in DOMAIN ds})

ProgressiveDurationQUIC ==
  LET ds == Params.quicDurations
  IN  Checked({Test(i, ds[i], {Flow(0, ds[i], "quic")}, ds[i] + 1000) :
                 i \in DOMAIN ds})

\* The rates are the outer loop: a duration that does not fit ends the inner
\* loop only, and the next rate is tried.
MultiDurationRate ==
  LET rs == Params.rates
      ds == Params.rateDurations
  IN  Checked({[Test(<<i, j>>, <<rs[i], ds[j]>>, Probed("rate", ds[j]),
                     ds[j] + 2000) EXCEPT !.group = i] :
                 i \in DOMAIN rs, j \in DOMAIN ds})

\* The check after a test asks for the duration of one more.  The files are
\* named after the number of the pass, which no other test has.
MouseElephantFlows ==
  Following({[Test(i, i, {Flow(0, 4000, "eleph"), Flow(0, 4000, "mouse")}, 7000)
                EXCEPT !.look = 4000] : i \in DOMAIN Params.mice},
            Followed)

\* It asks for the duration of the test just scheduled, not of the next one.
PacketsDuration ==
  LET ds == Params.packetDurations
      ps == Params.packets
  IN  Following({[Test(<<i, j>>, <<ds[i], ps[j]>>, {Flow(0, ds[i], "packets")},
                       ds[i] + 2000) EXCEPT !.look = ds[i]] :
                   i \in DOMAIN ds, j \in DOMAIN ps},
                WholeInterval)

MultiFlow ==
  Following({[Test(o, o, {Flow(0, 800, "a"), Flow(o, 800 + (800 - o), "b")},
                   o + 800 + 2000)
                EXCEPT !.look = 2 * 800 + 2000] : o \in Params.offsets},
            Followed)

SwitchFlow ==
  Following({[Test(r, r, {Flow(0, 800, "a"), Flow(800, 800, "b")},
                   2 * 800 + 2000)
                EXCEPT !.look = 2 * 800 + 2000] : r \in Params.switchRates},
            Followed)

\* These loops check nothing until they have ended.
Unchecked(durations) ==
  [Checked({Test(i, durations[i], {Flow(0, durations[i], "rate")},
                 durations[i] + (IF durations[i] < 1000 THEN 500 ELSE 1500)) :
              i \in DOMAIN durations})
     EXCEPT !.rule = "never"]

ProgressiveRate == Unchecked(Params.progDurations)

RampUpProbe == Unchecked(Params.rampDurations)

\* Two cool-down procedures: their tests are the cool-downs themselves.
Drawing(rule, coolDowns) ==
  [from |-> Second, rule |-> rule, tests |-> coolDowns,
   strict |-> FALSE, capture |-> Followed]

\* Nothing can be drawn, neither a rate from an empty list nor a cool-down
\* below zero or in steps of zero.
NoDraws == Params.rates = <<>> \/ Params.max = 0 \/ Params.step = 0

CoolDownSameFlow ==
  Drawing("same", IF NoDraws THEN {}
                  ELSE {(n \div Params.step) * Params.step :
                          n \in 0 .. Params.max - 1})

CoolDownDifferentFlow == Drawing("different", Params.coolDowns)

\* Mutant of QUIC: the capture's lead is taken from its length.
QUICShort ==
  Once(Second,
       {Test(0, 0, {Flow(0, 5000, "10M"), Flow(7000, 5000, "unlim")}, 0)},
       Around(-1000, 12000))

QUIC ==
  Once(Second,
       {Test(0, 0, {Flow(0, 5000, "10M"), Flow(7000, 5000, "unlim")}, 0)},
       Around(-1000, 14000))

MeasOWD(directions) ==
  Once(5000,
       {Test(0, 0, {Flow(0, Params.duration, <<n, d>>) :
                   n \in {"owd-udp", "owd-icmp"}, d \in directions}, 0)},
       Around(-5000, 5000 + Params.duration + 2000))

MeasRate(directions) ==
  Once(5000,
       {Test(0, 0, {Flow(0, Params.duration, <<n, d>>) :
                   n \in {"rate", "owd-icmp", "owd-udp"},
                   d \in directions}, 0)},
       NoCapture)

RateRI ==
  Once(-1500, {Test(r, r, Probed("rateri", 3000), 0) : r \in Values(Params.rates)},
       Around(-1000, 5000))

\* One of the congestion controls, or, past the last index, UDP.
DurationTCPRI ==
  Once(-6000,
       {Test(c, c, Probed(IF c = "udp" THEN "udp" ELSE "tcp", 12000), 0) :
          c \in Values(Params.ccas) \cup {"udp"}},
       Around(-1000, 14000))

TraceRi ==
  Once(7000,
       {Test(0, 0, {Flow(0, 3000, <<"owd", d>>) : d \in {"ul", "dl"}}
                \cup {Flow(4000, 10000, <<"rate", d>>) : d \in {"ul", "dl"}},
             0)},
       Around(-500, 16000))

\* The registered procedures.
Procedure ==
  [burst |-> MultiBurst({"a"}), multiburst |-> MultiBurst({"a", "b"}),
   durationtcp |-> DurationTCP, progdurquic |-> ProgressiveDurationQUIC,
   multidurrate |-> MultiDurationRate, mouseeleph |-> MouseElephantFlows,
   packetdur |-> PacketsDuration, multiflow |-> MultiFlow,
   switchflow |-> SwitchFlow, prograte |-> ProgressiveRate,
   rampupprobe |-> RampUpProbe, cdsf |-> CoolDownSameFlow,
   cddf |-> CoolDownDifferentFlow, simplequic |-> QUIC,
   owd |-> MeasOWD({"ul"}), owdbidir |-> MeasOWD({"dl", "ul"}),
   rate |-> MeasRate({"ul"}), ratebidir |-> MeasRate({"dl", "ul"}),
   rateri |-> RateRI, tcpri |-> DurationTCPRI, trace |-> TraceRi]

(***************************************************************************)
(* Planning.                                                               *)
(***************************************************************************)
Init ==
  /\ proc \in DOMAIN Procedure
  /\ now \in Nows
  /\ pc = "idle"
  /\ ts = 0 /\ start = 0 /\ todo = {} /\ group = 0 /\ round = 0
  /\ sched = {} /\ window = [kind |-> "none", at |-> 0, len |-> 0]

\* Mutant of FirstStart: the clock is not looked at.
FirstStartAnyway(p, ri) == ri + Procedure[p].from

\* Only tcpri looks at the clock: it moves on by an interval when its test
\* would start in less than two seconds.
FirstStart(p, ri) ==
  LET at == ri + Procedure[p].from
  IN  IF p = "tcpri" /\ at - now < 2 * Second THEN at + Interval ELSE at

\* scheduleProcedureInvocation takes the clock again after the metadata and
\* calls the procedure, which sets up its loop.
ScheduleInvocation ==
  /\ pc = "idle"
  /\ ts' = NextRI(now)
  /\ start' = FirstStart(proc, ts')
  /\ todo' = Procedure[proc].tests
  /\ pc' = "loop"
  /\ UNCHANGED <<proc, now, group, round, sched, window>>

InLoop(rule) == pc = "loop" /\ Procedure[proc].rule = rule

\* RunClient is called once for every measurement of a test.
RunClients(at, flows, key) ==
  /\ sched' = sched \cup
       {[at |-> at + f.off, len |-> f.len, out |-> <<f.name, key>>,
         round |-> round] : f \in flows}
  /\ round' = round + 1

\* The tests the running inner loop has left, or those of any other group.
Candidates ==
  IF \E t \in todo : t.group = group
  THEN {t \in todo : t.group = group}
  ELSE todo

\* The test would take too long: its loop is left.
LeaveOut(t) ==
  /\ InLoop("before") /\ t \in Candidates
  /\ start + t.step > Deadline(ts)
  /\ todo' = {u \in todo : u.group # t.group}
  /\ UNCHANGED <<proc, now, ts, pc, start, group, round, sched, window>>

FitIn(t) ==
  /\ InLoop("before") /\ t \in Candidates
  /\ start + t.step <= Deadline(ts)
  /\ RunClients(start, t.flows, t.key)
  /\ start' = start + t.step
  /\ todo' = todo \ {t}
  /\ group' = t.group
  /\ UNCHANGED <<proc, now, ts, pc, window>>

\* packetdur divides by the duration of the test, which is also its look.
DividesByZero(t) == proc = "packetdur" /\ t.look = 0

\* Mutant of LookAhead: only the start of the next test is checked.
LookAheadNot(t) ==
  /\ InLoop("after") /\ t \in todo /\ ~DividesByZero(t)
  /\ RunClients(start, t.flows, t.key)
  /\ start' = start + t.step
  /\ todo' = IF start' > Deadline(ts) THEN {} ELSE todo \ {t}
  /\ UNCHANGED <<proc, now, ts, pc, group, window>>

LookAhead(t) ==
  /\ InLoop("after") /\ t \in todo /\ ~DividesByZero(t)
  /\ RunClients(start, t.flows, t.key)
  /\ start' = start + t.step
  /\ todo' = IF start' + t.look > Deadline(ts) THEN {} ELSE todo \ {t}
  /\ UNCHANGED <<proc, now, ts, pc, group, window>>

Unguarded(t) ==
  /\ InLoop("never") /\ t \in todo
  /\ RunClients(start, t.flows, t.key)
  /\ start' = start + t.step
  /\ todo' = todo \ {t}
  /\ UNCHANGED <<proc, now, ts, pc, group, window>>

PickOne(t) ==
  /\ InLoop("once") /\ t \in todo
  /\ RunClients(start, t.flows, t.key)
  /\ todo' = {}
  /\ UNCHANGED <<proc, now, ts, pc, start, group, window>>

LeaveDraws ==
  /\ pc' = "capture"
  /\ UNCHANGED <<proc, now, ts, start, todo, group, round, sched, window>>

\* Mutant of DrawSame: another cool-down is drawn when the first is too long.
DrawSameAgain(c) ==
  LET nextStart == start + 2 * 800 + c
  IN  /\ InLoop("same") /\ c \in todo
      /\ nextStart <= Deadline(ts)
      /\ RunClients(nextStart, {Flow(0, 800 + c + 800, "cdrate")}, c)
      /\ start' = nextStart + 2000
      /\ todo' = todo \ {c}
      /\ UNCHANGED <<proc, now, ts, pc, group, window>>

\* A cool-down that was drawn before is drawn again, which changes nothing;
\* a fresh one is tested if the check lets it pass.  The check of cdsf is
\* for the test to end in time, and the test starts where it was to end.
DrawSame(c) ==
  LET nextStart == start + 2 * 800 + c
  IN  /\ InLoop("same") /\ c \in todo
      /\ \/ nextStart > Deadline(ts) /\ LeaveDraws
         \/ /\ nextStart <= Deadline(ts)
            /\ RunClients(nextStart, {Flow(0, 800 + c + 800, "cdrate")}, c)
            /\ start' = nextStart + 2000
            /\ todo' = todo \ {c}
            /\ UNCHANGED <<proc, now, ts, pc, group, window>>

DrawDifferent(c) ==
  /\ InLoop("different") /\ c \in todo
  /\ \/ start > Deadline(ts) /\ LeaveDraws
     \/ /\ start <= Deadline(ts)
        /\ RunClients(start, {Flow(0, 800, "a"), Flow(800 + c, 800, "b")}, c)
        /\ start' = start + 800 + c + 800 + 2000
        /\ todo' = todo \ {c}
        /\ UNCHANGED <<proc, now, ts, pc, group, window>>

\* rng.Intn of zero: a rate or a cool-down is to be drawn and there is none.
NothingToDraw ==
  /\ pc = "loop" /\ Procedure[proc].rule \in {"once", "same", "different"}
  /\ Procedure[proc].tests = {}

LoopOver ==
  \/ pc = "capture"
  \/ /\ pc = "loop" /\ todo = {} /\ ~NothingToDraw
     /\ Procedure[proc].rule \notin {"same", "different"}

TooManyTests == LoopOver /\ Procedure[proc].strict /\ start > Deadline(ts)

\* The procedure panics: after its loop, when it checks for too many tests, or
\* in it, when the next test drawn has no duration or nothing can be drawn.
Panic ==
  /\ \/ TooManyTests
     \/ NothingToDraw
     \/ InLoop("after") /\ \E t \in todo : DividesByZero(t)
  /\ pc' = "panic"
  /\ UNCHANGED <<proc, now, ts, start, todo, group, round, sched, window>>

Tcpdump(at, len) == window' = [kind |-> "set", at |-> at, len |-> len]

\* The capture is planned last.  cdsf also returns an error when it has gone
\* past the interval by more than a second.
Finish ==
  /\ LoopOver /\ ~TooManyTests
  /\ LET c == Procedure[proc].capture
     IN  CASE c.kind = "interval" -> Tcpdump(ts, c.len)
           [] c.kind = "followed" -> Tcpdump(ts, start - ts + c.len)
           [] c.kind = "around"   -> Tcpdump(start + c.off, c.len)
           [] OTHER               -> UNCHANGED window
  /\ pc' = IF proc = "cdsf" /\ start > NextRI(ts) + Second
           THEN "error" ELSE "planned"
  /\ UNCHANGED <<proc, now, ts, start, todo, group, round, sched>>

Next ==
  \/ ScheduleInvocation
  \/ \E t \in todo : LeaveOut(t)
  \/ \E t \in todo : FitIn(t)
  \/ \E t \in todo : LookAhead(t)
  \/ \E t \in todo : Unguarded(t)
  \/ \E t \in todo : PickOne(t)
  \/ \E c \in todo : DrawSame(c)
  \/ \E c \in todo : DrawDifferent(c)
  \/ Panic
  \/ Finish

\* Planning is one thread that nothing holds up, and the random source
\* yields, sooner or later, a cool-down that has not been drawn yet.
Spec == Init /\ [][Next]_vars /\ WF_vars(Next)

-----------------------------------------------------------------------------
\* The procedures that are meant to stay within one interval.
IntervalProcedures ==
  DOMAIN Procedure \ {"owd", "owdbidir", "rate", "ratebidir",
                      "rateri", "tcpri", "trace"}

End(f) == f.at + f.len

\* A procedure that captures packets captures every packet: its window
\* contains all of the measurements, whatever was drawn
\* (procedures_test.go:241 checks one seed).
CapturesCover ==
  window.kind = "set" =>
    \A f \in sched : window.at <= f.at /\ End(f) <= window.at + window.len

\* The lists whose values are all that tells the procedure's files apart.
NamedBy(p) ==
  CASE p = "durationtcp"  -> {Params.tcpDurations, Params.ccas}
    [] p = "progdurquic"  -> {Params.quicDurations}
    [] p = "multidurrate" -> {Params.rates, Params.rateDurations}
    [] p = "packetdur"    -> {Params.packetDurations, Params.packets}
    [] p = "prograte"     -> {Params.progDurations}
    [] p = "rampupprobe"  -> {Params.rampDurations}
    [] OTHER              -> {}

Unrepeated(list) == \A i, j \in DOMAIN list : list[i] = list[j] => i = j

NamesDiffer(p) == \A list \in NamedBy(p) : Unrepeated(list)

\* The tests of one invocation do not disturb each other: no measurement
\* overlaps one of another test, and none overwrites the other's results unless
\* an override lists one value twice, which nothing forbids (params.go:170) and
\* which gives two tests the same file name (prograte.go:65).
MeasurementsApart ==
  \A f, g \in sched :
    /\ NamesDiffer(proc) /\ f # g => f.out # g.out
    /\ f.round < g.round => End(f) <= g.at

\* The parameters with which a procedure can panic: loops without a check, a
\* zero duration that packetdur divides by, and draws from nothing.
MayPanic(p) ==
  \/ Procedure[p].rule = "never"
  \/ p = "packetdur" /\ 0 \in Values(Params.packetDurations)
  \/ p = "cdsf" /\ NoDraws
  \/ p = "rateri" /\ Params.rates = <<>>

\* Everything of an interval procedure ends before the next RI.  No procedure
\* panics for other parameters than MayPanic's, and the error of cdsf never
\* comes.  The cool-down procedures are the exception, see CoolDownFits.
PlanFits ==
  /\ pc = "panic" => MayPanic(proc)
  /\ pc # "error"
  /\ pc = "planned" /\ proc \in IntervalProcedures \ {"cdsf", "cddf"} =>
       \A f \in sched : End(f) <= NextRI(ts)

\* Nothing is scheduled in the past: the client still has to ask the server
\* for every measurement before it starts.  rateri starts 1.5 s before an RI
\* that can be half a second away, and is the exception.
StartsAhead ==
  proc # "rateri" =>
    /\ \A f \in sched : f.at > now
    /\ window.kind = "set" => window.at > now

\* Every procedure comes to an end: the loops over a permutation because it
\* is finite, those that draw because a fresh cool-down advances start.
ScheduleEnds == <>(pc \in {"planned", "panic", "error"})

\* A cool-down test "still fits into the current RI" (cdsf.go:101).
CoolDownFits ==
  proc = "cdsf" => \A f \in sched : End(f) <= NextRI(ts)
=============================================================================
