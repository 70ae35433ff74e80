-------------------------- MODULE ProceduresProofs --------------------------
(***************************************************************************)
(* Proofs about the schedules of the procedures, for any clock reading and *)
(* any prepared parameters.                                                *)
(***************************************************************************)
EXTENDS Procedures, TLAPS

(***************************************************************************)
(* Reconfiguration intervals.                                              *)
(***************************************************************************)
LEMMA RIAfterIs ==
  ASSUME NEW sec \in 0..59
  PROVE  RIAfter(sec) = IF sec < 12 THEN 12 ELSE IF sec < 27 THEN 27
                        ELSE IF sec < 42 THEN 42 ELSE IF sec < 57 THEN 57 ELSE 72
<1> DEFINE First(r) == r > sec /\ \A q \in RISeconds : q > sec => r <= q
           s == IF sec < 12 THEN 12 ELSE IF sec < 27 THEN 27
                ELSE IF sec < 42 THEN 42 ELSE IF sec < 57 THEN 57 ELSE 72
<1>1. s \in RISeconds /\ First(s)
  BY DEF RISeconds
<1>2. \A r \in RISeconds : First(r) => r = s
  BY DEF RISeconds
<1>3. RIAfter(sec) = CHOOSE r \in RISeconds : First(r)
  BY DEF RIAfter
<1> HIDE DEF First, s
<1>4. (CHOOSE r \in RISeconds : First(r)) = s
  BY <1>1, <1>2, Zenon
<1>5. QED
  BY <1>3, <1>4 DEF s

LEMMA NextRIIs ==
  ASSUME NEW t \in Nat, NEW b, b = (t + 500) \div 1000
  PROVE  NextRI(t) = (b - (b % 60) + RIAfter(b % 60)) * 1000
  BY DEF NextRI, Second

\* The next boundary is more than half a second and at most 15.5 s ahead, and
\* the one after it 15 s later: NextRI may skip a boundary that is less than half
\* a second away, and never finds the one that it is at.
LEMMA NextRIAhead ==
  ASSUME NEW t \in Nat
  PROVE  /\ NextRI(t) \in Nat
         /\ t + 500 < NextRI(t) /\ NextRI(t) <= t + 15500
         /\ NextRI(NextRI(t)) = NextRI(t) + 15000
<1> DEFINE base == (t + 500) \div 1000
           sec == base % 60
           ri == RIAfter(sec)
           k == base - sec + ri
<1>1. /\ base \in Nat /\ sec \in 0..59
      /\ 1000 * base <= t + 500 /\ t + 500 < 1000 * base + 1000
  OBVIOUS
<1>2. NextRI(t) = k * 1000
  <2>1. base = (t + 500) \div 1000
    OBVIOUS
  <2> HIDE DEF base
  <2>2. NextRI(t) = (base - (base % 60) + RIAfter(base % 60)) * 1000
    BY <2>1 DEF NextRI, Second
  <2>3. QED
    BY <2>2
<1>3. ri - sec \in 1..15 /\ ri \in {12, 27, 42, 57, 72}
  BY <1>1, RIAfterIs
<1>4. k \in Nat /\ base + 1 <= k /\ k <= base + 15
  BY <1>1, <1>3
<1>5. (k * 1000 + 500) \div 1000 = k
  BY <1>4
<1>6. k % 60 = IF ri = 72 THEN 12 ELSE ri
  <2>1. PICK j \in Nat : base - sec = 60 * j
    <3>1. base - sec = 60 * (base \div 60) /\ base \div 60 \in Nat
      BY <1>1
    <3>2. QED
      BY <3>1
  <2>2. k = 60 * j + ri
    BY <2>1
  <2>3. QED
    BY <2>2, <1>3
<1>7. RIAfter(k % 60) = (k % 60) + 15
  BY <1>3, <1>6, RIAfterIs
<1> HIDE DEF k, ri
<1>8. NextRI(k * 1000) = (k - (k % 60) + RIAfter(k % 60)) * 1000
  <2>1. k * 1000 \in Nat
    BY <1>4
  <2>2. k = (k * 1000 + 500) \div 1000
    BY <1>5
  <2>3. QED
    BY <2>1, <2>2, NextRIIs
<1>9. NextRI(k * 1000) = k * 1000 + 15000
  <2>1. k % 60 \in Nat
    BY <1>4
  <2>2. NextRI(k * 1000) = (k - (k % 60) + ((k % 60) + 15)) * 1000
    BY <1>7, <1>8
  <2>3. \A m \in Nat : k - m + (m + 15) = k + 15
    BY <1>4
  <2>4. NextRI(k * 1000) = (k + 15) * 1000
    BY <2>1, <2>2, <2>3
  <2>5. QED
    BY <1>4, <2>4
<1>10. QED
  BY <1>1, <1>2, <1>4, <1>9

(***************************************************************************)
(* What the procedures have in common, by the rule of their loop.          *)
(***************************************************************************)
\* The overrides for which the looks ahead of packetdur and the pause of cdsf
\* are long enough: packetdur asks for the duration of the test before, so that
\* no test may be longer than another by more than the second between the
\* deadline and the RI; cdsf starts a test where it was to end, and pauses for
\* 2 s.  The registered defaults, 10 to 400 ms and at most 600 ms, satisfy it.
ModestParams ==
  /\ \A d, e \in Values(Params.packetDurations) : d <= e + 1000 /\ d <= 14000
  /\ Params.max <= 1401

\* A test's measurements begin when it does or later, and have names of their own.
TestShape(t) ==
  /\ t.step \in Nat /\ t.look \in Nat
  /\ \A f \in t.flows : f.off \in Nat /\ f.len \in Int
  /\ \A f, g \in t.flows : f.name = g.name => f = g

\* A test is over before start, which it has advanced.
TestAdvances(t) == \A f \in t.flows : f.off + f.len <= t.step

KeysDiffer(tests) == \A t, u \in tests : t.key = u.key => t = u

\* A look ahead lets any other test of the procedure end in time.
LookSuffices(tests) ==
  \A t, u \in tests : \A f \in u.flows :
    f.off + f.len <= t.look + 1000 /\ f.off + f.len <= 14000

LoopShape(p) ==
  /\ p.from = 1000
  /\ \A t \in p.tests : TestShape(t) /\ TestAdvances(t)

CheckedShape(p) ==
  /\ LoopShape(p) /\ p.strict
  /\ p.rule \in {"before", "never"} /\ p.capture = WholeInterval

FollowingShape(p) ==
  /\ LoopShape(p) /\ ~p.strict
  /\ p.rule = "after" /\ p.capture \in {WholeInterval, Followed}
  /\ ModestParams => LookSuffices(p.tests)

DrawingShape(p) ==
  /\ p.from = 1000 /\ ~p.strict /\ p.rule \in {"same", "different"}
  /\ p.capture = Followed /\ p.tests \subseteq Nat
  /\ ModestParams /\ p.rule = "same" => p.tests \subseteq 0..1400

OnceShape(p) ==
  /\ p.from \in Int /\ ~p.strict /\ p.rule = "once"
  /\ \A t \in p.tests : TestShape(t)
  /\ p.capture.kind \in {"around", "none"}
  /\ p.capture.off \in Int /\ p.capture.len \in Int
  /\ p.capture.kind = "around" =>
        \A t \in p.tests : \A f \in t.flows :
          p.capture.off <= f.off /\ f.off + f.len <= p.capture.off + p.capture.len

\* A test whose measurements all have one length.
LEMMA SameFlows ==
  ASSUME NEW t, NEW d \in Nat, \A f \in t.flows : f = Flow(0, d, f.name),
         t.step \in Nat, t.look \in Nat
  PROVE  /\ TestShape(t) /\ (d <= t.step => TestAdvances(t))
         /\ \A f \in t.flows : f.off = 0 /\ f.len = d
<1>1. \A f \in t.flows : f.off = 0 /\ f.len = d
  BY DEF Flow
<1>2. \A f, g \in t.flows : f.name = g.name => f = g
  OBVIOUS
<1>3. QED
  BY <1>1, <1>2 DEF TestShape, TestAdvances

LEMMA ListsOfNumbers ==
  ASSUME NEW list \in Seq(Nat)
  PROVE  \A i \in DOMAIN list : list[i] \in Nat
  OBVIOUS

LEMMA MultiBurstShape ==
  ASSUME NEW runs
  PROVE  /\ CheckedShape(MultiBurst(runs)) /\ MultiBurst(runs).rule = "before"
         /\ KeysDiffer(MultiBurst(runs).tests)
<1> DEFINE F == {Flow(0, 4000, r) : r \in runs}
           T == MultiBurst(runs).tests
<1>1. T = {Test(pad, pad, F, 4000) : pad \in {0, 700, 1400}}
  BY DEF MultiBurst, Checked
<1>2. \A f \in F : f = Flow(0, 4000, f.name)
  BY DEF Flow
<1> HIDE DEF F, T
<1>3. \A t \in T : /\ t.flows = F /\ t.step = 4000 /\ t.look = 0
                   /\ t = Test(t.key, t.key, F, 4000)
  BY <1>1 DEF Test
<1>4. \A t \in T : TestShape(t) /\ TestAdvances(t)
  BY <1>2, <1>3, SameFlows
<1>5. ASSUME NEW t \in T, NEW u \in T, t.key = u.key PROVE t = u
  BY <1>3, <1>5
<1>6. QED
  BY <1>4, <1>5 DEF CheckedShape, LoopShape, KeysDiffer, MultiBurst, Checked,
     Second, T

LEMMA ProbedFlows ==
  ASSUME NEW load, NEW d \in Nat
  PROVE  \A f \in Probed(load, d) : f = Flow(0, d, f.name)
  BY DEF Probed, Flow

LEMMA DurationTCPShape ==
  /\ CheckedShape(DurationTCP) /\ DurationTCP.rule = "before"
  /\ Unrepeated(Params.tcpDurations) /\ Unrepeated(Params.ccas)
       => KeysDiffer(DurationTCP.tests)
<1> DEFINE ds == Params.tcpDurations
           cs == Params.ccas
           T == DurationTCP.tests
           Made(i, j) == Test(<<i, j>>, <<ds[i], cs[j]>>, Probed("tcp", ds[i]),
                              ds[i] + 2000)
<1>1. /\ T = {Made(i, j) : i \in DOMAIN ds, j \in DOMAIN cs}
      /\ DurationTCP.rule = "before" /\ DurationTCP.from = 1000
      /\ DurationTCP.strict /\ DurationTCP.capture = WholeInterval
  BY DEF DurationTCP, Checked, Second
<1>2. \A i, j : /\ Made(i, j).key = <<ds[i], cs[j]>> /\ Made(i, j).look = 0
                /\ Made(i, j).step = ds[i] + 2000
                /\ Made(i, j).flows = Probed("tcp", ds[i])
  BY DEF Test
<1>3. \A i \in DOMAIN ds : ds[i] \in Nat
  BY ParamsAssumption, ListsOfNumbers
<1> HIDE DEF T, Made, ds, cs
<1>4. ASSUME NEW t \in T
      PROVE  TestShape(t) /\ TestAdvances(t)
  <2>1. PICK i \in DOMAIN ds, j \in DOMAIN cs : t = Made(i, j)
    BY <1>1
  <2> DEFINE d == ds[i]
  <2>2. t.step = d + 2000 /\ t.look = 0 /\ t.flows = Probed("tcp", d) /\ d \in Nat
    BY <2>1, <1>2, <1>3
  <2> HIDE DEF d
  <2>3. \A f \in t.flows : f = Flow(0, d, f.name)
    BY <2>2, ProbedFlows
  <2>4. QED
    BY <2>2, <2>3, SameFlows
<1>5. ASSUME Unrepeated(ds), Unrepeated(cs), NEW t \in T, NEW u \in T,
             t.key = u.key
      PROVE  t = u
  <2>1. PICK i \in DOMAIN ds, j \in DOMAIN cs : t = Made(i, j)
    BY <1>1
  <2>2. PICK k \in DOMAIN ds, l \in DOMAIN cs : u = Made(k, l)
    BY <1>1
  <2>3. ds[i] = ds[k] /\ cs[j] = cs[l]
    BY <1>2, <1>5, <2>1, <2>2
  <2>4. i = k /\ j = l
    BY <1>5, <2>3 DEF Unrepeated
  <2>5. QED
    BY <2>1, <2>2, <2>4
<1>6. QED
  BY <1>1, <1>4, <1>5 DEF CheckedShape, LoopShape, KeysDiffer, T, ds, cs

LEMMA ProgressiveDurationQUICShape ==
  /\ CheckedShape(ProgressiveDurationQUIC)
  /\ ProgressiveDurationQUIC.rule = "before"
  /\ Unrepeated(Params.quicDurations) => KeysDiffer(ProgressiveDurationQUIC.tests)
<1> DEFINE ds == Params.quicDurations
           T == ProgressiveDurationQUIC.tests
           Made(i) == Test(i, ds[i], {Flow(0, ds[i], "quic")}, ds[i] + 1000)
<1>1. /\ T = {Made(i) : i \in DOMAIN ds}
      /\ ProgressiveDurationQUIC.rule = "before"
      /\ ProgressiveDurationQUIC.from = 1000 /\ ProgressiveDurationQUIC.strict
      /\ ProgressiveDurationQUIC.capture = WholeInterval
  BY DEF ProgressiveDurationQUIC, Checked, Second
<1>2. \A i : /\ Made(i).key = ds[i] /\ Made(i).step = ds[i] + 1000
             /\ Made(i).look = 0
             /\ \A f \in Made(i).flows : f = Flow(0, ds[i], f.name)
  BY DEF Test, Flow
<1>3. \A i \in DOMAIN ds : ds[i] \in Nat
  BY ParamsAssumption, ListsOfNumbers
<1> HIDE DEF T, Made, ds
<1>4. ASSUME NEW t \in T
      PROVE  TestShape(t) /\ TestAdvances(t)
  <2>1. PICK i \in DOMAIN ds : t = Made(i)
    BY <1>1
  <2>2. QED
    BY <2>1, <1>2, <1>3, SameFlows
<1>5. ASSUME Unrepeated(ds), NEW t \in T, NEW u \in T, t.key = u.key
      PROVE  t = u
  <2>1. PICK i \in DOMAIN ds, k \in DOMAIN ds : t = Made(i) /\ u = Made(k)
    BY <1>1
  <2>2. i = k
    BY <1>2, <1>5, <2>1 DEF Unrepeated
  <2>3. QED
    BY <2>1, <2>2
<1>6. QED
  BY <1>1, <1>4, <1>5 DEF CheckedShape, LoopShape, KeysDiffer, T, ds

LEMMA MultiDurationRateShape ==
  /\ CheckedShape(MultiDurationRate) /\ MultiDurationRate.rule = "before"
  /\ Unrepeated(Params.rates) /\ Unrepeated(Params.rateDurations)
       => KeysDiffer(MultiDurationRate.tests)
<1> DEFINE rs == Params.rates
           ds == Params.rateDurations
           T == MultiDurationRate.tests
           Made(i, j) == [Test(<<i, j>>, <<rs[i], ds[j]>>, Probed("rate", ds[j]),
                               ds[j] + 2000) EXCEPT !.group = i]
<1>1. /\ T = {Made(i, j) : i \in DOMAIN rs, j \in DOMAIN ds}
      /\ MultiDurationRate.rule = "before" /\ MultiDurationRate.from = 1000
      /\ MultiDurationRate.strict /\ MultiDurationRate.capture = WholeInterval
  BY DEF MultiDurationRate, Checked, Second
<1>2. \A i, j : /\ Made(i, j).key = <<rs[i], ds[j]>> /\ Made(i, j).look = 0
                /\ Made(i, j).step = ds[j] + 2000
                /\ Made(i, j).flows = Probed("rate", ds[j])
  BY DEF Test
<1>3. \A j \in DOMAIN ds : ds[j] \in Nat
  BY ParamsAssumption, ListsOfNumbers
<1> HIDE DEF T, Made, ds, rs
<1>4. ASSUME NEW t \in T
      PROVE  TestShape(t) /\ TestAdvances(t)
  <2>1. PICK i \in DOMAIN rs, j \in DOMAIN ds : t = Made(i, j)
    BY <1>1
  <2> DEFINE d == ds[j]
  <2>2. t.step = d + 2000 /\ t.look = 0 /\ t.flows = Probed("rate", d) /\ d \in Nat
    BY <2>1, <1>2, <1>3
  <2> HIDE DEF d
  <2>3. \A f \in t.flows : f = Flow(0, d, f.name)
    BY <2>2, ProbedFlows
  <2>4. QED
    BY <2>2, <2>3, SameFlows
<1>5. ASSUME Unrepeated(rs), Unrepeated(ds), NEW t \in T, NEW u \in T,
             t.key = u.key
      PROVE  t = u
  <2>1. PICK i \in DOMAIN rs, j \in DOMAIN ds : t = Made(i, j)
    BY <1>1
  <2>2. PICK k \in DOMAIN rs, l \in DOMAIN ds : u = Made(k, l)
    BY <1>1
  <2>3. rs[i] = rs[k] /\ ds[j] = ds[l]
    BY <1>2, <1>5, <2>1, <2>2
  <2>4. i = k /\ j = l
    BY <1>5, <2>3 DEF Unrepeated
  <2>5. QED
    BY <2>1, <2>2, <2>4
<1>6. QED
  BY <1>1, <1>4, <1>5 DEF CheckedShape, LoopShape, KeysDiffer, T, ds, rs

LEMMA UncheckedShape ==
  ASSUME NEW ds \in Seq(Nat)
  PROVE  /\ CheckedShape(Unchecked(ds)) /\ Unchecked(ds).rule = "never"
         /\ Unrepeated(ds) => KeysDiffer(Unchecked(ds).tests)
<1> DEFINE T == Unchecked(ds).tests
           Made(i) == Test(i, ds[i], {Flow(0, ds[i], "rate")},
                           ds[i] + (IF ds[i] < 1000 THEN 500 ELSE 1500))
<1>1. T = {Made(i) : i \in DOMAIN ds}
  BY DEF Unchecked, Checked
<1>2. \A i \in DOMAIN ds : ds[i] \in Nat
  BY ListsOfNumbers
<1>3. \A i \in DOMAIN ds :
        /\ Made(i).key = ds[i] /\ Made(i).look = 0
        /\ Made(i).step \in Nat /\ ds[i] <= Made(i).step
        /\ \A f \in Made(i).flows : f = Flow(0, ds[i], f.name)
  BY <1>2 DEF Test, Flow
<1>4. /\ Unchecked(ds).rule = "never" /\ Unchecked(ds).from = 1000
      /\ Unchecked(ds).strict /\ Unchecked(ds).capture = WholeInterval
  BY DEF Unchecked, Checked, Second
<1> HIDE DEF T, Made
<1>5. ASSUME NEW t \in T
      PROVE  TestShape(t) /\ TestAdvances(t)
  <2>1. PICK i \in DOMAIN ds : t = Made(i)
    BY <1>1
  <2>2. QED
    BY <2>1, <1>2, <1>3, SameFlows
<1>6. ASSUME Unrepeated(ds), NEW t \in T, NEW u \in T, t.key = u.key
      PROVE  t = u
  <2>1. PICK i \in DOMAIN ds, k \in DOMAIN ds : t = Made(i) /\ u = Made(k)
    BY <1>1
  <2>2. i = k
    BY <1>3, <1>6, <2>1 DEF Unrepeated
  <2>3. QED
    BY <2>1, <2>2
<1>7. QED
  BY <1>4, <1>5, <1>6 DEF CheckedShape, LoopShape, KeysDiffer, T

\* The procedures that look ahead.
LEMMA MouseElephantFlowsShape ==
  FollowingShape(MouseElephantFlows) /\ KeysDiffer(MouseElephantFlows.tests)
<1> DEFINE T == MouseElephantFlows.tests
           F == {Flow(0, 4000, "eleph"), Flow(0, 4000, "mouse")}
           Made(m) == [Test(m, m, F, 7000) EXCEPT !.look = 4000]
<1>1. /\ T = {Made(m) : m \in DOMAIN Params.mice}
      /\ MouseElephantFlows.rule = "after" /\ MouseElephantFlows.from = 1000
      /\ ~MouseElephantFlows.strict /\ MouseElephantFlows.capture = Followed
  BY DEF MouseElephantFlows, Following, Second
<1>2. \A m : /\ Made(m).key = m /\ Made(m).step = 7000 /\ Made(m).look = 4000
             /\ \A f \in Made(m).flows : f = Flow(0, 4000, f.name)
  BY DEF Test, Flow
<1> HIDE DEF T, Made
<1>3. ASSUME NEW t \in T
      PROVE  /\ TestShape(t) /\ TestAdvances(t) /\ t = Made(t.key) /\ t.look = 4000
             /\ \A f \in t.flows : f.off = 0 /\ f.len = 4000
  <2>1. PICK m \in DOMAIN Params.mice : t = Made(m)
    BY <1>1
  <2>2. QED
    BY <2>1, <1>2, SameFlows
<1>4. ASSUME NEW t \in T, NEW u \in T, t.key = u.key PROVE t = u
  BY <1>3, <1>4
<1>5. LookSuffices(T)
  BY <1>3 DEF LookSuffices
<1>6. QED
  BY <1>1, <1>3, <1>4, <1>5 DEF FollowingShape, LoopShape, KeysDiffer, T

LEMMA PacketsDurationShape ==
  /\ FollowingShape(PacketsDuration)
  /\ Unrepeated(Params.packetDurations) /\ Unrepeated(Params.packets)
       => KeysDiffer(PacketsDuration.tests)
  /\ \A t \in PacketsDuration.tests : t.look \in Values(Params.packetDurations)
<1> DEFINE ds == Params.packetDurations
           ps == Params.packets
           T == PacketsDuration.tests
           Made(i, j) == [Test(<<i, j>>, <<ds[i], ps[j]>>,
                               {Flow(0, ds[i], "packets")}, ds[i] + 2000)
                            EXCEPT !.look = ds[i]]
<1>1. /\ T = {Made(i, j) : i \in DOMAIN ds, j \in DOMAIN ps}
      /\ PacketsDuration.rule = "after" /\ PacketsDuration.from = 1000
      /\ ~PacketsDuration.strict /\ PacketsDuration.capture = WholeInterval
  BY DEF PacketsDuration, Following, Second
<1>2. \A i, j : /\ Made(i, j).key = <<ds[i], ps[j]>> /\ Made(i, j).look = ds[i]
                /\ Made(i, j).step = ds[i] + 2000
                /\ \A f \in Made(i, j).flows : f = Flow(0, ds[i], f.name)
  BY DEF Test, Flow
<1>3. \A i \in DOMAIN ds : ds[i] \in Nat /\ ds[i] \in Values(ds)
  BY ParamsAssumption, ListsOfNumbers DEF Values
<1> HIDE DEF T, Made, ds, ps
<1>4. ASSUME NEW t \in T
      PROVE  /\ TestShape(t) /\ TestAdvances(t)
             /\ t.look \in Values(ds) /\ t.look \in Nat
             /\ \A f \in t.flows : f.off = 0 /\ f.len = t.look
  <2>1. PICK i \in DOMAIN ds, j \in DOMAIN ps : t = Made(i, j)
    BY <1>1
  <2> DEFINE d == ds[i]
  <2>2. /\ t.step = d + 2000 /\ t.look = d /\ d \in Nat /\ d \in Values(ds)
        /\ \A f \in t.flows : f = Flow(0, d, f.name)
    BY <2>1, <1>2, <1>3
  <2> HIDE DEF d
  <2>3. QED
    BY <2>2, SameFlows
<1>5. ASSUME Unrepeated(ds), Unrepeated(ps), NEW t \in T, NEW u \in T,
             t.key = u.key
      PROVE  t = u
  <2>1. PICK i \in DOMAIN ds, j \in DOMAIN ps : t = Made(i, j)
    BY <1>1
  <2>2. PICK k \in DOMAIN ds, l \in DOMAIN ps : u = Made(k, l)
    BY <1>1
  <2>3. ds[i] = ds[k] /\ ps[j] = ps[l]
    BY <1>2, <1>5, <2>1, <2>2
  <2>4. i = k /\ j = l
    BY <1>5, <2>3 DEF Unrepeated
  <2>5. QED
    BY <2>1, <2>2, <2>4
<1>6. ASSUME ModestParams PROVE LookSuffices(T)
  <2>1. ASSUME NEW t \in T, NEW u \in T, NEW f \in u.flows
        PROVE  f.off + f.len <= t.look + 1000 /\ f.off + f.len <= 14000
    <3>1. f.off + f.len = u.look
      BY <1>4
    <3>2. u.look <= t.look + 1000 /\ u.look <= 14000
      BY <1>4, <1>6 DEF ModestParams, ds
    <3>3. QED
      BY <3>1, <3>2
  <2>2. QED
    BY <2>1 DEF LookSuffices
<1>7. QED
  BY <1>1, <1>4, <1>5, <1>6 DEF FollowingShape, LoopShape, KeysDiffer, T, ds, ps

LEMMA MultiFlowShape == FollowingShape(MultiFlow) /\ KeysDiffer(MultiFlow.tests)
<1> DEFINE T == MultiFlow.tests
           Made(o) == [Test(o, o, {Flow(0, 800, "a"), Flow(o, 800 + (800 - o), "b")},
                            o + 800 + 2000)
                         EXCEPT !.look = 2 * 800 + 2000]
<1>1. /\ T = {Made(o) : o \in Params.offsets}
      /\ MultiFlow.rule = "after" /\ MultiFlow.from = 1000
      /\ ~MultiFlow.strict /\ MultiFlow.capture = Followed
  BY DEF MultiFlow, Following, Second
<1>2. \A o : /\ Made(o).key = o /\ Made(o).step = o + 800 + 2000
             /\ Made(o).look = 2 * 800 + 2000
             /\ Made(o).flows = {Flow(0, 800, "a"), Flow(o, 800 + (800 - o), "b")}
  BY DEF Test
<1> HIDE DEF T, Made
<1>3. ASSUME NEW t \in T
      PROVE  /\ TestShape(t) /\ TestAdvances(t) /\ t = Made(t.key) /\ t.look = 3600
             /\ \A f \in t.flows : f.off + f.len \in {800, 1600}
  <2>0. Params.offsets \subseteq Nat
    BY ParamsAssumption
  <2>1. PICK o \in Nat : t = Made(o)
    BY <1>1, <2>0
  <2>2. /\ t.step = o + 2800 /\ t.look = 3600 /\ t.key = o
        /\ t.flows = {Flow(0, 800, "a"), Flow(o, 800 + (800 - o), "b")}
    BY <2>1, <1>2
  <2>3. \A f \in t.flows : \/ f.off = 0 /\ f.len = 800 /\ f.name = "a"
                           \/ f.off = o /\ f.len = 1600 - o /\ f.name = "b"
    BY <2>2 DEF Flow
  <2>4. \A f, g \in t.flows : f.name = g.name => f = g
    BY <2>2 DEF Flow
  <2>5. \A f \in t.flows : /\ f.off \in Nat /\ f.len \in Int
                           /\ f.off + f.len \in {800, 1600}
    BY <2>3
  <2>6. QED
    BY <2>1, <2>2, <2>4, <2>5 DEF TestShape, TestAdvances
<1>4. ASSUME NEW t \in T, NEW u \in T, t.key = u.key PROVE t = u
  BY <1>3, <1>4
<1>5. LookSuffices(T)
  BY <1>3 DEF LookSuffices
<1>6. QED
  BY <1>1, <1>3, <1>4, <1>5 DEF FollowingShape, LoopShape, KeysDiffer, T

LEMMA SwitchFlowShape == FollowingShape(SwitchFlow) /\ KeysDiffer(SwitchFlow.tests)
<1> DEFINE T == SwitchFlow.tests
           F == {Flow(0, 800, "a"), Flow(800, 800, "b")}
           Made(r) == [Test(r, r, F, 2 * 800 + 2000) EXCEPT !.look = 2 * 800 + 2000]
<1>1. /\ T = {Made(r) : r \in Params.switchRates}
      /\ SwitchFlow.rule = "after" /\ SwitchFlow.from = 1000
      /\ ~SwitchFlow.strict /\ SwitchFlow.capture = Followed
  BY DEF SwitchFlow, Following, Second
<1>2. \A r : /\ Made(r).key = r /\ Made(r).step = 3600
             /\ Made(r).look = 3600 /\ Made(r).flows = F
  BY DEF Test
<1>3. /\ \A f \in F : f.off \in {0, 800} /\ f.len = 800
      /\ \A f, g \in F : f.name = g.name => f = g
  BY DEF Flow
<1> HIDE DEF T, F, Made
<1>4. ASSUME NEW t \in T
      PROVE  t = Made(t.key) /\ t.look = 3600 /\ t.step = 3600 /\ t.flows = F
  BY <1>1, <1>2
<1>5. \A t \in T : TestShape(t) /\ TestAdvances(t)
  BY <1>3, <1>4 DEF TestShape, TestAdvances
<1>6. ASSUME NEW t \in T, NEW u \in T, t.key = u.key PROVE t = u
  BY <1>4, <1>6
<1>7. LookSuffices(T)
  BY <1>3, <1>4 DEF LookSuffices
<1>8. QED
  BY <1>1, <1>5, <1>6, <1>7 DEF FollowingShape, LoopShape, KeysDiffer, T

\* The procedures that draw cool-downs.
LEMMA CoolDownShapes ==
  /\ DrawingShape(CoolDownSameFlow) /\ CoolDownSameFlow.rule = "same"
  /\ DrawingShape(CoolDownDifferentFlow) /\ CoolDownDifferentFlow.rule = "different"
  /\ CoolDownSameFlow.tests = {} => NoDraws
  /\ CoolDownDifferentFlow.tests # {}
<1>0. CoolDownSameFlow.tests =
        IF NoDraws THEN {}
        ELSE {(n \div Params.step) * Params.step : n \in 0..(Params.max - 1)}
  BY DEF CoolDownSameFlow, Drawing
<1>1. ASSUME ~NoDraws, NEW n \in 0..(Params.max - 1)
      PROVE  /\ (n \div Params.step) * Params.step \in Nat
             /\ (n \div Params.step) * Params.step <= n
  <2> DEFINE q == n \div Params.step
             s == Params.step
  <2>1. n \in Nat /\ s \in Nat /\ s > 0
    BY <1>1, ParamsAssumption DEF NoDraws
  <2>2. q \in Nat /\ s * q <= n
    BY <2>1
  <2> HIDE DEF q, s
  <2>3. q * s \in Nat /\ q * s <= n
    BY <2>1, <2>2
  <2>4. QED
    BY <2>3 DEF q, s
<1>2. \A c \in CoolDownSameFlow.tests :
        c \in Nat /\ \E n \in 0..(Params.max - 1) : c <= n
  BY <1>0, <1>1
<1>3. ModestParams => CoolDownSameFlow.tests \subseteq 0..1400
  <2>1. SUFFICES ASSUME ModestParams, NEW c \in CoolDownSameFlow.tests
                 PROVE  c \in 0..1400
    OBVIOUS
  <2>2. PICK n \in 0..(Params.max - 1) : c <= n /\ c \in Nat
    BY <1>2
  <2>3. QED
    BY <2>1, <2>2, ParamsAssumption DEF ModestParams
<1>4. CoolDownDifferentFlow.tests \subseteq Nat
  BY ParamsAssumption DEF CoolDownDifferentFlow, Drawing
<1>5. /\ CoolDownSameFlow.from = 1000 /\ ~CoolDownSameFlow.strict
      /\ CoolDownSameFlow.rule = "same" /\ CoolDownSameFlow.capture = Followed
  BY DEF CoolDownSameFlow, Drawing, Second
<1>6. /\ CoolDownDifferentFlow.from = 1000 /\ ~CoolDownDifferentFlow.strict
      /\ CoolDownDifferentFlow.rule = "different"
      /\ CoolDownDifferentFlow.capture = Followed
  BY DEF CoolDownDifferentFlow, Drawing, Second
<1>7. CoolDownDifferentFlow.tests # {}
  BY ParamsAssumption DEF CoolDownDifferentFlow, Drawing
<1>8. ASSUME ~NoDraws PROVE CoolDownSameFlow.tests # {}
  <2>1. 0 \in 0..(Params.max - 1)
    BY <1>8, ParamsAssumption DEF NoDraws
  <2>2. QED
    BY <1>0, <1>8, <2>1
<1>9. QED
  BY <1>2, <1>3, <1>4, <1>5, <1>6, <1>7, <1>8 DEF DrawingShape

\* The procedures without a loop, from the flows of their tests.
FlowsShape(F) ==
  /\ \A f \in F : f.off \in Nat /\ f.len \in Int
  /\ \A f, g \in F : f.name = g.name => f = g

FlowsWithin(F, c) == \A f \in F : c.off <= f.off /\ f.off + f.len <= c.off + c.len

CaptureShape(c) ==
  c.kind \in {"around", "none"} /\ c.off \in Int /\ c.len \in Int

\* The same, for the procedures that do not refer to the RI before their own;
\* they always have a test.
AheadShape(p) ==
  /\ p.from \in Nat /\ p.from >= 1000 /\ p.from + p.capture.off >= 0
  /\ p.tests # {}

LEMMA OnceShapeIf ==
  ASSUME NEW from \in Int, NEW T, NEW c, CaptureShape(c),
         \A t \in T : /\ t = Test(t.key, t.key, t.flows, 0) /\ FlowsShape(t.flows)
                      /\ c.kind = "around" => FlowsWithin(t.flows, c)
  PROVE  OnceShape(Once(from, T, c))
<1>1. /\ Once(from, T, c).from = from /\ Once(from, T, c).tests = T
      /\ Once(from, T, c).capture = c /\ ~Once(from, T, c).strict
      /\ Once(from, T, c).rule = "once"
  BY DEF Once
<1>2. \A t \in T : t.step = 0 /\ t.look = 0
  BY DEF Test
<1>3. \A t \in T : TestShape(t)
  BY <1>2 DEF TestShape, FlowsShape
<1>4. QED
  BY <1>1, <1>3 DEF OnceShape, CaptureShape, FlowsWithin

LEMMA OneTest ==
  ASSUME NEW F
  PROVE  \A t \in {Test(0, 0, F, 0)} : t = Test(t.key, t.key, t.flows, 0) /\ t.flows = F
  BY DEF Test

LEMMA ProbedShape ==
  ASSUME NEW load, NEW d \in Nat
  PROVE  /\ FlowsShape(Probed(load, d))
         /\ \A f \in Probed(load, d) : f.off = 0 /\ f.len = d
<1>1. \A f \in Probed(load, d) : f.off = 0 /\ f.len = d
  BY DEF Probed, Flow
<1>2. QED
  BY <1>1, ProbedFlows DEF FlowsShape

LEMMA QUICShape == OnceShape(QUIC) /\ AheadShape(QUIC)
                   /\ \A t \in QUIC.tests : \A f \in t.flows : f.off + f.len <= 14000
<1> DEFINE F == {Flow(0, 5000, "10M"), Flow(7000, 5000, "unlim")}
           c == Around(-1000, 14000)
<1>1. /\ \A f \in F : f.off \in {0, 7000} /\ f.len = 5000
      /\ \A f, g \in F : f.name = g.name => f = g
      /\ c.kind = "around" /\ c.off = -1000 /\ c.len = 14000
  BY DEF Flow, Around
<1>2. QUIC = Once(1000, {Test(0, 0, F, 0)}, c)
  BY DEF QUIC, Second
<1>3. QUIC.from = 1000 /\ QUIC.capture = c /\ QUIC.tests = {Test(0, 0, F, 0)}
  BY <1>2 DEF Once
<1> HIDE DEF F, c
<1>4. FlowsShape(F) /\ FlowsWithin(F, c) /\ CaptureShape(c)
  BY <1>1 DEF FlowsShape, FlowsWithin, CaptureShape
<1>5. OnceShape(QUIC)
  BY <1>2, <1>4, OneTest, OnceShapeIf
<1>6. AheadShape(QUIC)
  BY <1>1, <1>3 DEF AheadShape
<1>7. QED
  BY <1>1, <1>3, <1>5, <1>6, OneTest

LEMMA MeasShape ==
  ASSUME NEW directions
  PROVE  /\ OnceShape(MeasOWD(directions)) /\ AheadShape(MeasOWD(directions))
         /\ OnceShape(MeasRate(directions)) /\ AheadShape(MeasRate(directions))
<1> DEFINE d == Params.duration
           F == {Flow(0, d, <<n, x>>) : n \in {"owd-udp", "owd-icmp"},
                                        x \in directions}
           G == {Flow(0, d, <<n, x>>) : n \in {"rate", "owd-icmp", "owd-udp"},
                                        x \in directions}
           c == Around(-5000, 5000 + d + 2000)
<1>1. d \in Nat
  BY ParamsAssumption
<1>2. \A f \in F \cup G : f.off = 0 /\ f.len = d /\ f = Flow(0, d, f.name)
  BY DEF Flow
<1>3. /\ c.kind = "around" /\ c.off = -5000 /\ c.len = 7000 + d
      /\ NoCapture.kind = "none" /\ NoCapture.off = 0 /\ NoCapture.len = 0
  BY <1>1 DEF Around, NoCapture
<1>4. /\ MeasOWD(directions) = Once(5000, {Test(0, 0, F, 0)}, c)
      /\ MeasRate(directions) = Once(5000, {Test(0, 0, G, 0)}, NoCapture)
  BY DEF MeasOWD, MeasRate
<1>5. /\ MeasOWD(directions).from = 5000 /\ MeasOWD(directions).capture = c
      /\ MeasRate(directions).from = 5000
      /\ MeasRate(directions).capture = NoCapture
      /\ MeasOWD(directions).tests = {Test(0, 0, F, 0)}
      /\ MeasRate(directions).tests = {Test(0, 0, G, 0)}
  BY DEF MeasOWD, MeasRate, Once
<1> HIDE DEF d, F, G, c
<1>6. FlowsShape(F) /\ FlowsShape(G) /\ FlowsWithin(F, c)
  BY <1>1, <1>2, <1>3 DEF FlowsShape, FlowsWithin
<1>7. CaptureShape(c) /\ CaptureShape(NoCapture)
  BY <1>1, <1>3 DEF CaptureShape
<1>8. OnceShape(MeasOWD(directions)) /\ OnceShape(MeasRate(directions))
  BY <1>3, <1>4, <1>6, <1>7, OneTest, OnceShapeIf
<1>9. QED
  BY <1>3, <1>5, <1>8 DEF AheadShape

LEMMA TraceRiShape == OnceShape(TraceRi) /\ AheadShape(TraceRi)
<1> DEFINE A == {Flow(0, 3000, <<"owd", d>>) : d \in {"ul", "dl"}}
           B == {Flow(4000, 10000, <<"rate", d>>) : d \in {"ul", "dl"}}
           F == A \cup B
           c == Around(-500, 16000)
<1>1. /\ \A f \in A : f.off = 0 /\ f.len = 3000 /\ f = Flow(0, 3000, f.name)
                      /\ f.name[1] = "owd"
      /\ \A f \in B : f.off = 4000 /\ f.len = 10000
                      /\ f = Flow(4000, 10000, f.name) /\ f.name[1] = "rate"
  BY DEF Flow
<1>2. c.kind = "around" /\ c.off = -500 /\ c.len = 16000
  BY DEF Around
<1>3. TraceRi = Once(7000, {Test(0, 0, F, 0)}, c)
  BY DEF TraceRi
<1>4. TraceRi.from = 7000 /\ TraceRi.capture = c /\ TraceRi.tests # {}
  BY DEF TraceRi, Once
<1> HIDE DEF A, B, c
<1>5. \A f, g \in F : f.name = g.name => f = g
  BY <1>1
<1>6. \A f \in F : \/ f.off = 0 /\ f.len = 3000
                   \/ f.off = 4000 /\ f.len = 10000
  BY <1>1
<1> HIDE DEF F
<1>7. FlowsShape(F) /\ FlowsWithin(F, c) /\ CaptureShape(c)
  BY <1>2, <1>5, <1>6 DEF FlowsShape, FlowsWithin, CaptureShape
<1>8. OnceShape(TraceRi)
  BY <1>3, <1>7, OneTest, OnceShapeIf
<1>9. QED
  BY <1>2, <1>4, <1>8 DEF AheadShape

LEMMA RateRIShape == OnceShape(RateRI) /\ (RateRI.tests = {} => Params.rates = <<>>)
<1> DEFINE F == Probed("rateri", 3000)
           T == {Test(r, r, F, 0) : r \in Values(Params.rates)}
           c == Around(-1000, 5000)
<1>1. c.kind = "around" /\ c.off = -1000 /\ c.len = 5000
  BY DEF Around
<1>2. RateRI = Once(-1500, T, c)
  BY DEF RateRI
<1>3. FlowsShape(F) /\ \A f \in F : f.off = 0 /\ f.len = 3000
  BY ProbedShape
<1> HIDE DEF F
<1>4. \A t \in T : t.flows = F /\ t = Test(t.key, t.key, t.flows, 0)
  BY DEF Test
<1>5. ASSUME Params.rates # <<>> PROVE RateRI.tests # {}
  <2>1. 1 \in DOMAIN Params.rates
    BY <1>5, ParamsAssumption
  <2>2. RateRI.tests = T
    BY <1>2 DEF Once
  <2>3. QED
    BY <2>1, <2>2 DEF Values
<1> HIDE DEF T, c
<1>6. FlowsWithin(F, c) /\ CaptureShape(c)
  BY <1>1, <1>3 DEF FlowsWithin, CaptureShape
<1>7. QED
  BY <1>2, <1>3, <1>4, <1>5, <1>6, OnceShapeIf

LEMMA DurationTCPRIShape ==
  /\ OnceShape(DurationTCPRI) /\ DurationTCPRI.from = -6000
  /\ DurationTCPRI.capture.off = -1000 /\ DurationTCPRI.tests # {}
<1> DEFINE L(x) == IF x = "udp" THEN "udp" ELSE "tcp"
           T == {Test(x, x, Probed(L(x), 12000), 0) :
                   x \in Values(Params.ccas) \cup {"udp"}}
           c == Around(-1000, 14000)
<1>1. c.kind = "around" /\ c.off = -1000 /\ c.len = 14000
  BY DEF Around
<1>2. DurationTCPRI = Once(-6000, T, c)
  BY DEF DurationTCPRI
<1>3. /\ DurationTCPRI.from = -6000 /\ DurationTCPRI.capture = c
      /\ DurationTCPRI.tests # {}
  BY DEF DurationTCPRI, Once
<1> HIDE DEF L
<1>4. \A t \in T : /\ t.flows = Probed(L(t.key), 12000)
                   /\ t = Test(t.key, t.key, t.flows, 0)
  BY DEF Test
<1> HIDE DEF T, c
<1>6. \A t \in T : FlowsShape(t.flows) /\ \A f \in t.flows : f.off = 0 /\ f.len = 12000
  BY <1>4, ProbedShape
<1>7. CaptureShape(c) /\ \A t \in T : FlowsWithin(t.flows, c)
  BY <1>1, <1>6 DEF FlowsWithin, CaptureShape
<1>8. OnceShape(DurationTCPRI)
  BY <1>2, <1>4, <1>6, <1>7, OnceShapeIf
<1>9. QED
  BY <1>1, <1>3, <1>8

(***************************************************************************)
(* The registered procedures, by the rule of their loop.                   *)
(***************************************************************************)
LEMMA Registered ==
  /\ DOMAIN Procedure =
       {"burst", "multiburst", "durationtcp", "progdurquic", "multidurrate",
        "mouseeleph", "packetdur", "multiflow", "switchflow", "prograte",
        "rampupprobe", "cdsf", "cddf", "simplequic", "owd", "owdbidir", "rate",
        "ratebidir", "rateri", "tcpri", "trace"}
  /\ Procedure["burst"] = MultiBurst({"a"})
  /\ Procedure["multiburst"] = MultiBurst({"a", "b"})
  /\ Procedure["durationtcp"] = DurationTCP
  /\ Procedure["progdurquic"] = ProgressiveDurationQUIC
  /\ Procedure["multidurrate"] = MultiDurationRate
  /\ Procedure["mouseeleph"] = MouseElephantFlows
  /\ Procedure["packetdur"] = PacketsDuration
  /\ Procedure["multiflow"] = MultiFlow
  /\ Procedure["switchflow"] = SwitchFlow
  /\ Procedure["prograte"] = Unchecked(Params.progDurations)
  /\ Procedure["rampupprobe"] = Unchecked(Params.rampDurations)
  /\ Procedure["cdsf"] = CoolDownSameFlow
  /\ Procedure["cddf"] = CoolDownDifferentFlow
  /\ Procedure["simplequic"] = QUIC
  /\ Procedure["owd"] = MeasOWD({"ul"})
  /\ Procedure["owdbidir"] = MeasOWD({"dl", "ul"})
  /\ Procedure["rate"] = MeasRate({"ul"})
  /\ Procedure["ratebidir"] = MeasRate({"dl", "ul"})
  /\ Procedure["rateri"] = RateRI
  /\ Procedure["tcpri"] = DurationTCPRI
  /\ Procedure["trace"] = TraceRi
  BY DEF Procedure, ProgressiveRate, RampUpProbe

Looping(p) == CheckedShape(Procedure[p]) \/ FollowingShape(Procedure[p])

Single(p) ==
  /\ OnceShape(Procedure[p])
  /\ p \in IntervalProcedures =>
       /\ Procedure[p].from = 1000
       /\ \A t \in Procedure[p].tests : \A f \in t.flows : f.off + f.len <= 14000
  /\ \/ AheadShape(Procedure[p]) /\ p # "tcpri"
     \/ p = "rateri"
     \/ p = "tcpri" /\ Procedure[p].from = -6000 /\ Procedure[p].capture.off = -1000

Drawn(p) ==
  DrawingShape(Procedure[p]) /\ (p = "cdsf" <=> Procedure[p].rule = "same")

LEMMA ProcedureShapes ==
  ASSUME NEW p \in DOMAIN Procedure
  PROVE  \/ Looping(p) /\ p \notin {"tcpri", "rateri", "cdsf", "cddf"}
         \/ Drawn(p) /\ p \in {"cdsf", "cddf"}
         \/ Single(p) /\ p \notin {"cdsf", "cddf"}
<1>1. Params.progDurations \in Seq(Nat) /\ Params.rampDurations \in Seq(Nat)
  BY ParamsAssumption
<1>2. CASE p \in {"burst", "multiburst", "durationtcp", "progdurquic",
                  "multidurrate", "prograte", "rampupprobe"}
  <2>1. CheckedShape(Procedure[p])
    BY <1>1, <1>2, Registered, MultiBurstShape, DurationTCPShape,
       ProgressiveDurationQUICShape, MultiDurationRateShape, UncheckedShape
  <2>2. QED
    BY <1>2, <2>1 DEF Looping
<1>3. CASE p \in {"mouseeleph", "packetdur", "multiflow", "switchflow"}
  <2>1. FollowingShape(Procedure[p])
    BY <1>3, Registered, MouseElephantFlowsShape, PacketsDurationShape,
       MultiFlowShape, SwitchFlowShape
  <2>2. QED
    BY <1>3, <2>1 DEF Looping
<1>4. CASE p \in {"cdsf", "cddf"}
  BY <1>4, Registered, CoolDownShapes DEF Drawn
<1>5. CASE p \in {"owd", "owdbidir", "rate", "ratebidir", "trace"}
  <2>1. OnceShape(Procedure[p]) /\ AheadShape(Procedure[p])
    BY <1>5, Registered, MeasShape, TraceRiShape
  <2>2. p \notin IntervalProcedures
    BY <1>5 DEF IntervalProcedures
  <2>3. QED
    BY <1>5, <2>1, <2>2 DEF Single
<1>6. CASE p = "simplequic"
  <2>1. Procedure[p] = QUIC /\ QUIC.from = 1000
    BY <1>6, Registered DEF QUIC, Once, Second
  <2>2. QED
    BY <1>6, <2>1, QUICShape DEF Single
<1>7. CASE p \in {"rateri", "tcpri"}
  <2>1. p \notin IntervalProcedures
    BY <1>7 DEF IntervalProcedures
  <2>2. QED
    BY <1>7, <2>1, Registered, RateRIShape, DurationTCPRIShape DEF Single
<1>8. QED
  BY <1>2, <1>3, <1>4, <1>5, <1>6, <1>7, Registered

\* Lists that repeat nothing give the tests of a loop names of their own.
LEMMA KeysApart ==
  ASSUME NEW p \in DOMAIN Procedure, Looping(p), NamesDiffer(p)
  PROVE  KeysDiffer(Procedure[p].tests)
<1>1. p \notin {"cdsf", "cddf", "simplequic", "owd", "owdbidir", "rate",
                "ratebidir", "rateri", "tcpri", "trace"}
  BY Registered, CoolDownShapes, QUICShape, MeasShape, RateRIShape,
     DurationTCPRIShape, TraceRiShape
     DEF Looping, CheckedShape, FollowingShape, OnceShape
<1>2. Params.progDurations \in Seq(Nat) /\ Params.rampDurations \in Seq(Nat)
  BY ParamsAssumption
<1>3. CASE p \in {"burst", "multiburst", "mouseeleph", "multiflow", "switchflow"}
  BY <1>3, Registered, MultiBurstShape, MouseElephantFlowsShape, MultiFlowShape,
     SwitchFlowShape
<1>4. CASE p = "durationtcp"
  BY <1>4, Registered, DurationTCPShape DEF NamesDiffer, NamedBy
<1>5. CASE p = "progdurquic"
  BY <1>5, Registered, ProgressiveDurationQUICShape DEF NamesDiffer, NamedBy
<1>6. CASE p = "multidurrate"
  BY <1>6, Registered, MultiDurationRateShape DEF NamesDiffer, NamedBy
<1>7. CASE p = "packetdur"
  BY <1>7, Registered, PacketsDurationShape DEF NamesDiffer, NamedBy
<1>8. CASE p = "prograte"
  <2>1. Unrepeated(Params.progDurations)
    BY <1>8 DEF NamesDiffer, NamedBy
  <2>2. QED
    BY <1>2, <1>8, <2>1, Registered, UncheckedShape
<1>9. CASE p = "rampupprobe"
  <2>1. Unrepeated(Params.rampDurations)
    BY <1>9 DEF NamesDiffer, NamedBy
  <2>2. QED
    BY <1>2, <1>9, <2>1, Registered, UncheckedShape
<1>10. QED
  BY <1>1, <1>3, <1>4, <1>5, <1>6, <1>7, <1>8, <1>9, Registered

\* When there is nothing to draw from.
LEMMA DrawsFromNothing ==
  ASSUME NEW p \in DOMAIN Procedure, Procedure[p].tests = {},
         Procedure[p].rule \in {"once", "same", "different"}
  PROVE  MayPanic(p)
<1>1. CASE Looping(p)
  BY <1>1 DEF Looping, CheckedShape, FollowingShape
<1>2. CASE p \in {"cdsf", "cddf"}
  BY <1>2, Registered, CoolDownShapes DEF MayPanic
<1>3. CASE p = "rateri"
  BY <1>3, Registered, RateRIShape DEF MayPanic
<1>4. CASE p = "tcpri"
  BY <1>4, Registered, DurationTCPRIShape
<1>5. QED
  BY <1>1, <1>2, <1>3, <1>4, ProcedureShapes DEF Single, AheadShape

\* When a procedure begins, seen from the clock.
LEMMA FirstStartAhead ==
  ASSUME NEW p \in DOMAIN Procedure, NEW ri \in Nat, now \in Nat, now + 500 < ri
  PROVE  /\ FirstStart(p, ri) \in Int
         /\ p # "rateri" => FirstStart(p, ri) > now
         /\ Procedure[p].rule # "once" => FirstStart(p, ri) = ri + 1000
         /\ Procedure[p].rule = "once" /\ p \in IntervalProcedures =>
              FirstStart(p, ri) = ri + 1000
         /\ Procedure[p].rule = "once" /\ p # "rateri" =>
              FirstStart(p, ri) + Procedure[p].capture.off > now
<1> DEFINE q == Procedure[p]
<1>1. CASE p = "tcpri"
  <2>1. q.from = -6000 /\ q.capture.off = -1000 /\ q.rule = "once"
    BY <1>1, Registered, DurationTCPRIShape DEF OnceShape
  <2>2. p \notin IntervalProcedures
    BY <1>1 DEF IntervalProcedures
  <2>3. FirstStart(p, ri) = IF ri - 6000 - now < 2000 THEN ri + 9000 ELSE ri - 6000
    BY <1>1, <2>1 DEF FirstStart, Second, Interval
  <2>4. QED
    BY <1>1, <2>1, <2>2, <2>3
<1>2. CASE p # "tcpri"
  <2>1. FirstStart(p, ri) = ri + q.from
    BY <1>2 DEF FirstStart
  <2>2. CASE Looping(p) \/ Drawn(p)
    <3>1. q.from = 1000 /\ q.rule # "once"
      BY <2>2 DEF Looping, Drawn, CheckedShape, FollowingShape, LoopShape,
         DrawingShape
    <3>2. QED
      BY <2>1, <3>1
  <2>3. CASE Single(p)
    <3>1. /\ q.from \in Int /\ q.rule = "once"
          /\ p \in IntervalProcedures => q.from = 1000
          /\ q.capture.off \in Int
      BY <2>3 DEF Single, OnceShape
    <3>2. p # "rateri" => q.from >= 1000 /\ q.from + q.capture.off >= 0
      BY <1>2, <2>3 DEF Single, AheadShape
    <3>3. QED
      BY <2>1, <3>1, <3>2
  <2>4. QED
    BY <2>2, <2>3, ProcedureShapes
<1>3. QED
  BY <1>1, <1>2

(***************************************************************************)
(* The inductive invariant of the planning loop.                           *)
(***************************************************************************)
Rule == Procedure[proc].rule

\* What a test leaves behind in the names of its results.
KeyOf(t) == IF Rule \in {"same", "different"} THEN t ELSE t.key

\* The loop has begun, and knows the clock only through the RI.
ClockInv ==
  /\ proc \in DOMAIN Procedure /\ now \in Nat /\ round \in Nat
  /\ pc \in {"idle", "loop", "capture", "planned", "panic"}
  /\ pc = "idle" => sched = {} /\ round = 0 /\ window.kind = "none"
  /\ pc # "idle" => /\ ts = NextRI(now) /\ start \in Int
                    /\ todo \subseteq Procedure[proc].tests
                    /\ FirstStart(proc, ts) <= start

\* The measurements so far start in order, and, if the lists repeat nothing,
\* under names of their own that no test which is still to come will use.
SchedInv ==
  /\ \A f \in sched : f.at \in Int /\ f.len \in Int /\ f.round \in 0..(round - 1)
  /\ NamesDiffer(proc) =>
       /\ \A f, g \in sched : f.out = g.out => f = g
       /\ \A f \in sched : \A t \in todo : f.out[2] # KeyOf(t)
  /\ \A f \in sched : FirstStart(proc, ts) <= f.at

\* They are over when the next test starts; the only exception is cdsf, which
\* starts a test where it was to end.
EndInv ==
  /\ Rule \notin {"once", "same"} => \A f \in sched : End(f) <= start
  /\ Rule = "same" /\ ModestParams => \A f \in sched : End(f) <= start + 1000
  /\ Rule = "once" /\ sched # {} => todo = {}
  /\ Rule = "once" => \A f \in sched :
       \E t \in Procedure[proc].tests : \E g \in t.flows :
         f.at = start + g.off /\ f.len = g.len
  /\ Rule # "same" \/ ModestParams =>
       \A f, g \in sched : f.round < g.round => End(f) <= g.at

\* How far start can get, in milliseconds after the RI.
ReachInv ==
  pc # "idle" =>
    /\ Rule = "before" => start <= ts + 14000
    /\ Rule = "same" => start <= ts + 16000
    /\ Rule = "once" => start = FirstStart(proc, ts)
    /\ Rule = "after" /\ ModestParams =>
         /\ \A f \in sched : End(f) <= ts + 15000
         /\ \A t \in todo : \A f \in t.flows : start + f.off + f.len <= ts + 15000

\* The plan is complete.
PlannedInv ==
  /\ pc = "planned" /\ Procedure[proc].strict => start <= ts + 14000
  /\ pc = "panic" => MayPanic(proc)
  /\ window.kind = "set" =>
       LET c == Procedure[proc].capture
       IN  /\ pc = "planned"
           /\ \/ /\ c.kind = "interval" /\ window.at = ts /\ window.len = c.len
              \/ /\ c.kind = "followed" /\ window.at = ts
                 /\ window.len = start - ts + c.len
              \/ /\ c.kind = "around" /\ window.at = start + c.off
                 /\ window.len = c.len

PlanInv == ClockInv /\ SchedInv /\ EndInv /\ ReachInv /\ PlannedInv

LEMMA PlanInit == Init => PlanInv
<1> SUFFICES ASSUME Init PROVE PlanInv
  OBVIOUS
<1>1. now \in Nat
  BY NowsAssumption DEF Init
<1>2. QED
  BY <1>1 DEF Init, PlanInv, ClockInv, SchedInv, EndInv, ReachInv, PlannedInv

\* The rule decides the shape of the procedure.
LEMMA RuleShape ==
  ASSUME proc \in DOMAIN Procedure
  PROVE  /\ Rule \in {"before", "never"} => CheckedShape(Procedure[proc])
         /\ Rule = "after" => FollowingShape(Procedure[proc])
         /\ Rule \in {"same", "different"} => DrawingShape(Procedure[proc])
         /\ Rule = "once" => OnceShape(Procedure[proc])
         /\ Rule \in {"before", "never", "after", "same", "different", "once"}
  BY ProcedureShapes DEF Rule, Looping, Drawn, Single, CheckedShape,
     FollowingShape, DrawingShape, OnceShape

\* The clock's part of the invariant, in numbers.
LEMMA Ahead ==
  ASSUME ClockInv, pc # "idle"
  PROVE  /\ ts \in Nat /\ now + 500 < ts /\ NextRI(ts) = ts + 15000
         /\ Deadline(ts) = ts + 14000
         /\ FirstStart(proc, ts) \in Int /\ start \in Int
<1>1. ts \in Nat /\ now + 500 < ts /\ NextRI(ts) = ts + 15000
  BY NextRIAhead DEF ClockInv
<1>2. FirstStart(proc, ts) \in Int
  BY <1>1, FirstStartAhead DEF ClockInv
<1>3. Deadline(ts) = ts + 14000
  BY <1>1 DEF Deadline, Second
<1>4. QED
  BY <1>1, <1>2, <1>3 DEF ClockInv

LEMMA ScheduleStep ==
  ASSUME PlanInv, ScheduleInvocation
  PROVE  PlanInv'
<1>1. /\ pc = "idle" /\ pc' = "loop" /\ ts' = NextRI(now)
      /\ proc' = proc /\ now' = now /\ round' = round /\ sched' = sched
      /\ window' = window /\ todo' = Procedure[proc].tests
      /\ start' = FirstStart(proc, ts')
  BY DEF ScheduleInvocation
<1>2. /\ proc \in DOMAIN Procedure /\ now \in Nat /\ round \in Nat
      /\ sched = {} /\ window.kind = "none"
  BY <1>1 DEF PlanInv, ClockInv
<1>3. ts' \in Nat /\ now + 500 < ts'
  BY <1>1, <1>2, NextRIAhead
<1> DEFINE ri == ts'
           at == FirstStart(proc, ri)
<1>4. /\ at \in Int
      /\ Procedure[proc].rule # "once" => at = ri + 1000
  BY <1>2, <1>3, FirstStartAhead
<1>5. FirstStart(proc, ts)' = at
  BY <1>1 DEF FirstStart
<1>6. ClockInv'
  BY <1>1, <1>2, <1>4, <1>5 DEF ClockInv
<1>7. SchedInv' /\ EndInv' /\ PlannedInv'
  BY <1>1, <1>2 DEF SchedInv, EndInv, PlannedInv
<1>8. ReachInv'
  <2>1. Rule' = Rule
    BY <1>1 DEF Rule
  <2>2. ASSUME Rule = "after", ModestParams, NEW t \in todo', NEW f \in t.flows
        PROVE  start' + f.off + f.len <= ts' + 15000
    <3>1. FollowingShape(Procedure[proc])
      BY <1>2, <2>2, RuleShape
    <3>2. /\ LookSuffices(Procedure[proc].tests) /\ TestShape(t)
          /\ t \in Procedure[proc].tests
      BY <1>1, <2>2, <3>1 DEF FollowingShape, LoopShape
    <3>3. f.off \in Nat /\ f.len \in Int /\ f.off + f.len <= 14000
      BY <2>2, <3>2 DEF LookSuffices, TestShape
    <3>4. start' = ts' + 1000
      BY <1>1, <1>4, <2>2 DEF Rule
    <3>5. QED
      BY <1>3, <3>3, <3>4
  <2>3. Rule \in {"before", "same"} => start' = ts' + 1000
    BY <1>1, <1>4 DEF Rule
  <2>4. Rule = "once" => start' = FirstStart(proc, ts)'
    BY <1>1, <1>5
  <2>5. QED
    BY <1>1, <1>2, <1>3, <2>1, <2>2, <2>3, <2>4 DEF ReachInv
<1>9. QED
  BY <1>6, <1>7, <1>8 DEF PlanInv

\* The measurements of one more test.
NewFlow(f, at, F, key) ==
  \E g \in F : /\ f.at = at + g.off /\ f.len = g.len
               /\ f.out = <<g.name, key>> /\ f.round = round

LEMMA RunClientsStep ==
  ASSUME ClockInv, SchedInv, NEW at \in Int, NEW F, FlowsShape(F), NEW key,
         NamesDiffer(proc) => \A f \in sched : f.out[2] # key,
         RunClients(at, F, key)
  PROVE  /\ round' = round + 1 /\ round' \in Nat
         /\ \A f \in sched' : f \in sched \/ NewFlow(f, at, F, key)
         /\ \A f \in sched' : /\ f.at \in Int /\ f.len \in Int
                              /\ f.round \in 0..(round' - 1)
         /\ NamesDiffer(proc) => \A f, g \in sched' : f.out = g.out => f = g
         /\ \A f \in sched' : f \in sched \/ (at <= f.at /\ f.out[2] = key)
         /\ (\A f \in sched : End(f) <= at)
               /\ (\A f, g \in sched : f.round < g.round => End(f) <= g.at)
            => \A f, g \in sched' : f.round < g.round => End(f) <= g.at
<1> DEFINE M(g) == [at |-> at + g.off, len |-> g.len, out |-> <<g.name, key>>,
                    round |-> round]
<1>1. sched' = sched \cup {M(g) : g \in F} /\ round' = round + 1 /\ round \in Nat
  BY DEF RunClients, ClockInv
<1>2. \A g \in F : /\ M(g).at = at + g.off /\ M(g).len = g.len
                   /\ M(g).out = <<g.name, key>> /\ M(g).round = round
  OBVIOUS
<1>3. \A f, g \in F : M(f).out = M(g).out => M(f) = M(g)
  BY DEF FlowsShape
<1> HIDE DEF M
<1>4. \A f \in sched' : f \in sched \/ \E g \in F : f = M(g)
  BY <1>1
<1>5. \A f \in sched' : f \in sched \/ NewFlow(f, at, F, key)
  BY <1>2, <1>4 DEF NewFlow
<1>6. ASSUME NEW f, NewFlow(f, at, F, key)
      PROVE  /\ f.at \in Int /\ f.len \in Int /\ f.round = round /\ at <= f.at
             /\ f.out[2] = key
  BY <1>6 DEF NewFlow, FlowsShape
<1>7. ASSUME NEW f \in sched
      PROVE  /\ f.at \in Int /\ f.len \in Int /\ f.round \in Nat /\ f.round < round
  BY <1>1, <1>7 DEF SchedInv
<1>8. \A f \in sched' : /\ f.at \in Int /\ f.len \in Int
                        /\ f.round \in 0..(round' - 1)
  BY <1>1, <1>5, <1>6, <1>7
<1>9. ASSUME NamesDiffer(proc), NEW f \in sched', NEW g \in sched', f.out = g.out
      PROVE  f = g
  <2>1. CASE f \in sched /\ g \in sched
    BY <1>9, <2>1 DEF SchedInv
  <2>2. CASE f \in sched <=> g \notin sched
    BY <1>5, <1>6, <1>9, <2>2
  <2>3. CASE f \notin sched /\ g \notin sched
    BY <1>3, <1>4, <1>9, <2>3
  <2>4. QED
    BY <2>1, <2>2, <2>3
<1>10. ASSUME \A f \in sched : End(f) <= at,
              \A f, g \in sched : f.round < g.round => End(f) <= g.at,
              NEW f \in sched', NEW g \in sched', f.round < g.round
       PROVE  End(f) <= g.at
  <2>1. f \in sched
    <3>1. f.round # round
      BY <1>1, <1>8, <1>10
    <3>2. QED
      BY <1>5, <1>6, <3>1
  <2>2. CASE g \in sched
    BY <1>10, <2>1, <2>2
  <2>3. CASE g \notin sched
    <3>1. End(f) <= at /\ at <= g.at /\ g.at \in Int /\ End(f) \in Int
      BY <1>5, <1>6, <1>7, <1>10, <2>1, <2>3 DEF End
    <3>2. QED
      BY <3>1
  <2>4. QED
    BY <2>2, <2>3
<1>11. \A f \in sched' : f \in sched \/ (at <= f.at /\ f.out[2] = key)
  BY <1>5, <1>6
<1>12. (\A f \in sched : End(f) <= at)
          /\ (\A f, g \in sched : f.round < g.round => End(f) <= g.at)
       => \A f, g \in sched' : f.round < g.round => End(f) <= g.at
  BY <1>10
<1>13. round' = round + 1 /\ round' \in Nat
  BY <1>1
<1>14. QED
  BY <1>5, <1>8, <1>9, <1>11, <1>12, <1>13

\* What the invariant says of a loop's test, and what stays the same.
LEMMA Framed ==
  ASSUME proc' = proc, now' = now, ts' = ts
  PROVE  /\ FirstStart(proc, ts)' = FirstStart(proc, ts) /\ Rule' = Rule
         /\ \A t : KeyOf(t)' = KeyOf(t)
         /\ NamesDiffer(proc)' = NamesDiffer(proc) /\ MayPanic(proc)' = MayPanic(proc)
  BY DEF FirstStart, Rule, KeyOf

\* One pass of a loop over tests: the parts of the invariant that do not
\* depend on the check.
LEMMA LoopPass ==
  ASSUME PlanInv, pc = "loop", Rule \in {"before", "after", "never"},
         NEW t \in todo, RunClients(start, t.flows, t.key),
         start' = start + t.step, todo' \subseteq todo \ {t},
         proc' = proc, now' = now, ts' = ts, pc' = pc, window' = window
  PROVE  /\ ClockInv' /\ SchedInv' /\ EndInv' /\ PlannedInv'
         /\ \A f \in sched' : f \in sched \/ NewFlow(f, start, t.flows, t.key)
         /\ t.step \in Nat /\ t.look \in Nat /\ t \in Procedure[proc].tests
         /\ FlowsShape(t.flows)
<1>1. /\ ClockInv /\ SchedInv /\ EndInv /\ PlannedInv
      /\ proc \in DOMAIN Procedure /\ todo \subseteq Procedure[proc].tests
  BY DEF PlanInv, ClockInv
<1>2. LoopShape(Procedure[proc])
  BY <1>1, RuleShape DEF CheckedShape, FollowingShape
<1>3. TestShape(t) /\ TestAdvances(t) /\ t \in Procedure[proc].tests
  BY <1>1, <1>2 DEF LoopShape
<1>4. FlowsShape(t.flows) /\ t.step \in Nat /\ t.look \in Nat
  BY <1>3 DEF TestShape, FlowsShape
<1>5. \A u \in todo : KeyOf(u) = u.key
  BY DEF KeyOf
<1>6. NamesDiffer(proc) => \A f \in sched : f.out[2] # t.key
  BY <1>1, <1>5 DEF SchedInv
<1>7. start \in Int /\ FirstStart(proc, ts) \in Int /\ FirstStart(proc, ts) <= start
  BY <1>1, Ahead DEF ClockInv
<1>8. /\ round' \in Nat
      /\ \A f \in sched' : f \in sched \/ NewFlow(f, start, t.flows, t.key)
      /\ \A f \in sched' : /\ f.at \in Int /\ f.len \in Int
                           /\ f.round \in 0..(round' - 1)
      /\ NamesDiffer(proc) => \A f, g \in sched' : f.out = g.out => f = g
      /\ \A f \in sched' : f \in sched \/ (start <= f.at /\ f.out[2] = t.key)
      /\ (\A f \in sched : End(f) <= start)
            /\ (\A f, g \in sched : f.round < g.round => End(f) <= g.at)
         => \A f, g \in sched' : f.round < g.round => End(f) <= g.at
  BY <1>1, <1>4, <1>6, <1>7, RunClientsStep
<1>9. ClockInv'
  <2>1. FirstStart(proc, ts) <= start + t.step /\ start + t.step \in Int
    BY <1>4, <1>7
  <2>2. FirstStart(proc, ts)' <= start' /\ start' \in Int
    BY <2>1, Framed
  <2>3. QED
    BY <1>1, <1>8, <2>2 DEF ClockInv
<1>10. SchedInv'
  <2>1. ASSUME NamesDiffer(proc), NEW f \in sched', NEW u \in todo'
        PROVE  f.out[2] # KeyOf(u)'
    <3>1. KeyOf(u)' = u.key /\ u \in todo /\ u # t
      BY <1>5, Framed
    <3>2. u.key # t.key
      <4>1. KeysDiffer(Procedure[proc].tests)
        BY <1>1, <2>1, RuleShape, KeysApart DEF Looping
      <4>2. QED
        BY <1>1, <3>1, <4>1 DEF KeysDiffer
    <3>3. CASE f \in sched
      BY <1>1, <1>5, <2>1, <3>1, <3>3 DEF SchedInv
    <3>4. QED
      BY <1>8, <3>1, <3>2, <3>3
  <2>2. ASSUME NEW f \in sched' PROVE FirstStart(proc, ts)' <= f.at
    <3>1. f \in sched => FirstStart(proc, ts) <= f.at
      BY <1>1 DEF SchedInv
    <3>2. f.at \in Int
      BY <1>8
    <3>3. FirstStart(proc, ts) <= f.at
      BY <1>7, <1>8, <3>1, <3>2
    <3>4. QED
      BY <3>3, Framed
  <2>3. QED
    BY <1>8, <2>1, <2>2, Framed DEF SchedInv
<1>11. EndInv'
  <2>1. \A f \in sched : End(f) <= start
    BY <1>1 DEF EndInv
  <2>2. ASSUME NEW f \in sched' PROVE End(f) <= start'
    <3>1. CASE f \in sched
      <4>1. End(f) \in Int /\ End(f) <= start
        BY <2>1, <3>1, <1>8 DEF End
      <4>2. QED
        BY <1>4, <1>7, <4>1
    <3>2. CASE f \notin sched
      <4>1. PICK g \in t.flows : f.at = start + g.off /\ f.len = g.len
        BY <1>8, <3>2 DEF NewFlow
      <4>2. g.off + g.len <= t.step /\ g.off \in Nat /\ g.len \in Int
        BY <1>3, <4>1 DEF TestAdvances, TestShape
      <4>3. QED
        BY <1>4, <1>7, <4>1, <4>2 DEF End
    <3>3. QED
      BY <3>1, <3>2
  <2>3. \A f, g \in sched' : f.round < g.round => End(f) <= g.at
    BY <1>1, <1>8, <2>1 DEF EndInv
  <2>4. Rule' \notin {"once", "same"}
    BY Framed
  <2>5. QED
    BY <2>2, <2>3, <2>4 DEF EndInv, End
<1>12. PlannedInv'
  BY <1>1 DEF PlannedInv
<1>13. QED
  BY <1>3, <1>4, <1>8, <1>9, <1>10, <1>11, <1>12

LEMMA FitInStep ==
  ASSUME PlanInv, NEW t \in todo, FitIn(t)
  PROVE  PlanInv'
<1>1. /\ pc = "loop" /\ Rule = "before" /\ start + t.step <= Deadline(ts)
      /\ RunClients(start, t.flows, t.key) /\ start' = start + t.step
      /\ todo' \subseteq todo \ {t} /\ proc' = proc /\ now' = now /\ ts' = ts
      /\ pc' = pc /\ window' = window
  BY DEF FitIn, InLoop, Rule
<1>2. ClockInv' /\ SchedInv' /\ EndInv' /\ PlannedInv'
  BY <1>1, LoopPass
<1>3. Deadline(ts) = ts + 14000
  BY <1>1, Ahead DEF PlanInv
<1>4. ReachInv'
  BY <1>1, <1>3, Framed DEF ReachInv
<1>5. QED
  BY <1>2, <1>4 DEF PlanInv

LEMMA UnguardedStep ==
  ASSUME PlanInv, NEW t \in todo, Unguarded(t)
  PROVE  PlanInv'
<1>1. /\ pc = "loop" /\ Rule = "never"
      /\ RunClients(start, t.flows, t.key) /\ start' = start + t.step
      /\ todo' \subseteq todo \ {t} /\ proc' = proc /\ now' = now /\ ts' = ts
      /\ pc' = pc /\ window' = window
  BY DEF Unguarded, InLoop, Rule
<1>2. ClockInv' /\ SchedInv' /\ EndInv' /\ PlannedInv'
  BY <1>1, LoopPass
<1>3. ReachInv'
  BY <1>1, Framed DEF ReachInv
<1>4. QED
  BY <1>2, <1>3 DEF PlanInv

LEMMA LookAheadStep ==
  ASSUME PlanInv, NEW t \in todo, LookAhead(t)
  PROVE  PlanInv'
<1>1. /\ pc = "loop" /\ Rule = "after"
      /\ RunClients(start, t.flows, t.key) /\ start' = start + t.step
      /\ todo' = IF start' + t.look > Deadline(ts) THEN {} ELSE todo \ {t}
      /\ proc' = proc /\ now' = now /\ ts' = ts /\ pc' = pc /\ window' = window
  BY DEF LookAhead, InLoop, Rule
<1>2. todo' \subseteq todo \ {t}
  BY <1>1
<1>3. /\ ClockInv' /\ SchedInv' /\ EndInv' /\ PlannedInv'
      /\ \A f \in sched' : f \in sched \/ NewFlow(f, start, t.flows, t.key)
      /\ t.step \in Nat /\ t.look \in Nat /\ t \in Procedure[proc].tests
      /\ FlowsShape(t.flows)
  BY <1>1, <1>2, LoopPass
<1>4. /\ Deadline(ts) = ts + 14000 /\ ts \in Nat /\ start \in Int
      /\ proc \in DOMAIN Procedure /\ todo \subseteq Procedure[proc].tests
  BY <1>1, Ahead DEF PlanInv, ClockInv
<1>5. ASSUME ModestParams, NEW f \in sched' PROVE End(f) <= ts + 15000
  <2>1. CASE f \in sched
    BY <1>1, <1>5, <2>1 DEF PlanInv, ReachInv
  <2>2. CASE f \notin sched
    <3>1. PICK g \in t.flows : f.at = start + g.off /\ f.len = g.len
      BY <1>3, <1>5, <2>2 DEF NewFlow
    <3>2. start + g.off + g.len <= ts + 15000
      BY <1>1, <1>5, <3>1 DEF PlanInv, ReachInv
    <3>3. QED
      BY <3>1, <3>2 DEF End
  <2>3. QED
    BY <2>1, <2>2
<1>6. ASSUME ModestParams, NEW u \in todo', NEW f \in u.flows
      PROVE  start' + f.off + f.len <= ts + 15000
  <2>1. start' + t.look <= ts + 14000 /\ u \in todo
    BY <1>1, <1>3, <1>4, <1>6
  <2>2. FollowingShape(Procedure[proc])
    BY <1>1, <1>4, RuleShape
  <2>3. LookSuffices(Procedure[proc].tests) /\ TestShape(u)
    BY <1>4, <1>6, <2>1, <2>2 DEF FollowingShape, LoopShape
  <2>4. f.off + f.len <= t.look + 1000
    BY <1>3, <1>4, <1>6, <2>1, <2>3 DEF LookSuffices
  <2>5. f.off \in Nat /\ f.len \in Int
    BY <1>6, <2>3 DEF TestShape
  <2>6. QED
    BY <1>1, <1>3, <1>4, <2>1, <2>4, <2>5
<1>7. ReachInv'
  BY <1>1, <1>5, <1>6, Framed DEF ReachInv, End
<1>8. QED
  BY <1>3, <1>7 DEF PlanInv

LEMMA PickOneStep ==
  ASSUME PlanInv, NEW t \in todo, PickOne(t)
  PROVE  PlanInv'
<1>1. /\ pc = "loop" /\ Rule = "once" /\ todo' = {} /\ start' = start
      /\ RunClients(start, t.flows, t.key)
      /\ proc' = proc /\ now' = now /\ ts' = ts /\ pc' = pc /\ window' = window
  BY DEF PickOne, InLoop, Rule
<1>2. /\ ClockInv /\ SchedInv /\ EndInv /\ ReachInv /\ PlannedInv
      /\ proc \in DOMAIN Procedure /\ t \in Procedure[proc].tests
      /\ start \in Int /\ start = FirstStart(proc, ts) /\ sched = {}
  BY <1>1 DEF PlanInv, ClockInv, EndInv, ReachInv
<1>3. FlowsShape(t.flows)
  BY <1>1, <1>2, RuleShape DEF OnceShape, TestShape, FlowsShape
<1>4. /\ round' \in Nat
      /\ \A f \in sched' : f \in sched \/ NewFlow(f, start, t.flows, t.key)
      /\ \A f \in sched' : /\ f.at \in Int /\ f.len \in Int
                           /\ f.round \in 0..(round' - 1)
      /\ NamesDiffer(proc) => \A f, g \in sched' : f.out = g.out => f = g
      /\ \A f \in sched' : f \in sched \/ (start <= f.at /\ f.out[2] = t.key)
      /\ (\A f \in sched : End(f) <= start)
            /\ (\A f, g \in sched : f.round < g.round => End(f) <= g.at)
         => \A f, g \in sched' : f.round < g.round => End(f) <= g.at
  BY <1>1, <1>2, <1>3, RunClientsStep
<1>5. ClockInv'
  BY <1>1, <1>2, <1>4, Framed DEF ClockInv
<1>6. SchedInv'
  <2>1. \A f \in sched' : FirstStart(proc, ts)' <= f.at
    BY <1>1, <1>2, <1>4, Framed
  <2>2. QED
    BY <1>1, <1>4, <2>1, Framed DEF SchedInv
<1>7. EndInv'
  <2>1. ASSUME NEW f \in sched'
        PROVE  \E u \in Procedure[proc].tests : \E g \in u.flows :
                 f.at = start + g.off /\ f.len = g.len
    BY <1>2, <1>4, <2>1 DEF NewFlow
  <2>2. \A f, g \in sched' : f.round < g.round => End(f) <= g.at
    BY <1>2, <1>4
  <2>3. QED
    BY <1>1, <2>1, <2>2, Framed DEF EndInv, End
<1>8. ReachInv'
  BY <1>1, <1>2, Framed DEF ReachInv
<1>9. PlannedInv'
  BY <1>1, <1>2 DEF PlannedInv
<1>10. QED
  BY <1>5, <1>6, <1>7, <1>8, <1>9 DEF PlanInv

\* A cool-down test, whose measurements start a little after the loop's start
\* and are over, if the cool-down is modest, when the next one can start.
LEMMA DrawPass ==
  ASSUME PlanInv, pc = "loop", Rule \in {"same", "different"}, NEW c \in todo,
         NEW at \in Int, start <= at, NEW F, FlowsShape(F), RunClients(at, F, c),
         start' \in Int, at <= start', todo' = todo \ {c},
         Rule = "different" => \A f \in F : at + f.off + f.len <= start',
         Rule = "same" /\ ModestParams =>
           /\ \A f \in F : at + f.off + f.len <= start' + 1000
           /\ start + 1000 <= at,
         proc' = proc, now' = now, ts' = ts, pc' = pc, window' = window
  PROVE  ClockInv' /\ SchedInv' /\ EndInv' /\ PlannedInv'
<1>1. /\ ClockInv /\ SchedInv /\ EndInv /\ PlannedInv
      /\ proc \in DOMAIN Procedure /\ todo \subseteq Procedure[proc].tests
  BY DEF PlanInv, ClockInv
<1>2. \A u : KeyOf(u) = u
  BY DEF KeyOf
<1>3. NamesDiffer(proc) => \A f \in sched : f.out[2] # c
  BY <1>1, <1>2 DEF SchedInv
<1>4. start \in Int /\ FirstStart(proc, ts) \in Int /\ FirstStart(proc, ts) <= start
  BY <1>1, Ahead DEF ClockInv
<1>5. /\ round' \in Nat
      /\ \A f \in sched' : f \in sched \/ NewFlow(f, at, F, c)
      /\ \A f \in sched' : /\ f.at \in Int /\ f.len \in Int
                           /\ f.round \in 0..(round' - 1)
      /\ NamesDiffer(proc) => \A f, g \in sched' : f.out = g.out => f = g
      /\ \A f \in sched' : f \in sched \/ (at <= f.at /\ f.out[2] = c)
      /\ (\A f \in sched : End(f) <= at)
            /\ (\A f, g \in sched : f.round < g.round => End(f) <= g.at)
         => \A f, g \in sched' : f.round < g.round => End(f) <= g.at
  BY <1>1, <1>3, RunClientsStep
<1>6. ClockInv'
  <2>1. FirstStart(proc, ts)' <= start'
    BY <1>4, Framed
  <2>2. QED
    BY <1>1, <1>5, <2>1 DEF ClockInv
<1>7. SchedInv'
  <2>1. ASSUME NamesDiffer(proc), NEW f \in sched', NEW u \in todo'
        PROVE  f.out[2] # KeyOf(u)'
    <3>1. KeyOf(u)' = u /\ u \in todo /\ u # c
      BY <1>2, Framed
    <3>2. CASE f \in sched
      BY <1>1, <1>2, <2>1, <3>1, <3>2 DEF SchedInv
    <3>3. QED
      BY <1>5, <3>1, <3>2
  <2>2. ASSUME NEW f \in sched' PROVE FirstStart(proc, ts)' <= f.at
    <3>1. f \in sched => FirstStart(proc, ts) <= f.at
      BY <1>1 DEF SchedInv
    <3>2. f.at \in Int
      BY <1>5
    <3>3. FirstStart(proc, ts) <= f.at
      BY <1>4, <1>5, <3>1, <3>2
    <3>4. QED
      BY <3>3, Framed
  <2>3. QED
    BY <1>5, <2>1, <2>2, Framed DEF SchedInv
<1>8. \A f \in sched' : End(f) \in Int
  BY <1>5 DEF End
<1>9. ASSUME NEW f \in sched', f \notin sched
      PROVE  \E g \in F : g.off \in Nat /\ g.len \in Int /\ End(f) = at + g.off + g.len
  <2>1. PICK g \in F : f.at = at + g.off /\ f.len = g.len
    BY <1>5, <1>9 DEF NewFlow
  <2>2. g.off \in Nat /\ g.len \in Int
    BY <2>1 DEF FlowsShape
  <2>3. QED
    BY <2>1, <2>2 DEF End
<1>10. CASE Rule = "different"
  <2>1. \A f \in sched : End(f) <= start
    BY <1>1, <1>10 DEF EndInv
  <2>2. \A f \in sched' : f \in sched => End(f) <= at
    BY <1>4, <1>8, <2>1
  <2>3. \A f \in sched : f \in sched'
    BY DEF RunClients
  <2>4. \A f \in sched : End(f) <= at
    BY <2>2, <2>3
  <2>5. \A f \in sched' : End(f) <= start'
    <3>1. \A f \in sched' : f \in sched => End(f) <= start'
      BY <1>8, <2>2
    <3>2. \A f \in sched' : f \notin sched => End(f) <= start'
      BY <1>9, <1>10
    <3>3. QED
      BY <3>1, <3>2
  <2>6. \A f, g \in sched' : f.round < g.round => End(f) <= g.at
    BY <1>1, <1>5, <1>10, <2>4 DEF EndInv
  <2>7. EndInv'
    BY <1>10, <2>5, <2>6, Framed DEF EndInv, End
  <2>8. QED
    BY <1>1, <1>6, <1>7, <2>7 DEF PlannedInv
<1>11. CASE Rule = "same"
  <2>1. ASSUME ModestParams
        PROVE  /\ \A f \in sched' : End(f) <= start' + 1000
               /\ \A f, g \in sched' : f.round < g.round => End(f) <= g.at
    <3>1. \A f \in sched : End(f) <= start + 1000
      BY <1>1, <1>11, <2>1 DEF EndInv
    <3>2. \A f \in sched' : f \in sched => End(f) <= at
      BY <1>4, <1>8, <1>11, <2>1, <3>1
    <3>3. \A f \in sched : f \in sched'
      BY DEF RunClients
    <3>4. \A f \in sched : End(f) <= at
      BY <3>2, <3>3
    <3>5. \A f \in sched' : f \in sched => End(f) <= start' + 1000
      BY <1>8, <3>2
    <3>6. \A f \in sched' : f \notin sched => End(f) <= start' + 1000
      BY <1>9, <1>11, <2>1
    <3>7. QED
      BY <1>1, <1>5, <1>11, <2>1, <3>4, <3>5, <3>6 DEF EndInv
  <2>2. EndInv'
    BY <1>11, <2>1, Framed DEF EndInv, End
  <2>3. QED
    BY <1>1, <1>6, <1>7, <2>2 DEF PlannedInv
<1>12. QED
  BY <1>10, <1>11

LEMMA LeaveDrawsStep ==
  ASSUME PlanInv, pc = "loop", LeaveDraws
  PROVE  PlanInv'
<1>1. /\ pc' = "capture" /\ proc' = proc /\ now' = now /\ ts' = ts
      /\ start' = start /\ todo' = todo /\ round' = round /\ sched' = sched
      /\ window' = window
  BY DEF LeaveDraws
<1>2. /\ FirstStart(proc, ts)' = FirstStart(proc, ts) /\ Rule' = Rule
      /\ \A t : KeyOf(t)' = KeyOf(t)
      /\ NamesDiffer(proc)' = NamesDiffer(proc)
  BY <1>1, Framed
<1>3. ClockInv'
  BY <1>1, <1>2 DEF PlanInv, ClockInv
<1>4. SchedInv'
  BY <1>1, <1>2 DEF PlanInv, SchedInv
<1>5. EndInv' /\ ReachInv'
  BY <1>1, <1>2 DEF PlanInv, EndInv, ReachInv, End
<1>6. PlannedInv'
  BY <1>1 DEF PlanInv, PlannedInv
<1>7. QED
  BY <1>3, <1>4, <1>5, <1>6 DEF PlanInv

LEMMA DrawDifferentStep ==
  ASSUME PlanInv, NEW c \in todo, DrawDifferent(c)
  PROVE  PlanInv'
<1> DEFINE F == {Flow(0, 800, "a"), Flow(800 + c, 800, "b")}
<1>1. pc = "loop" /\ Rule = "different"
  BY DEF DrawDifferent, InLoop, Rule
<1>2. CASE LeaveDraws
  BY <1>1, <1>2, LeaveDrawsStep
<1>3. CASE ~LeaveDraws
  <2>1. /\ RunClients(start, F, c) /\ start' = start + 800 + c + 800 + 2000
        /\ todo' = todo \ {c} /\ proc' = proc /\ now' = now /\ ts' = ts
        /\ pc' = pc /\ window' = window
    BY <1>3 DEF DrawDifferent
  <2>2. start \in Int /\ c \in Nat
    BY <1>1, RuleShape DEF PlanInv, ClockInv, DrawingShape
  <2>3. /\ \A f \in F : \/ f.off = 0 /\ f.len = 800
                        \/ f.off = 800 + c /\ f.len = 800
        /\ \A f, g \in F : f.name = g.name => f = g
    BY DEF Flow
  <2> HIDE DEF F
  <2>4. FlowsShape(F)
    BY <2>2, <2>3 DEF FlowsShape
  <2>5. start' \in Int /\ start <= start'
    BY <2>1, <2>2
  <2>6. \A f \in F : start + f.off + f.len <= start'
    BY <2>1, <2>2, <2>3
  <2>7. ClockInv' /\ SchedInv' /\ EndInv' /\ PlannedInv'
    BY <1>1, <2>1, <2>2, <2>4, <2>5, <2>6, DrawPass
  <2>8. ReachInv'
    BY <1>1, <2>1, Framed DEF ReachInv
  <2>9. QED
    BY <2>7, <2>8 DEF PlanInv
<1>4. QED
  BY <1>2, <1>3

LEMMA DrawSameStep ==
  ASSUME PlanInv, NEW c \in todo, DrawSame(c)
  PROVE  PlanInv'
<1> DEFINE at == start + 2 * 800 + c
           F == {Flow(0, 800 + c + 800, "cdrate")}
<1>1. pc = "loop" /\ Rule = "same"
  BY DEF DrawSame, InLoop, Rule
<1>2. CASE LeaveDraws
  BY <1>1, <1>2, LeaveDrawsStep
<1>3. CASE ~LeaveDraws
  <2>1. /\ at <= Deadline(ts) /\ RunClients(at, F, c) /\ start' = at + 2000
        /\ todo' = todo \ {c} /\ proc' = proc /\ now' = now /\ ts' = ts
        /\ pc' = pc /\ window' = window
    BY <1>3 DEF DrawSame
  <2>2. /\ start \in Int /\ c \in Nat /\ (ModestParams => c <= 1400)
        /\ Deadline(ts) = ts + 14000 /\ ts \in Nat
    <3>1. c \in Procedure[proc].tests /\ DrawingShape(Procedure[proc])
      BY <1>1, RuleShape DEF PlanInv, ClockInv
    <3>2. c \in Nat /\ (ModestParams => c \in 0..1400)
      BY <1>1, <3>1 DEF DrawingShape, Rule
    <3>3. c \in 0..1400 => c <= 1400
      OBVIOUS
    <3>4. QED
      BY <1>1, <3>2, <3>3, Ahead DEF PlanInv
  <2>3. /\ \A f \in F : f.off = 0 /\ f.len = 800 + c + 800
        /\ \A f, g \in F : f.name = g.name => f = g
    BY DEF Flow
  <2>4. at \in Int /\ start + 1000 <= at /\ start <= at
    BY <2>2
  <2> HIDE DEF F, at
  <2>5. FlowsShape(F)
    BY <2>2, <2>3 DEF FlowsShape
  <2>6. start' \in Int /\ at <= start'
    BY <2>1, <2>4
  <2>7. ModestParams => \A f \in F : at + f.off + f.len <= start' + 1000
    BY <2>1, <2>2, <2>3, <2>4
  <2>8. ClockInv' /\ SchedInv' /\ EndInv' /\ PlannedInv'
    BY <1>1, <2>1, <2>4, <2>5, <2>6, <2>7, DrawPass
  <2>9. start' <= ts' + 16000
    BY <2>1, <2>2, <2>4
  <2>10. ReachInv'
    BY <1>1, <2>1, <2>9, Framed DEF ReachInv
  <2>11. QED
    BY <2>8, <2>10 DEF PlanInv
<1>4. QED
  BY <1>2, <1>3

LEMMA LeaveOutStep ==
  ASSUME PlanInv, NEW t \in todo, LeaveOut(t)
  PROVE  PlanInv'
<1>1. /\ pc = "loop" /\ pc' = pc /\ proc' = proc /\ now' = now /\ ts' = ts
      /\ start' = start /\ todo' \subseteq todo /\ round' = round
      /\ sched' = sched /\ window' = window
  BY DEF LeaveOut, InLoop
<1>2. /\ FirstStart(proc, ts)' = FirstStart(proc, ts) /\ Rule' = Rule
      /\ \A u : KeyOf(u)' = KeyOf(u)
      /\ NamesDiffer(proc)' = NamesDiffer(proc)
  BY <1>1, Framed
<1>3. ClockInv'
  BY <1>1, <1>2 DEF PlanInv, ClockInv
<1>4. SchedInv'
  BY <1>1, <1>2 DEF PlanInv, SchedInv
<1>5. EndInv' /\ ReachInv'
  BY <1>1, <1>2 DEF PlanInv, EndInv, ReachInv, End
<1>6. PlannedInv'
  BY <1>1 DEF PlanInv, PlannedInv
<1>7. QED
  BY <1>3, <1>4, <1>5, <1>6 DEF PlanInv

LEMMA PanicStep ==
  ASSUME PlanInv, Panic
  PROVE  PlanInv'
<1>1. /\ pc \in {"loop", "capture"} /\ pc' = "panic" /\ proc' = proc /\ now' = now
      /\ ts' = ts /\ start' = start /\ todo' = todo /\ round' = round
      /\ sched' = sched /\ window' = window
      /\ \/ Procedure[proc].strict /\ start > Deadline(ts)
         \/ NothingToDraw
         \/ InLoop("after") /\ \E t \in todo : DividesByZero(t)
  BY DEF Panic, TooManyTests, LoopOver, NothingToDraw, InLoop
<1>2. /\ FirstStart(proc, ts)' = FirstStart(proc, ts) /\ Rule' = Rule
      /\ \A u : KeyOf(u)' = KeyOf(u)
      /\ NamesDiffer(proc)' = NamesDiffer(proc) /\ MayPanic(proc)' = MayPanic(proc)
  BY <1>1, Framed
<1>3. MayPanic(proc)
  <2>1. proc \in DOMAIN Procedure /\ todo \subseteq Procedure[proc].tests
    BY <1>1 DEF PlanInv, ClockInv
  <2>2. CASE Procedure[proc].strict /\ start > Deadline(ts)
    <3>1. Rule \in {"before", "never"}
      BY <2>1, <2>2, RuleShape DEF FollowingShape, DrawingShape, OnceShape
    <3>2. start \in Int /\ ts \in Nat /\ Deadline(ts) = ts + 14000
      BY <1>1, Ahead DEF PlanInv
    <3>3. Rule = "before" => start <= ts + 14000
      BY <1>1 DEF PlanInv, ReachInv
    <3>4. Rule = "never"
      BY <2>2, <3>1, <3>2, <3>3
    <3>5. QED
      BY <3>4 DEF MayPanic, Rule
  <2>3. CASE NothingToDraw
    BY <2>1, <2>3, DrawsFromNothing DEF NothingToDraw
  <2>4. CASE \E t \in todo : DividesByZero(t)
    <3>1. PICK t \in Procedure[proc].tests : DividesByZero(t)
      BY <2>1, <2>4
    <3>2. proc = "packetdur" /\ t.look = 0
      BY <3>1 DEF DividesByZero
    <3>3. 0 \in Values(Params.packetDurations)
      BY <3>1, <3>2, Registered, PacketsDurationShape
    <3>4. QED
      BY <3>2, <3>3 DEF MayPanic
  <2>5. QED
    BY <1>1, <2>2, <2>3, <2>4
<1>4. ClockInv'
  BY <1>1, <1>2 DEF PlanInv, ClockInv
<1>5. SchedInv'
  BY <1>1, <1>2 DEF PlanInv, SchedInv
<1>6. EndInv' /\ ReachInv'
  BY <1>1, <1>2 DEF PlanInv, EndInv, ReachInv, End
<1>7. PlannedInv'
  BY <1>1, <1>2, <1>3 DEF PlanInv, PlannedInv
<1>8. QED
  BY <1>4, <1>5, <1>6, <1>7 DEF PlanInv

LEMMA FinishStep ==
  ASSUME PlanInv, Finish
  PROVE  PlanInv'
<1> DEFINE c == Procedure[proc].capture
<1>1. /\ pc \in {"loop", "capture"} /\ proc' = proc /\ now' = now
      /\ ts' = ts /\ start' = start /\ todo' = todo /\ round' = round
      /\ sched' = sched /\ ~(Procedure[proc].strict /\ start > Deadline(ts))
      /\ pc' = IF proc = "cdsf" /\ start > NextRI(ts) + Second
               THEN "error" ELSE "planned"
  BY DEF Finish, LoopOver, TooManyTests
<1>2. /\ FirstStart(proc, ts)' = FirstStart(proc, ts) /\ Rule' = Rule
      /\ \A u : KeyOf(u)' = KeyOf(u)
      /\ NamesDiffer(proc)' = NamesDiffer(proc)
  BY <1>1, Framed
<1>3. /\ start \in Int /\ ts \in Nat /\ Deadline(ts) = ts + 14000
      /\ NextRI(ts) = ts + 15000 /\ proc \in DOMAIN Procedure
  BY <1>1, Ahead DEF PlanInv, ClockInv
<1>4. pc' = "planned"
  <2>1. proc = "cdsf" => Rule = "same"
    BY Registered, CoolDownShapes DEF Rule
  <2>2. proc = "cdsf" => start <= ts + 16000
    BY <1>1, <2>1 DEF PlanInv, ReachInv
  <2>3. NextRI(ts) + Second = ts + 16000
    BY <1>3 DEF Second
  <2>4. QED
    BY <1>1, <1>3, <2>2, <2>3
<1>5. window.kind # "set"
  BY <1>1 DEF PlanInv, PlannedInv
<1>6. ClockInv'
  BY <1>1, <1>2, <1>4 DEF PlanInv, ClockInv
<1>7. SchedInv'
  BY <1>1, <1>2 DEF PlanInv, SchedInv
<1>8. EndInv' /\ ReachInv'
  BY <1>1, <1>2, <1>4 DEF PlanInv, EndInv, ReachInv, End
<1>9. PlannedInv'
  <2>1. window'.kind = "set" =>
          \/ /\ c.kind = "interval" /\ window'.at = ts /\ window'.len = c.len
          \/ /\ c.kind = "followed" /\ window'.at = ts
             /\ window'.len = start - ts + c.len
          \/ /\ c.kind = "around" /\ window'.at = start + c.off
             /\ window'.len = c.len
    BY <1>5 DEF Finish, Tcpdump
  <2>2. Procedure[proc].strict => start <= ts + 14000
    BY <1>1, <1>3
  <2>3. QED
    BY <1>1, <1>4, <2>1, <2>2 DEF PlannedInv
<1>10. QED
  BY <1>6, <1>7, <1>8, <1>9 DEF PlanInv

LEMMA PlanStep == PlanInv /\ [Next]_vars => PlanInv'
<1> SUFFICES ASSUME PlanInv, [Next]_vars PROVE PlanInv'
  OBVIOUS
<1>1. CASE UNCHANGED vars
  <2>1. /\ proc' = proc /\ now' = now /\ ts' = ts /\ pc' = pc /\ start' = start
        /\ todo' = todo /\ round' = round /\ sched' = sched /\ window' = window
    BY <1>1 DEF vars
  <2>2. /\ FirstStart(proc, ts)' = FirstStart(proc, ts) /\ Rule' = Rule
        /\ \A u : KeyOf(u)' = KeyOf(u)
        /\ NamesDiffer(proc)' = NamesDiffer(proc) /\ MayPanic(proc)' = MayPanic(proc)
    BY <2>1, Framed
  <2>3. ClockInv' /\ SchedInv'
    BY <2>1, <2>2 DEF PlanInv, ClockInv, SchedInv
  <2>4. EndInv' /\ ReachInv' /\ PlannedInv'
    BY <2>1, <2>2 DEF PlanInv, EndInv, ReachInv, PlannedInv, End
  <2>5. QED
    BY <2>3, <2>4 DEF PlanInv
<1>2. QED
  BY <1>1, ScheduleStep, LeaveOutStep, FitInStep, LookAheadStep, UnguardedStep,
     PickOneStep, DrawSameStep, DrawDifferentStep, PanicStep, FinishStep DEF Next

LEMMA PlanAlways == Spec => []PlanInv
  BY PlanInit, PlanStep, PTL DEF Spec

(***************************************************************************)
(* The theorems.                                                           *)
(***************************************************************************)
\* Whatever the parameters and the clock, no procedure but rateri schedules a
\* measurement or a capture in the past: NextRI never returns a boundary that is
\* less than half a second away, and tcpri, which starts 6 s before one, moves on
\* by an interval when that is too close.
THEOREM NothingStartsInThePast == Spec => []StartsAhead
<1>1. PlanInv => StartsAhead
  <2> SUFFICES ASSUME PlanInv, proc # "rateri"
               PROVE  /\ \A f \in sched : f.at > now
                      /\ window.kind = "set" => window.at > now
    BY DEF StartsAhead
  <2>1. CASE pc = "idle"
    BY <2>1 DEF PlanInv, ClockInv
  <2>2. CASE pc # "idle"
    <3>1. /\ proc \in DOMAIN Procedure /\ now \in Nat /\ ts \in Nat /\ now + 500 < ts
          /\ start \in Int /\ FirstStart(proc, ts) \in Int
      BY <2>2, Ahead DEF PlanInv, ClockInv
    <3>2. /\ FirstStart(proc, ts) > now
          /\ Procedure[proc].rule = "once" =>
               FirstStart(proc, ts) + Procedure[proc].capture.off > now
      BY <3>1, FirstStartAhead
    <3>3. \A f \in sched : f.at > now
      BY <3>1, <3>2 DEF PlanInv, SchedInv
    <3>4. ASSUME window.kind = "set" PROVE window.at > now
      <4>1. CASE Rule = "once"
        <5>1. Procedure[proc].capture.kind \in {"around", "none"}
          BY <3>1, <4>1, RuleShape DEF OnceShape
        <5>2. window.at = start + Procedure[proc].capture.off
          BY <3>4, <5>1 DEF PlanInv, PlannedInv
        <5>3. start = FirstStart(proc, ts)
          BY <2>2, <4>1 DEF PlanInv, ReachInv
        <5>4. QED
          BY <3>2, <4>1, <5>2, <5>3 DEF Rule
      <4>2. CASE Rule # "once"
        <5>1. Procedure[proc].capture \in {WholeInterval, Followed}
          BY <3>1, <4>2, RuleShape DEF CheckedShape, FollowingShape, DrawingShape
        <5>2. Procedure[proc].capture.kind # "around"
          BY <5>1 DEF WholeInterval, Followed
        <5>3. window.at = ts
          BY <3>4, <5>2 DEF PlanInv, PlannedInv
        <5>4. QED
          BY <3>1, <5>3
      <4>3. QED
        BY <4>1, <4>2
    <3>5. QED
      BY <3>3, <3>4
  <2>3. QED
    BY <2>1, <2>2
<1>2. QED
  BY <1>1, PlanAlways, PTL

\* For modest overrides, the tests of one invocation do not overlap, and they do
\* not overwrite each other's results if the lists that name the result files
\* repeat no value.
THEOREM TestsAreApart == Spec => [](ModestParams => MeasurementsApart)
<1>1. PlanInv => (ModestParams => MeasurementsApart)
  BY DEF PlanInv, SchedInv, EndInv, MeasurementsApart
<1>2. QED
  BY <1>1, PlanAlways, PTL

\* For modest overrides, every procedure that captures packets captures all of
\* its measurements.
THEOREM CapturesAreWide == Spec => [](ModestParams => CapturesCover)
<1>1. ASSUME PlanInv, ModestParams, window.kind = "set", NEW f \in sched
      PROVE  window.at <= f.at /\ End(f) <= window.at + window.len
  <2> DEFINE c == Procedure[proc].capture
  <2>1. /\ pc = "planned" /\ proc \in DOMAIN Procedure /\ start \in Int
        /\ ts \in Nat /\ f.at \in Int /\ f.len \in Int
        /\ FirstStart(proc, ts) \in Int /\ FirstStart(proc, ts) <= f.at
        /\ now \in Nat /\ now + 500 < ts
    BY <1>1, Ahead DEF PlanInv, ClockInv, PlannedInv, SchedInv
  <2>2. CASE Rule = "once"
    <3>1. OnceShape(Procedure[proc])
      BY <2>1, <2>2, RuleShape
    <3>2. PICK t \in Procedure[proc].tests :
             \E g \in t.flows : f.at = start + g.off /\ f.len = g.len
      BY <1>1, <2>2 DEF PlanInv, EndInv
    <3>3. PICK g \in t.flows : f.at = start + g.off /\ f.len = g.len
      BY <3>2
    <3>4. c.kind = "around" /\ window.at = start + c.off /\ window.len = c.len
      BY <1>1, <3>1 DEF OnceShape, PlanInv, PlannedInv
    <3>5. /\ c.off <= g.off /\ g.off + g.len <= c.off + c.len
          /\ c.off \in Int /\ c.len \in Int /\ g.off \in Nat /\ g.len \in Int
      BY <3>1, <3>3, <3>4 DEF OnceShape, TestShape
    <3>6. QED
      BY <2>1, <3>3, <3>4, <3>5 DEF End
  <2>3. CASE Rule # "once"
    <3>1. ts + 1000 <= f.at
      BY <2>1, <2>3, FirstStartAhead DEF Rule
    <3>2. End(f) \in Int
      BY <2>1 DEF End
    <3>3. CASE Rule \in {"before", "never"}
      <4>1. c = WholeInterval /\ Procedure[proc].strict
        BY <2>1, <3>3, RuleShape DEF CheckedShape
      <4>2. c.kind = "interval" /\ c.len = 15000
        BY <4>1 DEF WholeInterval, Interval, Second
      <4>3. window.at = ts /\ window.len = 15000
        BY <1>1, <4>2 DEF PlanInv, PlannedInv
      <4>4. End(f) <= start /\ start <= ts + 14000
        BY <1>1, <2>1, <3>3, <4>1 DEF PlanInv, EndInv, PlannedInv
      <4>5. QED
        BY <2>1, <3>1, <3>2, <4>3, <4>4
    <3>4. CASE Rule = "after"
      <4>1. c \in {WholeInterval, Followed}
        BY <2>1, <3>4, RuleShape DEF FollowingShape
      <4>2. \/ c.kind = "interval" /\ c.len = 15000
            \/ c.kind = "followed" /\ c.len = 1000
        BY <4>1 DEF WholeInterval, Followed, Interval, Second
      <4>3. /\ window.at = ts
            /\ window.len = 15000 \/ window.len = start - ts + 1000
        BY <1>1, <4>2 DEF PlanInv, PlannedInv
      <4>4. End(f) <= start /\ End(f) <= ts + 15000
        BY <1>1, <2>1, <3>4 DEF PlanInv, EndInv, ReachInv
      <4>5. QED
        BY <2>1, <3>1, <3>2, <4>3, <4>4
    <3>5. CASE Rule \in {"same", "different"}
      <4>1. c = Followed
        BY <2>1, <3>5, RuleShape DEF DrawingShape
      <4>2. c.kind = "followed" /\ c.len = 1000
        BY <4>1 DEF Followed, Second
      <4>3. window.at = ts /\ window.len = start - ts + 1000
        BY <1>1, <4>2 DEF PlanInv, PlannedInv
      <4>4. End(f) <= start + 1000
        BY <1>1, <2>1, <3>2, <3>5 DEF PlanInv, EndInv
      <4>5. QED
        BY <2>1, <3>1, <3>2, <4>3, <4>4
    <3>6. QED
      BY <2>1, <2>3, <3>3, <3>4, <3>5, RuleShape
  <2>4. QED
    BY <2>2, <2>3
<1>2. PlanInv => (ModestParams => CapturesCover)
  BY <1>1 DEF CapturesCover
<1>3. QED
  BY <1>2, PlanAlways, PTL

\* For modest overrides, everything that an interval procedure plans is over
\* before the next RI.  For all parameters, only a loop without a check can panic
\* for too many tests, only packetdur for a zero duration and only cdsf and rateri
\* for having nothing to draw, and cdsf never returns its error.
THEOREM PlansFit ==
  Spec => []/\ ModestParams => PlanFits
            /\ pc = "panic" => MayPanic(proc)
            /\ pc # "error"
<1>1. PlanInv => (pc = "panic" => MayPanic(proc)) /\ pc # "error"
  BY DEF PlanInv, ClockInv, PlannedInv
<1>2. ASSUME PlanInv, ModestParams, pc = "planned",
             proc \in IntervalProcedures \ {"cdsf", "cddf"}, NEW f \in sched
      PROVE  End(f) <= NextRI(ts)
  <2>1. /\ proc \in DOMAIN Procedure /\ start \in Int /\ now \in Nat
        /\ ts \in Nat /\ f.at \in Int /\ f.len \in Int
        /\ now + 500 < ts /\ NextRI(ts) = ts + 15000
    BY <1>2, Ahead DEF PlanInv, ClockInv, SchedInv
  <2>2. End(f) \in Int
    BY <2>1 DEF End
  <2>3. Rule \notin {"same", "different"}
    BY <1>2, <2>1, ProcedureShapes DEF Rule, Looping, Single, CheckedShape,
       FollowingShape, OnceShape
  <2>4. CASE Rule \in {"before", "never"}
    <3>1. Procedure[proc].strict
      BY <2>1, <2>4, RuleShape DEF CheckedShape
    <3>2. End(f) <= start /\ start <= ts + 14000
      BY <1>2, <2>4, <3>1 DEF PlanInv, EndInv, PlannedInv
    <3>3. QED
      BY <2>1, <2>2, <3>2
  <2>5. CASE Rule = "after"
    BY <1>2, <2>1, <2>5 DEF PlanInv, ReachInv
  <2>6. CASE Rule = "once"
    <3>1. Single(proc)
      BY <2>1, <2>6, ProcedureShapes DEF Rule, Looping, Drawn, CheckedShape,
         FollowingShape, DrawingShape
    <3>2. PICK t \in Procedure[proc].tests :
             \E g \in t.flows : f.at = start + g.off /\ f.len = g.len
      BY <1>2, <2>6 DEF PlanInv, EndInv
    <3>3. PICK g \in t.flows : f.at = start + g.off /\ f.len = g.len
      BY <3>2
    <3>4. g.off + g.len <= 14000 /\ g.off \in Nat /\ g.len \in Int
      BY <1>2, <3>1, <3>3 DEF Single, OnceShape, TestShape
    <3>5. start = ts + 1000
      BY <1>2, <2>1, <2>6, FirstStartAhead DEF PlanInv, ReachInv, Rule
    <3>6. QED
      BY <2>1, <3>3, <3>4, <3>5 DEF End
  <2>7. QED
    BY <2>1, <2>3, <2>4, <2>5, <2>6, RuleShape
<1>3. PlanInv => (ModestParams => PlanFits)
  BY <1>1, <1>2 DEF PlanFits
<1>4. QED
  BY <1>1, <1>3, PlanAlways, PTL
=============================================================================
