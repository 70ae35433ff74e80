# A TLA+ verification of NetScalpel

NetScalpel measures networks: a client and a server agree over a TCP control
channel (net/rpc) on a test, one side sends packets at exact times, the other
records them, and the client gathers both halves into a CSV.  `scalpel-exp`
schedules whole procedures of such tests and leaves a manifest, `info.json`,
beside their results.  What makes this program hard to get right is not the
packet formats but who waits for whom: each RPC has a goroutine of its own,
each test has a context that several parties may end, sockets are woken by
deadlines that other goroutines move, and Ctrl-C may fall between any two
steps.  That is what this project models.

## The system

| part | state | operations | interacts through |
|---|---|---|---|
| RPC server (`pkg/server.go`) | listener, `conns`, wait group | accept loop, ServeConn, Stop | `connsLock`, socket closes |
| test registry (`pkg/server.go`) | `resultC`, `testCancel` | RequestServer, RunCommand, deliverResult, finishTest, RequestServerResult, RequestRunCommandResult, Abort | `resultLock`, one-slot channels, contexts |
| test handlers (`pkg/server.go`) | sockets of one test | handleSender, handleRequestServer* | registry, senders and receivers |
| first contact (`client.go`, `server.go`) | read deadlines | punchHole, waitForUDPProbe, waitForICMPProbe | UDP and ICMP probes that may be lost |
| measurement clients (`pkg/client.go`) | ID, the two record lists | Run, Gather, Abort | RPC, contexts |
| UDP senders (`pkg/udp.go`) | `seq`, `msgs`, write deadline | Run, runSegment, sendRound | socket, timer callback |
| UDP receiver, timestamp reader (`udp.go`, `txtsreader.go`) | read deadline, records | Run, selectMsgsSent | socket, deadline goroutine, channel |
| TCP, QUIC, ICMP (`tcp.go`, `quic.go`, `icmp.go`) | monitor samples, tracer channels, sequence base | Run | channels, contexts |
| commands (`commands.go`) | child process | MonitorCommand | signals, timer |
| results (`results.go`) | none | processUDP, row generators | pure |
| experiment client (`cmd/scalpel-exp`) | manifest, records, executor | Client.Run, schedule/finishProcedureInvocation, Executor | errgroups, `mu`, files, RPC |
| procedures (`cmd/scalpel-exp/procedures`) | none | Run of each procedure | Executor.RunClient |

`PROJECT.json` lists every part with its status, and every hazard with the
line where it bites.  What each part must guarantee:

* registry: an accepted test delivers exactly one result, to one reader; no
  goroutine, reader or context is left behind; only an Abort of its ID or the
  end of the server cancels a test;
* RPC server: when Stop returns nothing of the server runs; Stop does return;
* rate sender: the record is exactly what left the socket; no packet beyond
  the segment's rate or time; the sender ends, whatever the socket does;
* downlink test: client and server agree about the first contact; the server's
  record is what it sent; sender, timestamp reader and receiver end although
  they only talk through socket deadlines;
* TCP transfer: a sender of a given number of bytes reports success only when
  they are acknowledged, and leaves no goroutine behind;
* QUIC transfer: the tracer loses and repeats no packet, the close does not cut
  the stream off, and no run loop stays blocked in a callback;
* command: the files are read after the process has exited, and after a success
  the client has a copy of each;
* ICMP test: the 16-bit numbers are extended right across their wrap, and
  nothing else that reaches the host is counted;
* results: one row per packet sent, whatever was lost, copied or reordered;
* procedures: captures contain the measurements, tests do not overlap or
  overwrite each other, plans lie in the future and in their interval;
* experiment client: `info.json` is on disk before anything starts, is never
  written while a measurement goroutine changes it, and is true; the returned
  error agrees with it; a round does not run into the next; Ctrl-C returns.

## Modules

`TestRegistry` is the server's per-test state.  A critical section of
`resultLock` is one step; what lies between two of them is a step of its own,
so a result channel looked up under the lock is used after anything else may
have happened.  A test is named by its start call and its channel and context
carry the same name, so that two tests with one ID stay apart.  `pc` follows a
start call and the goroutine it leaves behind: `Issue`, `Reject`/`Register`,
`SetupFails`/`SetupSucceeds`, `RunToEnd`/`StopOnCancel`, then delivery
(`LookupChannel`, `SendResult`, `CloseChannel`) and `finishTest` (`TakeCancel`,
`CallCancel`).  Measurements and commands take different paths, as in the
code: a command sends to a channel it already holds and never closes it.
Readers and Abort calls have program counters of their own.  What a test
measures is abstracted to "ok" or "err".

`ResultMailbox` is what a client may rely on: a result is owed, ready, taken
by one call.  `TestRegistry!ImplementsMailbox` says that the registry, read
through `Stage` and `Got`, is such a mailbox.

`RpcServer` is the accept loop (`Accept`, `AddConn`, `InsertConn`,
`AcceptFails`), each connection's goroutine (`ServeReturns`, `DeleteConn`,
`ConnDone`) and Stop (`CloseListener`, `CloseConns`, `StopReturns`).  The
listener and net/rpc are external: ServeConn returns when its connection is
closed and its calls have returned.

`MCServer` puts these two parts of a server side by side.  They share nothing
but the context of the server, so a behaviour moves one of them, whichever is
first, and deadlock is checked of both: a server that can do nothing more has
stopped (`Stopped`) or its calls are over (`Terminating`).

`RateSender` is `RateSender.Run` down to the system call.  `EnterSegment` is
the head of runSegment, the tick reads the clock, a batch is recorded, the
time is looked at again, the socket accepts some, all or none of it, and
`LeaveSegment` joins the callback and clears the deadline.  The callback, the
clock, the closing of the context's channel and the user run beside it.
`numPacketsGoal` and `rateSegmentGoal` keep the code's integer arithmetic;
time is counted in fractions of a second and a packet is its sequence number.

`UdpDownlink` is one UDP downlink test between two hosts: `punchHole`,
`waitUntil` and `UDPReceiver` on the client, `waitForUDPProbe`, `handleSender`,
a sender and its `TxTsReader` on the server, and a network that loses, delays
and reorders (a message that is never delivered is lost). The goroutines of one
socket share its read deadline, `rdl` or `crdl`, and the model keeps each of
its writers apart: `ListenForProbe`, `RunProbeCb`, `StartSender`, `EndReader`
and `HandleDeadline` on the server; `AwaitReply`, `HearServer`, `WakeReceiver`
and `StopReceiving` on the client.  "Look at the context" and "clear the
deadline" are two steps.  Times are kept as what is left of them, so the model
needs no bound on the clock.  `Advance` may come between any two steps, so
every goroutine, the two handlers included, may be as slow as it likes: a
server may be held up between its answer and `waitUntil` and find StartAt
passed.  One thing is assumed (`TimerInTime`): the runtime ends the sender's
context before the safety net of handleSender, at least twice as long and a
minute, runs out.  StartAt is a date that each host compares with its
own clock (`toStart`, `cStart`); `Skews` says by how much the server's may be
behind, or ahead by at most `Margin`, the second that firstContactDeadline
adds.  The repository's README asks for NTP synchronization, which is better
than that.  Of one packet the kernel may deliver a software and a hardware
timestamp (`sockets.go:87-90`); the model has one.  The three senders are one:
it sends, stops at the end of its context or when all is sent, stops short, or
fails.

`Invocation` is `Client.Run` with both halves of an invocation, the
`Executor` and the manifest.  The main goroutine goes through dial, metadata,
plan, initial manifest, start, wait, abort or gather, server log, finalize,
AFTER metadata, final manifest, close; each measurement's goroutine requests
its test, runs and is aborted or gathered.  The server is reduced to the state
of each test.  A manifest is its status, its error phases and its records;
`disk` is what the file says and `past` what the earlier rounds left.  File
errors, RPC errors, a lost connection and Ctrl-C may come anywhere.

`Procedures` is what one invocation plans: `NextRI`, and each registered
procedure as a record of its first start, its tests, the rule of its loop and
its capture.  The loops come in six kinds (`FitIn`/`LeaveOut` look before a
test, `LookAhead` after it, `Unguarded` not at all, `PickOne` has no loop,
`DrawSame` and `DrawDifferent` draw cool-downs), so twenty-one procedures share
one planner.  What the random source draws is a choice; times are milliseconds.
The lists of an override may be empty, repeat a value or contain a zero, since
PrepareParams only checks that they are unsigned.  A test therefore has a place
in its list, and a key, what the names of its result files show of it: a
repeated value gives two tests one key.  A procedure panics when it has planned
too many tests, divides by a duration of zero (`DividesByZero`) or has nothing
to draw from (`NothingToDraw`).

`TcpTransfer` is both ends of a TCP test in both directions: handshake, the
monitor and the copying goroutine of `runTCPMonitorAndIO`, the select between
them, the drain of the send queue, and the close with a linger of zero.  Time
is the phase of the test (before StartAt, during it, after the sender's and
after the receiver's end).  The network may acknowledge, fail, reset or lose a
reset.  The dial does not watch the context; nothing but an answer or the
kernel's connect timeout ends it.

`QuicTransfer` is `QUICSender` and `QUICReceiver` with the run loop of the QUIC
library, whose tracer callback hands each packet over a bounded channel to
`ChanReader.Read`; `quit` may be closed while either waits.  quic-go is
external: it repeats lost data in new packets, and packets overtake each other.
The sender's deferred CloseWithError is a step of its own (`QuicClose`) on every
path that has a connection, errors included; the library may pack the close
before `quit` is closed or after it.

`CommandRun` is `MonitorCommand` against a process that may exit by itself at
any time and obeys some of the signals, or none.  The process is sudo: it relays
the weaker signals to tcpdump, but SIGKILL ends it alone and may leave tcpdump
writing (`cOrphan`).  Then the files are gathered, at the client or through the
server's reply.  Any step of that may fail; the local Gather does not look at
the error of the last Flush and removes the original, so its copy may lack the
end (`cCut`).

`IcmpTest` is the numbering of `ICMPSender`, the filters and the extension of
the numbers of `ICMPReceiver`, and `waitForICMPProbe`, among everything else
that reaches a raw socket.

`ResultRows` runs `processUDP` and `generateUDPResultRows` over all inputs of a
bounded size; `RowsTruthful` is the reference definition of what they compute.
`sort.Slice` is what it promises, a rearrangement in which no message comes
after one that it precedes.

`MCTests` composes these five.  The tests of an invocation share no state but
the registry, which `TestRegistry` has, so a behaviour runs one of them,
whichever is requested first.  The other `MC*` modules, besides `MCServer`,
only give the constants values.

The theorems are in `TestRegistryProofs`, `RpcServerProofs`, `RateSenderProofs`,
`UdpDownlinkProofs`, `InvocationProofs` and `ProceduresProofs`, one for each of
those components, in `QuicProofs` for `QuicTransfer`, and in `TestsProofs` for
`CommandRun`, `TcpTransfer`, `IcmpTest` and `ResultRows`.

## Runs

Each run's bounds are those of its `.cfg`; every one finishes in about a
minute or two.

| run | instance | shows |
|---|---|---|
| `server` | a measurement and a command, two readers of the measurement, one Abort, shutdown; or three clients and Stop | one result to one reader (`ResultConserved`, `ImplementsMailbox`), delivery never blocks, contexts and entries are dropped (`NothingLeftBehind`), calls return and a stop is obeyed (`EveryoneReturns`, `StopsTakeEffect`); `StopIsComplete`, and `StopWaitsOnlyForLate` |
| `registry_duplicate` | three start calls, two with one ID and two readers of it, an aborted command | neither a refused duplicate nor another test's end cancels the owner of an ID, unless the ID was reused after a retrieval |
| `registry_abort_overtakes` | one test, one Abort | violated: the Abort is handled first and does nothing |
| `registry_command_readers` | one command, two readers, one Abort | violated: the second reader waits until the shutdown |
| `rpc_server_stop` | two clients | violated: Stop waits for a connection it never saw |
| `rate_sender` | four segments: a rate that does not divide, an empty one, a pause, another rate; batches of two; the outer deadline cuts the last one off | record, rate and deadlines (`SegmentsRespected`), callbacks, termination |
| `udp_downlink` | one packet, two probes, with StartAt and without, timestamps or none, the server's clock ahead or behind | first contact (`ContactAgreed`), records, termination of both sides, promptly if aborted |
| `invocation` | one local and two remote measurements, two rounds | manifest, rounds and termination |
| `invocation_aborted` | one local and one remote measurement | violated: Ctrl-C while gathering aborts nothing |
| `procedures` | every procedure, every draw, four clock readings; overrides with a repeated value and with a zero | captures cover, tests are apart, plans fit and lie ahead, planning ends |
| `procedures_fits` | the same | violated: a cool-down test that passes the check ends after the interval |
| `tests` | one TCP, QUIC or ICMP test, command, or matching of results | `TcpAllAcked`, `QuicRecordComplete`, `QuicDelivered`, `CmdCapture`, `IcmpNumbering`, `RowsTruthful`, and that each test ends |

Why these bounds are enough to be interesting:

* The registry's races are between a test, its own reader, a second reader of
  the same channel and an Abort; a further test only repeats them.  Stop needs
  one connection in every stage of the accept loop.
* The rate sender needs a second segment for a late callback to poison, a batch
  that is smaller than what is due, and a segment entered late; all of them
  happen.
* In a downlink test one packet already gives a record of two lengths, a lost
  timestamp and a packet that is taken for the answer to a probe; the durations
  are the smallest that keep the order of the code's own.  The server's clock is
  ahead by the whole `Margin`, or behind by as much.
* An invocation needs two remote tests so that one fails while the other runs,
  and a second round for what a first one leaves behind.
* TCP: one byte and a queue of one separate "written", "queued" and
  "acknowledged", which is all that the monitor can tell.
* QUIC: two units and three packets give one repetition and one reordering; a
  channel of one slot is full whenever a packet waits, so a callback blocks.
* Command: two files, so that gathering fails between them.
* ICMP: `SeqSpace` 10 and `LowSeq` 4 stand for 2^16 and 10000, one packet may be
  overtaken and two of a cycle lost, and 23 packets wrap twice.
  `IcmpAssumption` says for which losses and reorderings the heuristic is
  right; in the code's numbers, as long as the packets lost of one cycle and
  those that may overtake another are together fewer than 10000.
* Results: up to two packets sent and three received with two arrival times are
  the smallest with a loss, two copies, and a number that was never recorded
  as sent.
* Procedures: the registered defaults, with fewer of the values that only
  lengthen the permutations; the clock readings lie on both sides of the half
  second at which `NextRI` rounds up, on a boundary, and near a full minute.
  `rampupprobe` repeats a duration and plans too many tests, `packetdur` has a
  zero; an empty list, from which nothing can be drawn, is left to the proof.

The bounds that are not in the code are `MaxTime` (the clock of `RateSender`,
one more than the last deadline), `Rounds`, `MaxPackets`, `QuicPackets`,
`MaxIcmp`, `MaxSentRows`, `MaxRcvdRows`, `ResTimes`, and the finite sets of
calls.

### Violations

* Requests of one connection are handled concurrently, so an Abort can be
  handled before the RequestServer it is meant for.
* RunCommand never closes the channel of its result, so of two concurrent
  readers of a command one waits until the server shuts down.
* A connection registered after Stop has walked over `conns` is never closed,
  and Stop waits for that client.
* A cancellation after the one check before GatherResults ends the invocation
  without AbortServerTests.
* The cool-down procedure checks that a test which began at `start` would end
  in time, and then begins it where it would have ended.

Each finding in `PROJECT.json` quotes the comment or test it contradicts.

Met while modelling, without a run of its own: TxTsReader sets its draining
deadline once, although its comment says that more timestamps prolong it
(`txtsreader.go:20-22`, `53`); with a byte limit, a TCP test whose duration is
over drains for up to 60 s, although the comment at `tcp.go:428` speaks of an
abrupt stop; the receiving server never closes the TCP connection it has
accepted; a local Gather removes a capture whose copy it may not have written
completely (`client.go:677-683`); `rateri` may be planned to start in the past
(`StartsAhead` excludes it by name).

## Fairness

* `TestRegistry!GoSpec`: weak fairness of each call's and each test's own
  steps.  The Go scheduler runs every runnable goroutine, `resultLock` is held
  for a few instructions, and the handlers watch their context.  Issuing a
  call is never fair.  `TestsBounded` (a measurement ends by itself) is added
  only where a property names it: every test has a Timeout or a Duration.
* `RpcServer!RpcFairness`: the server's goroutines run, and a call returns,
  since the caller of Stop has cancelled the context.  Clients owe nothing; a
  client may stay connected for ever, which is what `StopComesBack` is about.
  `MCServer!ServerSpec` is fair to both parts.
* `RateSender!GoSpec`: the sender and the callback run; the socket need never
  accept a packet and the clock may stand still.  `TimePasses` is assumed only
  in one part of `SenderEnds`; a cancelled sender ends without it.
* `UdpDownlink!GoSpec`: handlers, reader, contexts and callbacks run.  Socket
  errors, short writes, timestamps and deliveries are never owed.
  `TimePasses` is named by `BothEnd`; `AbortIsPrompt` needs no time to pass.
* `Invocation!GoSpec`: the client's goroutines and timeouts run; the server
  need never answer.  `ServerAnswers` is assumed in one half of `RunReturns`;
  after a Ctrl-C the other half needs no answer.  The
  connection is never owed a failure, and the user never a Ctrl-C.
* `TcpFair`, `QuicFair`, `CmdFair` (in `MCTests!Spec`): while a goroutine of
  the test can go on, one does, and a process obeys the signals it obeys.  A
  test is a finite number of steps, so this gives every goroutine its turn.
  The network owes nothing, not even an answer to a TCP dial: that ends by the
  kernel's connect timeout, which belongs to `TcpTime`, and an aborted sender
  is promised a prompt return only once it no longer dials.  The clock and the
  timers (`TcpTime`, `QuicTime`, `CmdTime`) are premises of `TcpEnds`,
  `QuicEnds` and `CmdEnds` only.
* `Procedures!Spec`: planning is one thread, and the random source yields,
  sooner or later, a cool-down that has not been drawn yet.

## Proofs

Every safety property that a passing run checks, invariant, action property
or refinement, is also a theorem.  The theorems hold for every value of the
constants that satisfies the named assumption of the module; TLC evaluates the
assumptions on the runs' values.  Each rests on an inductive invariant, stated
in the module of the proof as a conjunction of named parts, which TLC has
checked before it was proved; the proof has one lemma per action or group of
actions and ends with the temporal step.

* `TestRegistryProofs`.  `TypeCorrect` and `TestsAreIsolated` need no
  assumption on IDs.  The others assume `UniqueIds`, which `GenID` provides.
  The inductive invariant `IInv` ties the maps to the program counters: a
  registered channel belongs to the test with that ID (`MapInv`), a test that
  has not delivered yet has its own registered, open, empty channel
  (`TestInv`), and a reader holds the channel of its ID (`ReadInv`).
  `ResultConserved` alone is not inductive because it does not say which
  channel a reader waits on.  From `IInv` follow conservation, non-blocking
  delivery, `NothingIsLeftBehind` (released contexts and dropped entries) and
  the refinement `RegistryImplementsMailbox`. `TestsAreIsolated` is about tests
  that may share an ID and has an invariant of its own, `IsolInv`: what a map,
  a test, a reader or an Abort holds carries its ID (`HoldInv`), an ID gets
  free only by a retrieval (`FreeInv`), and so a running test that does not
  reuse an ID is alone with it (`AloneInv`) and its cancel function is called
  by an Abort only (`AbortInv`).  The exception, `IdReused`, is a test
  registered under an ID whose result was retrieved before the finishTest of
  its first owner: that one then takes the cancel function it finds
  (`server.go:226-234`).
* `RpcServerProofs`.  `StopIsAlwaysComplete`: the wait group's counter is
  exactly the accept loop plus the connections between Add and Done
  (`CounterExact`), so a counter of zero means that nothing is left.
* `RateSenderProofs`.  `RecordAlwaysMatches`: between recording and writing,
  `msgs` is ahead of the wire by exactly the batch (`RecordInv`);
  `WritesAreNeverPoisoned`: the deadline in force is the current segment's or
  was set by its own callback after it expired, and no callback of another
  segment is left (`WakeInv`).  `SegmentsAreRespected`: by `PaceInv`, the
  segments follow each other without a gap (`CourseInv`), nothing is sent of one
  that is to come or after its end (`WireInv`), and what was sent of a segment,
  with what is left of the round, is within `numPacketsGoal` of its duration
  (`CountInv`).  `SegmentEnd` is a recursive
  function over the segments; `SegmentEndIs` unfolds it for every number of
  them.
* `UdpDownlinkProofs`.  `ReaderCanAlwaysEnd` assumes only Duration < Safety,
  which handleSender's arithmetic gives: while the sender's context is open the
  read deadline lies beyond it, so the reader times out only afterwards and
  never clears a deadline (`DeadlineInv`); that needs `CallbackInv`, that the
  unjoined callback of the first contact runs only in a cancelled test, which
  never starts a sender.  `RecordsAlwaysAgree` rests on `OriginInv` and on the
  fact that a subset of equal cardinality is the whole set.
  `ContactIsAlwaysAgreed` rests on `WaitInv`: what is left of StartAt on the
  client bounds the server's wait from below and the client's from above, if
  the server's clock is ahead by no more than `Margin`; and on `HeardInv`:
  nothing comes from a server that has not answered.

* `InvocationProofs`.  One invariant, `IInv`, gives all six theorems.
  `StageInv` and `GoInv` say what the executor has been through at each step of
  the main goroutine: nothing runs before Start, everything is joined behind
  Wait. `RecInv` ties a measurement's goroutine to its record and to its test
  on the server.  `ErrInv` and `StatusInv` relate the error that will be
  returned to the errors of the manifest: neither alone is inductive, since an
  error is noted in one before the other.  `DiskInv` says how far the file is
  behind the executor, and `PastInv` what earlier rounds left.
* `ProceduresProofs`.  `NextRI` lies more than half a second and at most 15.5 s
  ahead, and the one after it 15 s later, for every reading of the clock
  (`ParamsAssumption` only says that parameters are unsigned numbers and lists
  of them, which may be zero, empty or repeat a value).  Each procedure has one
  of four shapes, by the rule of its loop, and the schedule invariant `PlanInv`
  is proved for a shape, not for twenty-one procedures: where the next test may
  start, that what is planned ends before it, and how far the capture must
  reach.  `NothingStartsInThePast` holds for all parameters, and so does the
  part of `PlansFit` about panics: `MayPanic` lists the parameters that can
  cause one.  `TestsAreApart`, `CapturesAreWide` and `PlansFit` assume
  `ModestParams`: `packetdur` looks ahead by the duration of the test before,
  and `cdsf` starts a test where it was to end, so overrides whose durations
  differ by more than a second, or cool-downs beyond 1.4 s, break them (TLC
  finds it with durations of 10 ms and 3 s, and with cool-downs up to 3 s).
  The registered defaults satisfy it; nothing in the code checks it.  That
  results do not overwrite each other also takes `NamesDiffer`, lists without
  repeats (`params.go:170`, `prograte.go:65`).
* `QuicProofs`.  A packet is in one place, on its way, in a callback, in the
  channel or in the result (`QuicPlaceInv`), channel and result together are in
  the order of the callbacks (`QuicOrderInv`), and a reader that is done leaves
  nothing behind (`QuicSeenInv`): `RecordsAreComplete`, for any number of
  packets and slots.  `StreamIsDelivered` rests on `QuicCloseInv`: the close is
  packed only once the sender has closed the connection, which, unless it was
  cut short, it does after the FIN of a receiver that has read everything.
* `TestsProofs`.  `CapturesAreComplete`: success is reported only behind Wait,
  and a written file is in the directory, the reply or at the client
  (`CmdFileInv`); what it cannot promise is named in it, a child that outlives
  a killed command and a local copy without its end.
  `WrittenBytesAreAcknowledged`: the queue that the monitor has seen empty
  cannot fill again, because the copying goroutine is done.
  `NumbersAreExtended`: `receivedSinceWrap` is bounded on both sides.
  `IcmpFewInv` bounds it from above by the highest packet that has arrived, so
  a small number early in a cycle is no wrap; `IcmpManyInv` from below by what
  has been sent of the cycle less losses and packets under way, so the first
  packet of the next cycle is one; with `IcmpBaseInv` this holds for every size
  of the sequence space that satisfies `IcmpAssumption`, the code's 2^16 and
  10000 included.  `RowsAreTruthful`: `resultIdx` splits the sorted messages at
  the next sequence number and each result describes the stretch of copies it
  has taken (`ResMatchInv`); the copies among the recorded messages are counted
  through the bijection of the sorting.  Its hypothesis is only that arrival
  times are not the zero time.

The provers take no predicate as an argument, so the library's induction
theorems cannot be cited.  Where a proof needs an induction it takes the least
element of a set of counterexamples instead (`LeastOf` and `SetInduction` in
`RateSenderProofs`, `LeastNat` in `TestsProofs`).

Only model-checked: what needs fairness, that is `EveryoneReturns`,
`StopsTakeEffect`, `StopWaitsOnlyForLate`, `SenderEnds`, `RunReturns`,
`BothEnd`, `AbortIsPrompt`, `ScheduleEnds`, `TcpEnds`, `QuicEnds` and
`CmdEnds`; the prover has neither ENABLED nor fairness.  The five violations
are TLC's as well.

## Not modelled, and the plan

What is left to prove:

1. the receiver's counterpart of `ReaderCanEnd`: that a `UDPReceiver` whose
time is over is never left with a read deadline that was cleared behind its
back;
2. safety facts under the liveness properties that do not need fairness, such as
   a bound on the steps that a cancelled `RateSender` or a command's monitor can
   still take.

Partly modelled: the burst and periodic senders appear in `UdpDownlink` as a
sender that may stop or fail anywhere, without their write deadlines; of the
control channel only how a call ends; of a measurement client not the summary
it prints nor its CSV files; of the rows not how numbers and times are
written, nor the rows of a TCP test, which are a copy of the samples.

Left out for good: QUIC and TCP themselves, system calls and socket options,
parameter and flag parsing and validation (table tests cover them, and no state
changes over time), host and build information, the log fan-out (a bounded
channel that is written without blocking), the analysis scripts.  That a late
reader deletes the channel of a test which reuses an ID (`server.go:551`) is
outside of `UniqueIds`, and random IDs make it unreachable in practice.  A
cool-down procedure whose override lets every value fit draws for ever
(`cdsf.go:81`); the runs use the registered values, with which the interval is
full first.
