----------------------------- MODULE RateSender -----------------------------
(***************************************************************************)
(* RateSender of pkg/udp.go: a list of segments, each with a duration and  *)
(* a packet rate, sent in batches of at most MaxBatch packets.  The result *)
(* of the test, msgs, must say exactly which packets left the socket.      *)
(*                                                                         *)
(* Three parties run concurrently: the sender, the callback (AfterFunc)    *)
(* that wakes a blocked write by moving the socket's write deadline to the *)
(* present, and the world: the clock, the user who cancels, the socket     *)
(* that accepts all, some or none of a batch.  The channel of the          *)
(* segment's context closes some time after the context has expired.       *)
(*                                                                         *)
(* Time is counted in units of 1/Second seconds.                           *)
(***************************************************************************)
EXTENDS Integers, Sequences, FiniteSets

CONSTANTS
    Params,     \* the segments: records with fields dur and pps
    Second,     \* time units per second
    MaxBatch,   \* packets per SendMsgs call (1024)
    Outer,      \* deadline of the context given to Run
    MaxTime     \* bound of the clock

ASSUME RateAssumption ==
    /\ Params \in Seq([dur : Nat, pps : Nat])
    /\ Second \in Nat \ {0}
    /\ MaxBatch \in Nat \ {0}
    /\ Outer \in Nat
    /\ MaxTime \in Nat

None == -1      \* no write deadline

VARIABLES
    now,        \* the clock
    cancelled,  \* has the outer context been cancelled
    pc,         \* next step of the sender
    i,          \* index of the current segment
    boundary,   \* its start
    missed,     \* whole packets missed before the segment was entered
    numSent,    \* numPacketsSent of runSegment
    left,       \* packetsLeft of sendRound
    sent,       \* sent of sendRound
    round,      \* packetsRound of sendRound
    seq,        \* r.seq
    msgs,       \* r.msgs: the sequence numbers recorded as sent
    done,       \* has the channel of the segment's context been closed
    wake,       \* segment -> state of its callback
    wdl,        \* write deadline of the socket
    wire        \* history: what left the socket, in which segment and when

timeVars == <<now, cancelled>>
segVars == <<i, boundary, missed>>
roundVars == <<left, sent, round>>
recordVars == <<seq, msgs, wire>>
wakeVars == <<done, wake, wdl>>
vars == <<timeVars, pc, segVars, numSent, roundVars, recordVars, wakeVars>>

Segments == 1 .. Len(Params)

Packets == [seq : Nat, seg : Nat, at : Nat]

TypeOK ==
    /\ now \in Nat
    /\ cancelled \in BOOLEAN
    /\ pc \in {"next", "enter", "idle", "tick", "batch", "send", "syscall",
               "leave", "fail", "finished", "failed"}
    /\ i \in Nat \ {0}
    /\ boundary \in Nat
    /\ missed \in Nat
    /\ numSent \in Nat
    /\ left \in Nat
    /\ sent \in Nat
    /\ round \in Nat
    /\ seq \in Nat
    /\ msgs \in Seq(Nat)
    /\ done \in BOOLEAN
    /\ wake \in [Segments -> {"off", "armed", "running", "woke"}]
    /\ wdl \in Nat \cup {None}
    /\ wire \in Seq(Packets)

Init ==
    /\ now = 0
    /\ cancelled = FALSE
    /\ pc = "next"
    /\ i = 1
    /\ boundary = 0
    /\ missed = 0
    /\ numSent = 0
    /\ left = 0
    /\ sent = 0
    /\ round = 0
    /\ seq = 0
    /\ msgs = <<>>
    /\ done = FALSE
    /\ wake = [k \in Segments |-> "off"]
    /\ wdl = None
    /\ wire = <<>>

-----------------------------------------------------------------------------
\* Go's min.
Least(a, b) == IF a <= b THEN a ELSE b

\* End of the current segment, and the deadline of its context.
End == boundary + Params[i].dur
Deadline == Least(End, Outer)

\* rateContextExpired, for the context of Run and for that of the segment.
OuterExpired == cancelled \/ now >= Outer
Expired == cancelled \/ now >= Deadline

\* numPacketsGoal: how many packets are due after elapsed time.
numPacketsGoal(elapsed, pps) ==
    IF elapsed <= 0 THEN 0 ELSE (elapsed * pps) \div Second

\* rateSegmentGoal: what was missed before the segment is not made up for.
rateSegmentGoal ==
    LET goal == numPacketsGoal(Least(now - boundary, Params[i].dur),
                               Params[i].pps)
    IN  goal - Least(goal, missed)

\* msgs with the n next sequence numbers appended; msgs without its last n.
Appended(n) ==
    [j \in 1 .. Len(msgs) + n |->
        IF j <= Len(msgs) THEN msgs[j] ELSE seq + (j - Len(msgs)) - 1]

Dropped(n) == SubSeq(msgs, 1, Len(msgs) - n)

-----------------------------------------------------------------------------
(***************************************************************************)
(* runSegments and runSegment.                                             *)
(***************************************************************************)
\* The head of runSegments' loop.
NextSegment ==
    /\ pc = "next"
    /\ \/ /\ i > Len(Params) \/ OuterExpired
          /\ pc' = "finished"
          /\ UNCHANGED <<i, boundary>>
       \/ /\ i <= Len(Params) /\ ~OuterExpired
          /\ now >= End       \* too late, or a segment of no duration
          /\ i' = i + 1
          /\ boundary' = End
          /\ UNCHANGED pc
       \/ /\ i <= Len(Params) /\ ~OuterExpired
          /\ now < End
          /\ pc' = "enter"
          /\ UNCHANGED <<i, boundary>>
    /\ UNCHANGED <<timeVars, missed, numSent, roundVars, recordVars, wakeVars>>

\* Mutant of EnterSegment: no write deadline is set.
EnterSegmentNoDeadline ==
    /\ pc = "enter"
    /\ ~Expired
    /\ missed' = numPacketsGoal(now - boundary, Params[i].pps)
    /\ numSent' = 0
    /\ done' = FALSE
    /\ wake' = [wake EXCEPT ![i] = "armed"]
    /\ pc' = IF Params[i].pps = 0 THEN "idle" ELSE "tick"
    /\ UNCHANGED <<timeVars, i, boundary, roundVars, recordVars, wdl>>

\* runSegment up to its loop: the deadline is set, the callback armed.
EnterSegment ==
    /\ pc = "enter"
    /\ ~Expired
    /\ missed' = numPacketsGoal(now - boundary, Params[i].pps)
    /\ numSent' = 0
    /\ done' = FALSE
    /\ wake' = [wake EXCEPT ![i] = "armed"]
    /\ wdl' = Deadline
    /\ pc' = IF Params[i].pps = 0 THEN "idle" ELSE "tick"
    /\ UNCHANGED <<timeVars, i, boundary, roundVars, recordVars>>

\* The socket does not take the deadline: the test fails, with no callback.
SetDeadlineFails ==
    /\ pc = "enter"
    /\ ~Expired
    /\ missed' = numPacketsGoal(now - boundary, Params[i].pps)
    /\ pc' = "failed"
    /\ UNCHANGED <<timeVars, i, boundary, numSent, roundVars, recordVars,
                   wakeVars>>

\* runSegment's early return: the segment is over before it began.
SkipSegment ==
    /\ pc = "enter"
    /\ Expired
    /\ pc' = "next"
    /\ i' = i + 1
    /\ boundary' = End
    /\ UNCHANGED <<timeVars, missed, numSent, roundVars, recordVars, wakeVars>>

\* A tick: nothing is due, a round is due, or the segment is over.  A
\* segment without a rate has no ticker and only waits for the context.
Tick ==
    /\ pc = "tick"
    /\ \/ /\ Expired
          /\ pc' = "leave"
          /\ UNCHANGED <<left, sent>>
       \/ /\ ~Expired
          /\ numSent < rateSegmentGoal
          /\ left' = rateSegmentGoal - numSent
          /\ sent' = 0
          /\ pc' = "batch"
    /\ UNCHANGED <<timeVars, segVars, numSent, round, recordVars, wakeVars>>

\* The other case of the select.
ContextDone ==
    /\ pc \in {"idle", "tick"}
    /\ done
    /\ pc' = "leave"
    /\ UNCHANGED <<timeVars, segVars, numSent, roundVars, recordVars,
                   wakeVars>>

\* Mutant of LeaveSegment: the callback is stopped but not waited for.
LeaveSegmentNoJoin ==
    /\ pc \in {"leave", "fail"}
    /\ wake' = [wake EXCEPT ![i] = IF @ = "running" THEN @ ELSE "off"]
    /\ wdl' = None
    /\ \/ /\ pc = "leave"
          /\ pc' = "next"
          /\ i' = i + 1
          /\ boundary' = End
       \/ /\ pc = "fail"
          /\ pc' = "failed"
          /\ UNCHANGED <<i, boundary>>
    /\ UNCHANGED <<timeVars, missed, numSent, roundVars, recordVars, done>>

\* The deferred function: stop the callback or, if it has started, wait for
\* it; then clear the deadline.
LeaveSegment ==
    /\ pc \in {"leave", "fail"}
    /\ wake[i] \in {"armed", "woke"}
    /\ wake' = [wake EXCEPT ![i] = "off"]
    /\ wdl' = None
    /\ \/ /\ pc = "leave"
          /\ pc' = "next"
          /\ i' = i + 1
          /\ boundary' = End
       \/ /\ pc = "fail"
          /\ pc' = "failed"
          /\ UNCHANGED <<i, boundary>>
    /\ UNCHANGED <<timeVars, missed, numSent, roundVars, recordVars, done>>

-----------------------------------------------------------------------------
(***************************************************************************)
(* sendRound.                                                              *)
(***************************************************************************)
\* sendRound returns n, which runSegment adds up.
RoundReturns(n) ==
    /\ pc' = "tick"
    /\ numSent' = numSent + n

\* packetsRound: at most MaxBatch of what is left.
BatchSize == Least(left, MaxBatch)

\* The head of the loop: the round is done, or interrupted, or a batch of
\* packets is encoded and recorded.
Batch ==
    /\ pc = "batch"
    /\ \/ /\ left = 0 \/ Expired
          /\ RoundReturns(sent)
          /\ UNCHANGED <<round, msgs>>
       \/ /\ left > 0 /\ ~Expired
          /\ round' = BatchSize
          /\ msgs' = Appended(BatchSize)
          /\ pc' = "send"
          /\ UNCHANGED numSent
    /\ UNCHANGED <<timeVars, segVars, left, sent, seq, wire, wakeVars>>

\* A packet does not fit its buffer: those before it stay recorded, and the
\* error ends the test, which then reports no packets at all.
EncodeFails ==
    /\ pc = "batch"
    /\ left > 0 /\ ~Expired
    /\ \E n \in 0 .. BatchSize - 1 : msgs' = Appended(n)
    /\ pc' = "fail"
    /\ UNCHANGED <<timeVars, segVars, numSent, roundVars, seq, wire, wakeVars>>

\* The second check of the context, after the encoding.
CheckBeforeSend ==
    /\ pc = "send"
    /\ \/ /\ Expired
          /\ msgs' = Dropped(round)
          /\ RoundReturns(sent)
       \/ /\ ~Expired
          /\ pc' = "syscall"
          /\ UNCHANGED <<msgs, numSent>>
    /\ UNCHANGED <<timeVars, segVars, roundVars, seq, wire, wakeVars>>

\* The socket's write deadline has passed.
WriteTimedOut == wdl # None /\ wdl <= now

\* The first n packets of the batch, as the system call sends them.
Burst(n) == [j \in 1 .. n |-> [seq |-> seq + j - 1, seg |-> i, at |-> now]]

\* Mutant of SendMsgs: a short write keeps the whole batch recorded.
SendMsgsNoTrim(n) ==
    /\ pc = "syscall"
    /\ ~WriteTimedOut
    /\ wire' = wire \o Burst(n)
    /\ sent' = sent + n
    /\ seq' = seq + n
    /\ left' = left - n
    /\ \/ /\ n = round
          /\ pc' = "batch"
          /\ UNCHANGED <<msgs, numSent>>
       \/ /\ n < round
          /\ msgs' = msgs
          /\ RoundReturns(sent + n)
    /\ UNCHANGED <<timeVars, segVars, round, wakeVars>>

\* The socket takes the first n packets of the batch; after a short write
\* the rest is taken off the record and the round ends.
SendMsgs(n) ==
    /\ pc = "syscall"
    /\ ~WriteTimedOut
    /\ wire' = wire \o Burst(n)
    /\ sent' = sent + n
    /\ seq' = seq + n
    /\ left' = left - n
    /\ \/ /\ n = round
          /\ pc' = "batch"
          /\ UNCHANGED <<msgs, numSent>>
       \/ /\ n < round
          /\ msgs' = Dropped(round - n)
          /\ RoundReturns(sent + n)
    /\ UNCHANGED <<timeVars, segVars, round, wakeVars>>

\* Nothing of the batch goes out, and the timeout ends the round.
SendTimesOut ==
    /\ pc = "syscall"
    /\ WriteTimedOut
    /\ msgs' = Dropped(round)
    /\ RoundReturns(sent)
    /\ UNCHANGED <<timeVars, segVars, roundVars, seq, wire, wakeVars>>

\* Nothing of the batch goes out, and any other error ends the test.
SendFails ==
    /\ pc = "syscall"
    /\ ~WriteTimedOut
    /\ msgs' = Dropped(round)
    /\ pc' = "fail"
    /\ UNCHANGED <<timeVars, segVars, numSent, roundVars, seq, wire, wakeVars>>

-----------------------------------------------------------------------------
(***************************************************************************)
(* The context, its callback and the world.                                *)
(***************************************************************************)
\* The context's timer fires, or the cancellation reaches it.
FireContext ==
    /\ pc \notin {"next", "enter", "finished", "failed"}
    /\ ~done
    /\ Expired
    /\ done' = TRUE
    /\ UNCHANGED <<timeVars, pc, segVars, numSent, roundVars, recordVars, wake,
                   wdl>>

\* The runtime starts the callback in a goroutine of its own.
StartWake ==
    /\ i \in Segments
    /\ wake[i] = "armed"
    /\ done
    /\ wake' = [wake EXCEPT ![i] = "running"]
    /\ UNCHANGED <<timeVars, pc, segVars, numSent, roundVars, recordVars, done,
                   wdl>>

\* Mutant of Wake: the deadline is not moved.
WakeNoDeadline(k) ==
    /\ wake[k] = "running"
    /\ wake' = [wake EXCEPT ![k] = "woke"]
    /\ UNCHANGED <<timeVars, pc, segVars, numSent, roundVars, recordVars, done,
                   wdl>>

\* The callback of segment k: conn.SetWriteDeadline(time.Now()), then
\* close(woke).
Wake(k) ==
    /\ wake[k] = "running"
    /\ wdl' = now
    /\ wake' = [wake EXCEPT ![k] = "woke"]
    /\ UNCHANGED <<timeVars, pc, segVars, numSent, roundVars, recordVars,
                   done>>

Ended == pc \in {"finished", "failed"}

\* Time passes.
Advance ==
    /\ now < MaxTime
    /\ ~Ended
    /\ now' = now + 1
    /\ UNCHANGED <<cancelled, pc, segVars, numSent, roundVars, recordVars,
                   wakeVars>>

\* The user aborts, or the server cancels the test.
Cancel ==
    /\ ~cancelled
    /\ ~Ended
    /\ cancelled' = TRUE
    /\ UNCHANGED <<now, pc, segVars, numSent, roundVars, recordVars, wakeVars>>

-----------------------------------------------------------------------------
SenderStep ==
    \/ NextSegment
    \/ EnterSegment
    \/ SkipSegment
    \/ Tick
    \/ ContextDone
    \/ LeaveSegment
    \/ Batch
    \/ CheckBeforeSend
    \/ SendTimesOut

CallbackStep == FireContext \/ StartWake \/ \E k \in Segments : Wake(k)

Next ==
    \/ SenderStep
    \/ CallbackStep
    \/ SetDeadlineFails
    \/ EncodeFails
    \/ SendFails
    \/ \E n \in 0 .. round : SendMsgs(n)
    \/ Advance
    \/ Cancel
    \/ Ended /\ UNCHANGED vars

Spec == Init /\ [][Next]_vars

\* Goroutines and timers run.  The socket need not accept anything ever, and
\* the clock may stand still for as long as the sender takes.
GoSpec == Spec /\ WF_vars(SenderStep) /\ WF_vars(CallbackStep)

\* Time passes.
TimePasses == WF_vars(Advance)

-----------------------------------------------------------------------------
(***************************************************************************)
(* Properties.                                                             *)
(***************************************************************************)
\* Whenever no batch is in the making, the record says exactly what left
\* the socket, and the sequence numbers on the wire are 0, 1, 2, ...: short
\* writes, timeouts and interrupted rounds leave neither gaps nor ghosts.
\* (processUDP looks a packet's send time up by its sequence number.)
RecordMatchesWire ==
    pc \in {"next", "enter", "idle", "tick", "batch", "leave", "finished"} =>
        /\ Len(msgs) = Len(wire)
        /\ \A j \in 1 .. Len(wire) :
              wire[j].seq = j - 1 /\ msgs[j] = j - 1

\* Packets of segment k that were sent.
SentIn(k) == {j \in 1 .. Len(wire) : wire[j].seg = k}

\* A segment never sends more than its rate and its duration allow, however
\* rounds are interrupted: neither debt nor credit crosses a boundary.
WithinRate ==
    \A k \in 1 .. Len(Params) :
        Cardinality(SentIn(k)) <= numPacketsGoal(Params[k].dur, Params[k].pps)

\* When segment k ends if the first one starts at 0.
SegmentEnd[k \in 0 .. Len(Params)] ==
    IF k = 0 THEN 0 ELSE SegmentEnd[k - 1] + Params[k].dur

\* No packet leaves after the end of its segment or of the whole test, even
\* if the sender is held up between its last check and the system call.
NothingLate ==
    \A j \in 1 .. Len(wire) :
        wire[j].at < Least(SegmentEnd[wire[j].seg], Outer)

\* What a segment sends stays within its rate and within its time, though a
\* segment is entered late, a round is interrupted, or a system call is held up.
SegmentsRespected == WithinRate /\ NothingLate

\* A write only ever times out because its own segment is over: a callback
\* of an earlier segment never leaves its deadline behind.
NeverPoisoned == pc = "syscall" /\ WriteTimedOut => Expired

\* The test ends when its time is over, also with a socket that blocks, and
\* after a cancellation without waiting for any deadline.
SenderEnds ==
    /\ cancelled ~> Ended
    /\ TimePasses => <>Ended
=============================================================================
