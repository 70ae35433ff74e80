---------------------------- MODULE UdpDownlink -----------------------------
(***************************************************************************)
(* A UDP downlink test from the first contact to the two records: punchHole *)
(* and UDPReceiver on the client, waitForUDPProbe, handleSender, a sender  *)
(* with its TxTsReader and selectMsgsSent on the server.                   *)
(*                                                                         *)
(* Both sockets are shared by goroutines that talk to each other through   *)
(* the read deadline alone, and that is what the module is about: on the   *)
(* server the probe's deadline, the callback that ends the wait, the safety *)
(* net of handleSender, the goroutine that ends the timestamp reader, and  *)
(* the reader itself, which clears a deadline it takes for stale.          *)
(*                                                                         *)
(* Time is kept as what is left of each deadline: a read deadline of 0 has *)
(* passed.  It may pass between any two steps, of the handlers as of every *)
(* other goroutine, so all of them may be as slow as they like.  StartAt is *)
(* a date, which each host compares with a clock of its own.  A message in *)
(* flight may arrive at any time, in any order, or never.                  *)
(***************************************************************************)
EXTENDS Integers, FiniteSets

CONSTANTS
    None,        \* no deadline, no StartAt
    Probe,       \* the empty packet of the client
    Reply,       \* and that of the server
    StartTimes,  \* time until StartAt when the test is requested, or None
    Skews,       \* how much the server's clock may be behind the client's
    TryTime,     \* wait for the answer to a probe (1 s)
    MaxTry,      \* probes (5)
    FirstWait,   \* first contact without StartAt (10 s)
    MinWait,     \* first contact at the least (2 s)
    Margin,      \* first contact after StartAt (1 s)
    Duration,    \* of the sender
    Safety,      \* socket deadline of handleSender (twice as long, at least 60 s)
    Drain,       \* what the reader is given after its context (100 ms)
    Timeout,     \* of the receiver (Duration and 1 s)
    Grace,       \* of the receiver (250 ms)
    MaxPackets   \* bound of what is sent

ASSUME DownlinkAssumption ==
    /\ None \notin Int /\ Probe \notin Int /\ Reply \notin Int
    /\ Probe # Reply
    /\ StartTimes \subseteq Nat \cup {None}
    /\ Skews \subseteq Int /\ \A skew \in Skews : -Margin <= skew
    /\ Margin <= MinWait
    /\ TryTime \in Nat /\ MaxTry \in Nat
    /\ FirstWait \in Nat /\ MinWait \in Nat /\ Margin \in Nat
    /\ Duration \in Nat /\ Safety \in Nat /\ Duration < Safety
    /\ Drain \in Nat /\ Timeout \in Nat /\ Grace \in Nat
    /\ MaxPackets \in Nat

VARIABLES
    toStart,   \* time until StartAt on the server; -1 when it has passed
    cStart,    \* and on the client
    scancel,   \* has the server's test been cancelled
    ccancel,   \* has the user aborted
    spc,       \* next step of handleRequestServerUDP
    rdl,       \* read deadline of the server's socket
    probeCb,   \* callback of waitForUDPProbe
    sctx,      \* is the sender's context, and so its reader's, done
    sendLeft,  \* time until it is
    sent,      \* packets the sender has recorded
    reader,    \* the TxTsReader
    killer,    \* the goroutine that ends it
    errq,      \* timestamps in the socket's error queue
    stamps,    \* timestamps read
    result,    \* what selectMsgsSent returned
    cpc,       \* next step of runDLUDP
    try,       \* probes sent
    crdl,      \* read deadline of the client's socket
    cctx,      \* the receiver's context
    recvLeft,  \* time until its deadline
    waker,     \* the goroutine that ends the receiver
    age,       \* time since tsRcvd, up to Grace
    rcvd,      \* packets the receiver has recorded
    net,       \* messages in flight
    sbuf,      \* has a probe arrived at the server
    cbuf       \* messages in the client's socket

worldVars == <<toStart, cStart, scancel, ccancel>>
readerVars == <<reader, killer, stamps>>
serverVars == <<spc, rdl, probeCb, sctx, sendLeft, sent, errq, readerVars,
                result>>
recvVars == <<cctx, recvLeft, waker, age, rcvd>>
clientVars == <<cpc, try, crdl, recvVars>>
netVars == <<net, sbuf, cbuf>>
vars == <<worldVars, serverVars, clientVars, netVars>>

Seqs == 0 .. MaxPackets - 1

Messages == {Probe, Reply} \cup Seqs

Deadlines == Nat \cup {None}

Listening == spc \in {"start", "probe"}
ServerEnded == spc \in {"done", "failed", "nocontact", "late"}
ClientEnded == cpc \in {"done", "failed"}

TypeOK ==
    /\ toStart \in Nat \cup {None, -1}
    /\ cStart \in Nat \cup {None, -1}
    /\ scancel \in BOOLEAN
    /\ ccancel \in BOOLEAN
    /\ spc \in {"start", "probe", "reply", "wait", "sleep", "arm", "send",
                "select", "done", "failed", "nocontact", "late"}
    /\ rdl \in Deadlines
    /\ probeCb \in {"off", "armed", "running"}
    /\ sctx \in BOOLEAN
    /\ sendLeft \in Nat
    /\ sent \subseteq Seqs
    /\ reader \in {"off", "read", "check", "clear", "done"}
    /\ killer \in {"off", "waiting", "set"}
    /\ errq \subseteq Seqs
    /\ stamps \subseteq Seqs
    /\ result \subseteq Seqs
    /\ cpc \in {"rpc", "punch", "probed", "await", "wait", "sleep", "recv",
                "check", "clear", "done", "failed"}
    /\ try \in 0 .. MaxTry
    /\ crdl \in Deadlines
    /\ cctx \in {"open", "deadline", "cancelled"}
    /\ recvLeft \in Nat
    /\ waker \in {"off", "waiting", "set"}
    /\ age \in 0 .. Grace
    /\ rcvd \subseteq Seqs
    /\ net \subseteq Messages
    /\ sbuf \in BOOLEAN
    /\ cbuf \subseteq Messages

\* StartAt on a server whose clock is behind by skew (ahead, if negative).
OnServer(start, skew) ==
    IF start = None THEN None ELSE IF start + skew < 0 THEN -1 ELSE start + skew

Init ==
    /\ cStart \in StartTimes
    /\ \E skew \in Skews : toStart = OnServer(cStart, skew)
    /\ scancel = FALSE
    /\ ccancel = FALSE
    /\ spc = "start"
    /\ rdl = None
    /\ probeCb = "off"
    /\ sctx = FALSE
    /\ sendLeft = 0
    /\ sent = {}
    /\ reader = "off"
    /\ killer = "off"
    /\ errq = {}
    /\ stamps = {}
    /\ result = {}
    /\ cpc = "rpc"
    /\ try = 0
    /\ crdl = None
    /\ cctx = "open"
    /\ recvLeft = 0
    /\ waker = "off"
    /\ age = Grace     \* tsRcvd is the zero time
    /\ rcvd = {}
    /\ net = {}
    /\ sbuf = FALSE
    /\ cbuf = {}

-----------------------------------------------------------------------------
(***************************************************************************)
(* The server: waitForUDPProbe.                                            *)
(***************************************************************************)
\* How long the server waits for its client.
firstContactDeadline ==
    IF toStart = None THEN FirstWait
    ELSE IF toStart = -1 \/ toStart + Margin < MinWait THEN MinWait
    ELSE toStart + Margin

\* The deadline is set and the callback armed.
ListenForProbe ==
    /\ spc = "start"
    /\ rdl' = firstContactDeadline
    /\ probeCb' = "armed"
    /\ spc' = "probe"
    /\ UNCHANGED <<worldVars, sctx, sendLeft, sent, errq, readerVars, result,
                   clientVars, netVars>>

\* stop(): a callback that already runs is not waited for.
StopProbeCb == probeCb' = IF probeCb = "armed" THEN "off" ELSE probeCb

\* The first packet to arrive opens the test.  From then on the server reads
\* nothing but timestamps, so no other probe is kept in flight.
ReadProbe ==
    /\ spc = "probe"
    /\ sbuf
    /\ rdl # 0
    /\ sbuf' = FALSE
    /\ net' = net \ {Probe}
    /\ spc' = "reply"
    /\ UNCHANGED <<worldVars, rdl, probeCb, sctx, sendLeft, sent, errq,
                   readerVars, result, clientVars, cbuf>>

\* The read times out: the test was cancelled, or no probe came.
ProbeTimesOut ==
    /\ spc = "probe"
    /\ rdl = 0
    /\ spc' = IF scancel THEN "failed" ELSE "nocontact"
    /\ StopProbeCb
    /\ UNCHANGED <<worldVars, rdl, sctx, sendLeft, sent, errq, readerVars,
                   result, clientVars, netVars>>

\* The answer, or a socket error, which ends the test.
ReplyToProbe ==
    /\ spc = "reply"
    /\ StopProbeCb
    /\ \/ /\ net' = net \cup {Reply}
          /\ spc' = "wait"
       \/ /\ spc' = "failed"
          /\ UNCHANGED net
    /\ UNCHANGED <<worldVars, rdl, sctx, sendLeft, sent, errq, readerVars,
                   result, clientVars, sbuf, cbuf>>

\* The callback: the runtime starts it, and it moves the deadline to now.
StartProbeCb ==
    /\ probeCb = "armed"
    /\ scancel
    /\ probeCb' = "running"
    /\ UNCHANGED <<worldVars, spc, rdl, sctx, sendLeft, sent, errq, readerVars,
                   result, clientVars, netVars>>

RunProbeCb ==
    /\ probeCb = "running"
    /\ probeCb' = "off"
    /\ rdl' = 0
    /\ UNCHANGED <<worldVars, spc, sctx, sendLeft, sent, errq, readerVars,
                   result, clientVars, netVars>>

-----------------------------------------------------------------------------
(***************************************************************************)
(* The server: handleSender and the sender's Run.                          *)
(***************************************************************************)
\* waitUntil: where it leads from its head, and when the sleep is over.
AfterHead(start, late) == IF start = -1 THEN late ELSE "sleep"
SleepOver(start, cancel) == cancel \/ start \in {None, 0, -1}

ServerWaits ==
    /\ spc = "wait"
    /\ spc' = AfterHead(toStart, "late")
    /\ UNCHANGED <<worldVars, rdl, probeCb, sctx, sendLeft, sent, errq,
                   readerVars, result, clientVars, netVars>>

ServerWakes ==
    /\ spc = "sleep"
    /\ SleepOver(toStart, scancel)
    /\ spc' = IF scancel THEN "failed" ELSE "arm"
    /\ UNCHANGED <<worldVars, rdl, probeCb, sctx, sendLeft, sent, errq,
                   readerVars, result, clientVars, netVars>>

\* Mutant of StartSender: the probe's deadline stays on the socket.
StartSenderNoDeadline ==
    /\ spc = "arm"
    /\ sendLeft' = Duration
    /\ \/ reader' = "read" /\ killer' = "waiting"
       \/ UNCHANGED <<reader, killer>>
    /\ spc' = "send"
    /\ UNCHANGED <<worldVars, rdl, probeCb, sctx, sent, errq, stamps,
                   result, clientVars, netVars>>

\* SetDeadline and the context of the sender; then its Run starts the
\* reader, unless the kernel does not offer timestamps.
StartSender ==
    /\ spc = "arm"
    /\ rdl' = Safety
    /\ sendLeft' = Duration
    /\ \/ reader' = "read" /\ killer' = "waiting"
       \/ UNCHANGED <<reader, killer>>
    /\ spc' = "send"
    /\ UNCHANGED <<worldVars, probeCb, sctx, sent, errq, stamps, result,
                   clientVars, netVars>>

\* A packet is sent and recorded.
SendPacket ==
    /\ spc = "send"
    /\ Cardinality(sent) < MaxPackets
    /\ sent' = sent \cup {Cardinality(sent)}
    /\ net' = net \cup {Cardinality(sent)}
    /\ UNCHANGED <<worldVars, spc, rdl, probeCb, sctx, sendLeft, errq,
                   readerVars, result, clientVars, sbuf, cbuf>>

\* The sender is done; selectMsgsSent cancels the reader's context.
SenderStops ==
    /\ spc = "send"
    /\ sctx \/ Cardinality(sent) = MaxPackets
    /\ sctx' = TRUE
    /\ spc' = "select"
    /\ UNCHANGED <<worldVars, rdl, probeCb, sendLeft, sent, errq, readerVars,
                   result, clientVars, netVars>>

\* A burst ends early when the socket takes only a part of a batch.
ShortWrite ==
    /\ spc = "send"
    /\ sctx' = TRUE
    /\ spc' = "select"
    /\ UNCHANGED <<worldVars, rdl, probeCb, sendLeft, sent, errq, readerVars,
                   result, clientVars, netVars>>

\* SetDeadline or Run returns an error, and the context is cancelled.
SenderFails ==
    /\ spc \in {"arm", "send"}
    /\ sctx' = TRUE
    /\ spc' = "failed"
    /\ UNCHANGED <<worldVars, rdl, probeCb, sendLeft, sent, errq, readerVars,
                   result, clientVars, netVars>>

\* Mutant of SelectedMsgs: whatever the reader has seen.
SelectedStamps == IF reader = "off" THEN sent ELSE stamps

\* selectMsgsSent: the timestamps, if there are as many as packets.
SelectedMsgs ==
    IF reader = "off" \/ Cardinality(stamps) # Cardinality(sent)
        THEN sent ELSE stamps

\* It waits for the reader's channel.  Then the handler closes the socket.
SelectMsgsSent ==
    /\ spc = "select"
    /\ reader \in {"off", "done"}
    /\ result' = SelectedMsgs
    /\ spc' = "done"
    /\ UNCHANGED <<worldVars, rdl, probeCb, sctx, sendLeft, sent, errq,
                   readerVars, clientVars, netVars>>

-----------------------------------------------------------------------------
(***************************************************************************)
(* The server: TxTsReader.                                                 *)
(***************************************************************************)
\* A batch of timestamps; those that parseOOB rejects are dropped.
ReadStamps ==
    /\ reader = "read"
    /\ errq # {}
    /\ rdl # 0
    /\ ~ServerEnded
    /\ \E parsed \in SUBSET errq : stamps' = stamps \cup parsed
    /\ errq' = {}
    /\ UNCHANGED <<worldVars, spc, rdl, probeCb, sctx, sendLeft, sent, reader,
                   killer, result, clientVars, netVars>>

\* RecvMsgs returns because the deadline has passed or the socket is closed.
ReadEnds ==
    /\ reader = "read"
    /\ \/ rdl = 0 /\ ~ServerEnded /\ reader' = "check"
       \/ ServerEnded /\ reader' = "done"
    /\ UNCHANGED <<worldVars, spc, rdl, probeCb, sctx, sendLeft, sent, errq,
                   killer, stamps, result, clientVars, netVars>>

\* Any other error ends the reader, which still delivers what it has.
ReadFails ==
    /\ reader = "read"
    /\ reader' = "done"
    /\ UNCHANGED <<worldVars, spc, rdl, probeCb, sctx, sendLeft, sent, errq,
                   killer, stamps, result, clientVars, netVars>>

\* Mutant of HandleDeadline: the context is not looked at.
HandleDeadlineAlways ==
    /\ reader \in {"check", "clear"}
    /\ reader' = IF reader = "check" THEN "clear" ELSE "read"
    /\ rdl' = IF reader = "clear" THEN None ELSE rdl
    /\ UNCHANGED <<worldVars, spc, probeCb, sctx, sendLeft, sent, errq, killer,
                   stamps, result, clientVars, netVars>>

\* After a timeout: return if the context is done, else clear the deadline.
\* The context may end between the two.
HandleDeadline ==
    /\ reader \in {"check", "clear"}
    /\ reader' = IF reader = "clear" THEN "read"
                 ELSE IF sctx THEN "done" ELSE "clear"
    /\ rdl' = IF reader = "clear" THEN None ELSE rdl
    /\ UNCHANGED <<worldVars, spc, probeCb, sctx, sendLeft, sent, errq, killer,
                   stamps, result, clientVars, netVars>>

\* The goroutine that waits for the context.
EndReader ==
    /\ killer = "waiting"
    /\ sctx
    /\ rdl' = Drain
    /\ killer' = "set"
    /\ UNCHANGED <<worldVars, spc, probeCb, sctx, sendLeft, sent, errq, reader,
                   stamps, result, clientVars, netVars>>

\* The sender's context expires or is cancelled.
SenderContextDone ==
    /\ spc \in {"send", "select"}
    /\ ~sctx
    /\ scancel \/ sendLeft = 0
    /\ sctx' = TRUE
    /\ UNCHANGED <<worldVars, spc, rdl, probeCb, sendLeft, sent, errq,
                   readerVars, result, clientVars, netVars>>

\* The kernel queues the timestamp of a packet, now or later or never.
Stamp(p) ==
    /\ p \in sent \ (errq \cup stamps)
    /\ reader \in {"read", "check", "clear"}
    /\ errq' = errq \cup {p}
    /\ UNCHANGED <<worldVars, spc, rdl, probeCb, sctx, sendLeft, sent,
                   readerVars, result, clientVars, netVars>>

-----------------------------------------------------------------------------
(***************************************************************************)
(* The client: punchHole.                                                  *)
(***************************************************************************)
\* RequestServer has returned.
StartPunching ==
    /\ cpc = "rpc"
    /\ cpc' = "punch"
    /\ UNCHANGED <<worldVars, serverVars, try, crdl, recvVars, netVars>>

\* Mutants of ProbeWait: StartAt does not bound the wait; one that has passed
\* is not looked for.
ProbeWaitFull == TryTime

ProbeWaitPast == IF cStart = None \/ TryTime <= cStart THEN TryTime ELSE cStart

\* How long an answer is waited for: not past StartAt.
ProbeWait ==
    IF cStart = None \/ TryTime <= cStart THEN TryTime
    ELSE IF cStart = -1 THEN 0 ELSE cStart

\* A probe is written, or the last one has been.
Punch ==
    /\ cpc = "punch"
    /\ \/ /\ try < MaxTry
          /\ try' = try + 1
          /\ net' = IF Listening THEN net \cup {Probe} ELSE net
          /\ cpc' = "probed"
       \/ /\ try = MaxTry
          /\ cpc' = "failed"
          /\ UNCHANGED <<try, net>>
    /\ UNCHANGED <<worldVars, serverVars, crdl, recvVars, sbuf, cbuf>>

\* Then the deadline of the answer is set, and StartAt looked at.
AwaitReply ==
    /\ cpc = "probed"
    /\ crdl' = ProbeWait
    /\ cpc' = IF cStart = -1 THEN "failed" ELSE "await"
    /\ UNCHANGED <<worldVars, serverVars, try, recvVars, netVars>>

\* Any packet is an answer, also the first one of the test.  The counter of
\* the loop is gone.
HearServer ==
    /\ cpc = "await"
    /\ crdl # 0
    /\ \E m \in cbuf : cbuf' = cbuf \ {m}
    /\ crdl' = None
    /\ try' = 0
    /\ cpc' = "wait"
    /\ UNCHANGED <<worldVars, serverVars, recvVars, net, sbuf>>

\* No answer in time: another try.
ProbeUnanswered ==
    /\ cpc = "await"
    /\ crdl = 0
    /\ cpc' = "punch"
    /\ UNCHANGED <<worldVars, serverVars, try, crdl, recvVars, netVars>>

-----------------------------------------------------------------------------
(***************************************************************************)
(* The client: UDPReceiver.                                                *)
(***************************************************************************)
ClientWaits ==
    /\ cpc = "wait"
    /\ cpc' = AfterHead(cStart, "failed")
    /\ UNCHANGED <<worldVars, serverVars, try, crdl, recvVars, netVars>>

\* After the sleep the receiver starts, with a context of its own.
ClientWakes ==
    /\ cpc = "sleep"
    /\ SleepOver(cStart, ccancel)
    /\ cpc' = IF ccancel THEN "failed" ELSE "recv"
    /\ recvLeft' = Timeout
    /\ waker' = IF ccancel THEN "off" ELSE "waiting"
    /\ UNCHANGED <<worldVars, serverVars, try, crdl, cctx, age, rcvd, netVars>>

\* A batch of packets is recorded; a late answer to a probe is not.
Receive ==
    /\ cpc = "recv"
    /\ cbuf # {}
    /\ crdl # 0
    /\ rcvd' = rcvd \cup (cbuf \cap Seqs)
    /\ cbuf' = {}
    /\ age' = 0
    /\ UNCHANGED <<worldVars, serverVars, cpc, try, crdl, cctx, recvLeft,
                   waker, net, sbuf>>

\* RecvMsgs returns because the deadline has passed.
ReceiveTimesOut ==
    /\ cpc = "recv"
    /\ crdl = 0
    /\ cpc' = "check"
    /\ UNCHANGED <<worldVars, serverVars, try, crdl, recvVars, netVars>>

\* Any other error of the socket ends the test, on the client or on the
\* server.
ClientSocketFails ==
    /\ cpc \in {"rpc", "punch", "probed", "await", "recv"}
    /\ cpc' = "failed"
    /\ UNCHANGED <<worldVars, serverVars, try, crdl, recvVars, netVars>>

ServerSocketFails ==
    /\ spc \in {"start", "probe"}
    /\ StopProbeCb
    /\ spc' = "failed"
    /\ UNCHANGED <<worldVars, rdl, sctx, sendLeft, sent, errq, readerVars,
                   result, clientVars, netVars>>

\* Mutant of InGrace: also after an abort.
InGraceAlways == age < Grace

\* A recent packet prolongs the test, but not one that was aborted.
InGrace == cctx = "deadline" /\ age < Grace

\* After a timeout: clear a deadline of unknown origin, prolong, or return.
\* The context may end between the look at it and the clearing.
StopReceiving ==
    /\ cpc \in {"check", "clear"}
    /\ crdl' = IF cpc = "clear" THEN None
               ELSE IF InGrace THEN Grace ELSE crdl
    /\ cpc' = IF cpc = "clear" \/ InGrace THEN "recv"
              ELSE IF cctx = "open" THEN "clear" ELSE "done"
    /\ UNCHANGED <<worldVars, serverVars, try, recvVars, netVars>>

\* The receiver's context ends, for the first of its reasons.
ReceiverContextDone ==
    /\ cpc \in {"recv", "check", "clear"}
    /\ cctx = "open"
    /\ \/ ccancel /\ cctx' = "cancelled"
       \/ recvLeft = 0 /\ cctx' = "deadline"
    /\ UNCHANGED <<worldVars, serverVars, cpc, try, crdl, recvLeft, waker, age,
                   rcvd, netVars>>

\* The goroutine that waits for it.
WakeReceiver ==
    /\ waker = "waiting"
    /\ cctx # "open"
    /\ crdl' = 0
    /\ waker' = "set"
    /\ UNCHANGED <<worldVars, serverVars, cpc, try, cctx, recvLeft, age, rcvd,
                   netVars>>

-----------------------------------------------------------------------------
(***************************************************************************)
(* The network, the clock and the users.                                   *)
(***************************************************************************)
\* A message arrives at a socket where somebody will look for it.
Deliver(m) ==
    /\ m \in net
    /\ net' = net \ {m}
    /\ \/ m = Probe /\ Listening /\ sbuf' = TRUE /\ UNCHANGED cbuf
       \/ m # Probe /\ ~ClientEnded /\ cbuf' = cbuf \cup {m} /\ UNCHANGED sbuf
    /\ UNCHANGED <<worldVars, serverVars, clientVars>>

Less(t) == IF t \in {None, 0} THEN t ELSE t - 1
More(t, max) == IF t < max THEN t + 1 ELSE max
Closer(start) == IF start \in {None, -1} THEN start ELSE start - 1

\* The runtime ends the sender's context at its deadline, or so little later
\* that the safety net, at least twice as long and a minute, still holds.
TimerInTime == spc = "send" /\ ~sctx /\ sendLeft = 0 => rdl # 1

\* Time passes, whatever the goroutines are about to do.
Advance ==
    /\ TimerInTime
    /\ ~(ServerEnded /\ ClientEnded)
    /\ toStart' = Closer(toStart)
    /\ cStart' = Closer(cStart)
    /\ rdl' = Less(rdl)
    /\ crdl' = Less(crdl)
    /\ sendLeft' = Less(sendLeft)
    /\ recvLeft' = Less(recvLeft)
    /\ age' = More(age, Grace)
    /\ UNCHANGED <<scancel, ccancel, spc, probeCb, sctx, sent, errq, reader,
                   killer, stamps, result, cpc, try, cctx, waker, rcvd,
                   netVars>>

\* The user aborts the client; an Abort call or a shutdown cancels the test.
UserAborts ==
    /\ ~ccancel /\ ~ClientEnded
    /\ ccancel' = TRUE
    /\ UNCHANGED <<toStart, cStart, scancel, serverVars, clientVars, netVars>>

CancelTest ==
    /\ ~scancel /\ ~ServerEnded
    /\ scancel' = TRUE
    /\ UNCHANGED <<toStart, cStart, ccancel, serverVars, clientVars, netVars>>

-----------------------------------------------------------------------------
ServerStep ==
    \/ ListenForProbe
    \/ ReadProbe
    \/ ProbeTimesOut
    \/ ReplyToProbe
    \/ ServerWaits
    \/ ServerWakes
    \/ StartSender
    \/ SenderStops
    \/ SelectMsgsSent

ReaderStep == ReadStamps \/ ReadEnds \/ HandleDeadline

CallbackStep ==
    \/ StartProbeCb
    \/ RunProbeCb
    \/ EndReader
    \/ SenderContextDone
    \/ ReceiverContextDone
    \/ WakeReceiver

ClientStep ==
    \/ Punch
    \/ AwaitReply
    \/ HearServer
    \/ ProbeUnanswered
    \/ ClientWaits
    \/ ClientWakes
    \/ Receive
    \/ ReceiveTimesOut
    \/ StopReceiving

Ended == ServerEnded /\ reader \in {"off", "done"} /\ ClientEnded

Next ==
    \/ ServerStep
    \/ ReaderStep
    \/ CallbackStep
    \/ ClientStep
    \/ StartPunching
    \/ SendPacket
    \/ ShortWrite
    \/ SenderFails
    \/ ReadFails
    \/ ServerSocketFails
    \/ ClientSocketFails
    \/ \E p \in Seqs : Stamp(p)
    \/ \E m \in Messages : Deliver(m)
    \/ Advance
    \/ UserAborts
    \/ CancelTest
    \/ Ended /\ UNCHANGED vars

Spec == Init /\ [][Next]_vars

\* Goroutines and timers run; the network, the sender and the clock owe
\* nothing.
GoSpec ==
    Spec /\ WF_vars(ServerStep) /\ WF_vars(ReaderStep)
         /\ WF_vars(CallbackStep) /\ WF_vars(ClientStep)

TimePasses == WF_vars(Advance)

-----------------------------------------------------------------------------
(***************************************************************************)
(* Properties.                                                             *)
(***************************************************************************)
\* Once the goroutine that is to end the timestamp reader has set its
\* deadline, the reader never waits without one: the reader does not clear
\* the very deadline that should wake it (txtsreader.go:84), because the
\* safety net of handleSender outlives the sender.
ReaderCanEnd ==
    killer = "set" /\ reader \in {"read", "check", "clear"} /\ ~ServerEnded =>
        rdl # None /\ reader # "clear"

\* The result of the server is exactly what it sent, whichever of its two
\* records selectMsgsSent chose and however many timestamps were lost, and
\* the client has recorded nothing else.
RecordsAgree ==
    /\ spc = "done" => result = sent
    /\ rcvd \subseteq sent

\* A client that has heard an answer was heard: its server has read a probe
\* and has not given up on it, and is at its own wait for StartAt or beyond.
ContactIsMutual ==
    cpc \in {"wait", "sleep", "recv", "check", "clear", "done"} =>
        spc \notin {"start", "probe", "reply", "nocontact"}

\* If StartAt is given and the server has given up on its client, no answer
\* can reach the client in time any more ("Waiting past this deadline means
\* the client is gone", the comment on firstContactDeadline).
ServerWaitsLonger ==
    spc = "nocontact" /\ toStart # None => cpc # "await" \/ crdl = 0

\* The two sides agree about the first contact, though probes and the answer
\* may be lost, late or out of order, the server's clock is ahead by as much as
\* the margin after StartAt or behind by any time, and either side may be held up
\* between any two steps.
ContactAgreed == ContactIsMutual /\ ServerWaitsLonger

\* The handler on the server and its reader end, whatever the client, the
\* network and the kernel's timestamps do; so does the client, once
\* RequestServer has returned.
BothEnd ==
    TimePasses =>
        /\ <>(ServerEnded /\ reader \in {"off", "done"})
        /\ cpc = "punch" ~> ClientEnded

\* A user's abort ends the receiver without any grace period.
AbortIsPrompt == cctx = "cancelled" ~> ClientEnded
=============================================================================
