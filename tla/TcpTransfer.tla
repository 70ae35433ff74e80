----------------------------- MODULE TcpTransfer -----------------------------
(***************************************************************************)
(* A TCP test: TCPSender at one end, TCPReceiver at the other, and at each *)
(* end runTCPMonitorAndIO with its two goroutines, the monitor that polls  *)
(* TCP_INFO and the one that copies.  On an uplink test the client sends,  *)
(* on a downlink test the server does; the ends differ in who accepts the  *)
(* connection and in who closes it.                                        *)
(*                                                                         *)
(* Time is the phase of the test: 0 before StartAt, 1 while it lasts, 2    *)
(* from the end of its duration, which ends the sender's context, and 3    *)
(* from a second later, which ends the receiver's.                         *)
(***************************************************************************)
EXTENDS Integers

CONSTANTS ByteLimit,  \* the number of bytes of a test that has one
          TcpQueue    \* how many bytes a socket buffers

ASSUME TcpAssumption == ByteLimit \in Nat \ {0} /\ TcpQueue \in Nat \ {0}

TcpSides == {"snd", "rcv"}
TcpPeer(e) == IF e = "snd" THEN "rcv" ELSE "snd"

VARIABLES
  tUplink,   \* does the client send?
  tBytes,    \* TCPSenderParams.Bytes, 0 for no limit
  tPhase,    \* the time
  tMain,     \* by end: the goroutine that calls Run
  tMon,      \* by end: the monitor
  tIo,       \* by end: the copying goroutine
  tErr,      \* by end: who has failed, monitor, io, or with it the result
  tCause,    \* by end: why the monitor's context is done
  tDeadline, \* by end: SetWriteDeadline(now) has been called
  tSock,     \* by end: none, open, closed or reset
  tSent,     \* bytes the sender has written
  tQueue,    \* of these, not acknowledged
  tGaveUp    \* the monitor has stopped waiting for the send queue

tcpVars == <<tUplink, tBytes, tPhase, tMain, tMon, tIo, tErr, tCause,
             tDeadline, tSock, tSent, tQueue, tGaveUp>>

TcpClient == IF tUplink THEN "snd" ELSE "rcv"
TcpServer == TcpPeer(TcpClient)

TcpIdle ==
  /\ tUplink = FALSE /\ tBytes = 0
  /\ tPhase = 0
  /\ tMain = [e \in TcpSides |-> "off"]
  /\ tMon = [e \in TcpSides |-> "off"] /\ tIo = [e \in TcpSides |-> "off"]
  /\ tErr = [e \in TcpSides |-> {}]
  /\ tCause = [e \in TcpSides |-> "none"]
  /\ tDeadline = [e \in TcpSides |-> FALSE]
  /\ tSock = [e \in TcpSides |-> "none"]
  /\ tSent = 0 /\ tQueue = 0 /\ tGaveUp = FALSE

\* RequestServer has returned the listener's port and started the handler.
\* A downlink handler accepts at once, an uplink one after StartAt.
TcpRequest ==
  /\ tMain["snd"] = "off" /\ tMain["rcv"] = "off"
  /\ tUplink' \in BOOLEAN /\ tBytes' \in {0, ByteLimit}
  /\ tMain' = [e \in TcpSides |->
        CASE tUplink' /\ e = "snd" -> "dial"
          [] tUplink' /\ e = "rcv" -> "wait"
          [] ~tUplink' /\ e = "snd" -> "accept"
          [] OTHER -> "dial"]
  /\ UNCHANGED <<tPhase, tMon, tIo, tErr, tCause, tDeadline, tSock,
                 tSent, tQueue, tGaveUp>>

TcpIo == <<tSent, tQueue, tGaveUp>>
TcpConf == <<tUplink, tBytes>>

TcpFail(e) ==
  /\ tMain' = [tMain EXCEPT ![e] = "returned"]
  /\ tErr' = [tErr EXCEPT ![e] = @ \cup {"result"}]

\* runTCPMonitorAndIO starts its two goroutines.  Before that the sender sets
\* its congestion control and its lingering, which may fail.
StartIo(e) ==
  \/ /\ tMain' = [tMain EXCEPT ![e] = "select"]
     /\ tMon' = [tMon EXCEPT ![e] = "poll"]
     /\ tIo' = [tIo EXCEPT ![e] = "copy"]
     /\ UNCHANGED tErr
  \/ e = "snd" /\ TcpFail(e) /\ UNCHANGED <<tMon, tIo>>

(***************************************************************************)
(* The handshake, before the test starts.                                  *)
(***************************************************************************)
\* Neither dial is given the test's context: it lasts until the network has
\* answered, or the kernel gives up, even if the user aborts meanwhile.
TcpDial ==
  /\ tMain[TcpClient] = "dial"
  /\ \/ /\ tMain[TcpServer] # "closed"
        /\ tSock' = [e \in TcpSides |-> "open"]
        /\ tMain' = [tMain EXCEPT ![TcpClient] = "wait"]
        /\ UNCHANGED tErr
     \/ TcpFail(TcpClient) /\ UNCHANGED tSock
  /\ UNCHANGED <<TcpConf, tPhase, tMon, tIo, tCause, tDeadline, TcpIo>>

\* The sending server accepts before it waits for StartAt, until the
\* first-contact deadline, which is not before StartAt, or an abort; the
\* receiving one after it, until its context ends.
TcpAccept ==
  /\ tMain[TcpServer] = "accept"
  /\ \/ /\ tSock[TcpServer] \in {"open", "reset"}
        /\ IF tUplink THEN StartIo(TcpServer)
           ELSE /\ tMain' = [tMain EXCEPT ![TcpServer] = "wait"]
                /\ UNCHANGED <<tErr, tMon, tIo>>
     \/ /\ tCause[TcpServer] # "none" \/ (~tUplink /\ tPhase > 0)
        /\ TcpFail(TcpServer) /\ UNCHANGED <<tMon, tIo>>
  /\ UNCHANGED <<TcpConf, tPhase, tCause, tDeadline, tSock, TcpIo>>

\* waitUntil fails if StartAt has passed, or the context ends before it.
TcpWaitUntil(e) ==
  /\ tMain[e] = "wait"
  /\ \/ tPhase = 0 /\ tMain' = [tMain EXCEPT ![e] = "sleep"] /\ UNCHANGED tErr
     \/ tPhase > 0 /\ TcpFail(e)
  /\ UNCHANGED <<TcpConf, tPhase, tMon, tIo, tCause, tDeadline, tSock, TcpIo>>

TcpWake(e) ==
  /\ tMain[e] = "sleep"
  /\ IF tCause[e] = "canceled" THEN TcpFail(e) /\ UNCHANGED <<tMon, tIo>>
     ELSE /\ tPhase > 0
          /\ IF e = TcpServer /\ tUplink
             THEN /\ tMain' = [tMain EXCEPT ![e] = "accept"]
                  /\ UNCHANGED <<tErr, tMon, tIo>>
             ELSE StartIo(e)
  /\ UNCHANGED <<TcpConf, tPhase, tCause, tDeadline, tSock, TcpIo>>

(***************************************************************************)
(* runTCPMonitorAndIO.                                                     *)
(***************************************************************************)
\* SetWriteDeadline, then wait for the monitor.
StopWriting(e) ==
  /\ tMain' = [tMain EXCEPT ![e] = "join"]
  /\ tDeadline' = [tDeadline EXCEPT ![e] = TRUE]

\* A function that returns cancels the context of its monitor.
CancelMonitor(e, cause) ==
  tCause' = [tCause EXCEPT ![e] = IF @ = "none" THEN cause ELSE @]

SelectMonitor(e) ==
  /\ tMain[e] = "select" /\ tMon[e] = "ended"
  /\ \/ /\ "monitor" \in tErr[e]
        /\ TcpFail(e) /\ CancelMonitor(e, "canceled")
        /\ UNCHANGED tDeadline
     \/ /\ "monitor" \notin tErr[e]
        /\ StopWriting(e)
        /\ UNCHANGED <<tErr, tCause>>
  /\ UNCHANGED <<TcpConf, tPhase, tMon, tIo, tSock, TcpIo>>

SelectIo(e) ==
  /\ tMain[e] = "select" /\ tIo[e] = "ended"
  /\ CancelMonitor(e, "io")
  /\ \/ "io" \in tErr[e] /\ TcpFail(e) /\ UNCHANGED tDeadline
     \/ "io" \notin tErr[e] /\ StopWriting(e) /\ UNCHANGED tErr
  /\ UNCHANGED <<TcpConf, tPhase, tMon, tIo, tSock, TcpIo>>

SelectDone(e) ==
  /\ tMain[e] = "select" /\ tCause[e] \in {"deadline", "canceled"}
  /\ StopWriting(e)
  /\ UNCHANGED <<TcpConf, tPhase, tMon, tIo, tErr, tCause, tSock, TcpIo>>

TcpJoin(e) ==
  /\ tMain[e] = "join" /\ tMon[e] = "ended"
  /\ tMain' = [tMain EXCEPT ![e] = "returned"]
  /\ tErr' = [tErr EXCEPT ![e] =
        IF "monitor" \in @ THEN @ \cup {"result"} ELSE @]
  /\ CancelMonitor(e, "canceled")
  /\ UNCHANGED <<TcpConf, tPhase, tMon, tIo, tDeadline, tSock, TcpIo>>

\* The caller has the result; its deferred Close.  The sender lingers for zero
\* seconds: what is queued is thrown away and the peer is reset, unless the
\* reset is lost (it is not repeated).  A receiver that closes early resets the
\* sender, whose kernel then forgets what was sent and not acknowledged, but not
\* what it had not sent yet.  The receiver on the server closes its listener,
\* never the connection that it has accepted.
CloseConn(e) ==
  /\ tMain[e] = "returned"
  /\ tMain' = [tMain EXCEPT ![e] = "closed"]
  /\ tErr' = [tErr EXCEPT ![e] = {}]
  /\ IF tSock[e] = "none" \/ (e = "rcv" /\ tUplink /\ tMon[e] # "off")
     THEN UNCHANGED <<tSock, tQueue>>
     ELSE \E lost \in BOOLEAN :
          /\ tSock' = [tSock EXCEPT ![e] = "closed",
                ![TcpPeer(e)] = IF @ = "open" /\ ~lost THEN "reset" ELSE @]
          /\ tQueue' \in IF e = "snd" THEN {0}
                        ELSE IF lost THEN {tQueue} ELSE {0, tQueue}
  /\ UNCHANGED <<TcpConf, tPhase, tMon, tIo, tCause, tDeadline, tSent, tGaveUp>>

(***************************************************************************)
(* The monitor.                                                            *)
(***************************************************************************)
\* Nobody looks at an error once Run has returned.
NoteError(e, what, failed) ==
  tErr' = [tErr EXCEPT ![e] =
     IF failed /\ tMain[e] \in {"select", "join"} THEN @ \cup {what} ELSE @]

MonitorEnds(e, failed) ==
  /\ tMon' = [tMon EXCEPT ![e] = "ended"]
  /\ NoteError(e, "monitor", failed)

\* Opening the TCP info connection, or any query, may fail; it does fail on a
\* connection that has been closed.
MonitorFails(e) ==
  /\ tMon[e] \in {"poll", "drain"}
  /\ MonitorEnds(e, TRUE)
  /\ UNCHANGED <<TcpConf, tPhase, tMain, tIo, tCause, tDeadline, tSock,
                 TcpIo>>

\* Mutants of MonitorDone: why the context ended is not looked at, and nobody
\* waits for the send queue, or everybody does.
MonitorDoneAtOnce(e) ==
  /\ tMon[e] = "poll" /\ tCause[e] # "none" /\ tSock[e] # "closed"
  /\ MonitorEnds(e, FALSE)
  /\ UNCHANGED <<TcpConf, tPhase, tMain, tIo, tCause, tDeadline, tSock,
                 TcpIo>>

MonitorDoneDrains(e) ==
  /\ tMon[e] = "poll" /\ tCause[e] # "none" /\ tSock[e] # "closed"
  /\ IF e = "snd"
     THEN tMon' = [tMon EXCEPT ![e] = "drain"] /\ UNCHANGED tErr
     ELSE MonitorEnds(e, FALSE)
  /\ UNCHANGED <<TcpConf, tPhase, tMain, tIo, tCause, tDeadline, tSock,
                 TcpIo>>

\* The sender of a limited number of bytes waits for the send queue, if its
\* test has come to its natural end.
MonitorDone(e) ==
  /\ tMon[e] = "poll" /\ tCause[e] # "none" /\ tSock[e] # "closed"
  /\ \/ /\ e = "snd" /\ tBytes > 0 /\ tCause[e] \in {"io", "deadline"}
        /\ tMon' = [tMon EXCEPT ![e] = "drain"]
        /\ UNCHANGED tErr
     \/ /\ ~(e = "snd" /\ tBytes > 0 /\ tCause[e] \in {"io", "deadline"})
        /\ MonitorEnds(e, FALSE)
  /\ UNCHANGED <<TcpConf, tPhase, tMain, tIo, tCause, tDeadline, tSock,
                 TcpIo>>

Drained ==
  /\ tMon["snd"] = "drain" /\ tQueue = 0 /\ tSock["snd"] # "closed"
  /\ MonitorEnds("snd", FALSE)
  /\ UNCHANGED <<TcpConf, tPhase, tMain, tIo, tCause, tDeadline, tSock,
                 TcpIo>>

\* 60 s may pass before the duration does, or after it.
DrainTimeout ==
  /\ tMon["snd"] = "drain"
  /\ MonitorEnds("snd", FALSE)
  /\ tGaveUp' = TRUE
  /\ UNCHANGED <<TcpConf, tPhase, tMain, tIo, tCause, tDeadline, tSock,
                 tSent, tQueue>>

(***************************************************************************)
(* Copying.                                                                *)
(***************************************************************************)
IoEnds(e, failed) ==
  /\ tIo' = [tIo EXCEPT ![e] = "ended"]
  /\ NoteError(e, "io", failed)

\* Without a limit the sender writes for ever: the model counts no further.
TcpWrite ==
  /\ tIo["snd"] = "copy" /\ tSock["snd"] = "open" /\ ~tDeadline["snd"]
  /\ tQueue < TcpQueue /\ tSent < ByteLimit
  /\ tSent' = tSent + 1 /\ tQueue' = tQueue + 1
  /\ UNCHANGED <<TcpConf, tPhase, tMain, tMon, tIo, tErr, tCause, tDeadline,
                 tSock, tGaveUp>>

WriteEnds ==
  /\ tIo["snd"] = "copy"
  /\ \/ tBytes > 0 /\ tSent = tBytes /\ IoEnds("snd", FALSE)
     \/ tDeadline["snd"] /\ IoEnds("snd", FALSE)
     \/ tSock["snd"] \in {"closed", "reset"} /\ IoEnds("snd", TRUE)
  /\ UNCHANGED <<TcpConf, tPhase, tMain, tMon, tCause, tDeadline, tSock,
                 TcpIo>>

\* A reset is how a test ends; a connection closed under the reader is not.
\* A write deadline does not wake it.
ReadEnds ==
  /\ tIo["rcv"] = "copy" /\ tSock["rcv"] \in {"reset", "closed"}
  /\ IoEnds("rcv", tSock["rcv"] = "closed")
  /\ UNCHANGED <<TcpConf, tPhase, tMain, tMon, tCause, tDeadline, tSock,
                 TcpIo>>

(***************************************************************************)
(* The network, the clock and the user.                                    *)
(***************************************************************************)
\* A byte is acknowledged, which a bad link may delay for ever.
TcpTransmit ==
  /\ tQueue > 0 /\ tSock["rcv"] = "open"
  /\ tQueue' = tQueue - 1
  /\ UNCHANGED <<TcpConf, tPhase, tMain, tMon, tIo, tErr, tCause, tDeadline,
                 tSock, tSent, tGaveUp>>

\* A context with a timeout exists from StartAt on, until its end returns.
TcpExpires(e, phase) ==
  /\ phase = (IF e = "snd" THEN 2 ELSE 3)
  /\ \/ tMain[e] \in {"select", "join"}
     \/ tMain[e] = "accept" /\ e = "rcv"

\* A goroutine wakes up well within the time that one phase lasts.
TcpPasses ==
  /\ tPhase < 3 /\ tMain["snd"] # "off"
  /\ tPhase = 0 \/ \A e \in TcpSides : tMain[e] \notin {"wait", "sleep"}
  /\ tPhase' = tPhase + 1
  /\ tCause' = [e \in TcpSides |->
        IF tCause[e] = "none" /\ TcpExpires(e, tPhase') THEN "deadline"
                                                     ELSE tCause[e]]
  /\ UNCHANGED <<TcpConf, tMain, tMon, tIo, tErr, tDeadline, tSock, TcpIo>>

\* The user's abort at the client, or the Abort call at the server.
TcpAbort(e) ==
  /\ tMain[e] \notin {"off", "returned", "closed"} /\ tCause[e] = "none"
  /\ CancelMonitor(e, "canceled")
  /\ UNCHANGED <<TcpConf, tPhase, tMain, tMon, tIo, tErr, tDeadline, tSock, TcpIo>>

\* What the three goroutines of an end do.
TcpRuns(e) ==
  \/ e = TcpServer /\ TcpAccept
  \/ TcpWaitUntil(e) \/ TcpWake(e)
  \/ SelectMonitor(e) \/ SelectIo(e) \/ SelectDone(e) \/ TcpJoin(e) \/ CloseConn(e)

TcpMonitors(e) ==
  \/ MonitorDone(e)
  \/ e = "snd" /\ Drained
  \/ tSock[e] = "closed" /\ MonitorFails(e)

TcpNext ==
  \/ TcpRequest \/ TcpDial
  \/ \E e \in TcpSides : TcpRuns(e)
  \/ \E e \in TcpSides : MonitorDone(e) \/ MonitorFails(e)
  \/ Drained \/ DrainTimeout
  \/ TcpWrite \/ WriteEnds \/ ReadEnds
  \/ TcpTransmit \/ TcpPasses
  \/ \E e \in TcpSides : TcpAbort(e)

(***************************************************************************)
(* Scheduling: while any goroutine can go on, one does, and TcpTime is     *)
(* what the clock contributes: the phases, the 60 s of the monitor, and    *)
(* the kernel's connect timeout, which ends a dial that nobody answers.  A *)
(* test is a finite number of steps, so this is enough for each goroutine  *)
(* to get its turn.                                                        *)
(***************************************************************************)
TcpFair ==
  WF_tcpVars((\E e \in TcpSides : TcpRuns(e) \/ TcpMonitors(e))
               \/ WriteEnds \/ ReadEnds)

TcpTime == WF_tcpVars(TcpPasses \/ DrainTimeout) /\ WF_tcpVars(TcpDial)

\* A sender of a given number of bytes that ends because it has written them
\* all returns without an error only once the receiver has acknowledged every
\* byte, unless the 60 s of the monitor are over or the receiver has left: the
\* monitor is told why its context ended and drains the queue before the
\* connection is closed with a linger of zero, which would discard it.
TcpAllAcked ==
  ( /\ tMain["snd"] = "returned" /\ "result" \notin tErr["snd"]
    /\ tBytes > 0 /\ tCause["snd"] = "io"
    /\ ~tGaveUp /\ tSock["snd"] = "open" )
    => tSent = tBytes /\ tQueue = 0

TcpOver ==
  /\ \A e \in TcpSides : tMain[e] = "closed"
  /\ tMon["snd"] \in {"off", "ended"} /\ tIo["snd"] \in {"off", "ended"}

\* Whatever fails at either end, and in whatever order the monitor, the copying
\* and the context of runTCPMonitorAndIO end, an aborted sender that does not
\* dial (any more) returns without waiting for the clock, both ends return once
\* the clock runs, and the sender leaves neither its monitor nor its writer
\* behind.
TcpEnds ==
  /\ tCause["snd"] = "canceled" /\ tMain["snd"] # "dial"
        ~> tMain["snd"] = "closed"
  /\ TcpTime => (tMain["snd"] # "off" ~> TcpOver)
=============================================================================
