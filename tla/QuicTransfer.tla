---------------------------- MODULE QuicTransfer ----------------------------
(***************************************************************************)
(* A QUIC test: QUICSender, QUICReceiver, and at each end the run loop of  *)
(* the QUIC library, whose tracer callback hands every packet over a       *)
(* buffered channel to ChanReader.Read, which makes the result.  The       *)
(* sender's tracer sees the packets sent, the receiver's those received.   *)
(*                                                                         *)
(* The stream is cut into QuicUnits; every packet carries one, a lost unit *)
(* is sent again in a new packet.  Unit 0 is the packet that closes the    *)
(* connection.  Packets may be lost and overtake each other.               *)
(***************************************************************************)
EXTENDS Integers, Sequences, FiniteSets

CONSTANTS QuicUnits,   \* into how many packets the bytes of the test fit
          QuicPackets, \* how many packets the sender sends at most
          QuicBuffer   \* the capacity of the tracer's channel

ASSUME QuicAssumption ==
  /\ QuicUnits \in Nat \ {0} /\ QuicPackets \in Nat /\ QuicBuffer \in Nat \ {0}

QuicSides == {"snd", "rcv"}

VARIABLES
  qMain,    \* by side: the goroutine that calls Run
  qCtx,     \* by side: its context is done, by timeout or abort
  qErr,     \* by side: Run has an error to return
  qLive,    \* the sender has made a connection, and it has not failed
  qQuit,    \* by side: tracer.quit is closed
  qBuf,     \* by side: sentC or rcvdC
  qReader,  \* by side: ChanReader.Read
  qRes,     \* by side: ChanReader.Result
  qCall,    \* by side: the packet whose callback waits, 0 for none
  qSeen,    \* by side: packets whose callback was over before quit was closed
  qUnit,    \* sequence: what each packet carries
  qNet,     \* packets on their way
  qArrived, \* units the receiver has, and 0 once it knows of the close
  qFin      \* the receiver has closed its side of the stream

quicVars == <<qMain, qCtx, qErr, qLive, qQuit, qBuf, qReader, qRes, qCall,
              qSeen, qUnit, qNet, qArrived, qFin>>

QuicTracer == <<qBuf, qReader, qRes, qCall, qSeen>>
QuicWire == <<qLive, qUnit, qNet, qArrived, qFin>>
QuicAll == 1..QuicUnits

QuicIdle ==
  /\ qMain = [e \in QuicSides |-> "off"]
  /\ qCtx = [e \in QuicSides |-> FALSE] /\ qErr = [e \in QuicSides |-> FALSE]
  /\ qLive = FALSE
  /\ qQuit = [e \in QuicSides |-> FALSE]
  /\ qBuf = [e \in QuicSides |-> <<>>]
  /\ qReader = [e \in QuicSides |-> "off"]
  /\ qRes = [e \in QuicSides |-> <<>>]
  /\ qCall = [e \in QuicSides |-> 0]
  /\ qSeen = [e \in QuicSides |-> {}]
  /\ qUnit = <<>> /\ qNet = {} /\ qArrived = {} /\ qFin = FALSE

\* Both ends have waited for StartAt and call Run, which starts the reader.
QuicRequest ==
  /\ qMain = [e \in QuicSides |-> "off"]
  /\ qMain' = [snd |-> "dial", rcv |-> "listen"]
  /\ qReader' = [e \in QuicSides |-> "read"]
  /\ UNCHANGED <<qCtx, qErr, qQuit, qBuf, qRes, qCall, qSeen,
                 QuicWire>>

\* send or listen has returned: quit is closed, then Run returns the error or waits
\* for the reader.
QuicFinish(e, failed) ==
  /\ qQuit' = [qQuit EXCEPT ![e] = TRUE]
  /\ qErr' = [qErr EXCEPT ![e] = failed]
  /\ qMain' = [qMain EXCEPT ![e] = IF failed THEN "returned" ELSE "join"]

QuicGoesOn(e, pc) ==
  /\ qMain' = [qMain EXCEPT ![e] = pc]
  /\ UNCHANGED <<qQuit, qErr>>

QuicJoin(e) ==
  /\ qMain[e] = "join" /\ qReader[e] = "done"
  /\ QuicGoesOn(e, "returned")
  /\ UNCHANGED <<qCtx, QuicTracer, QuicWire>>

\* Any other error of the connection, its idle timeout among them, is returned.
\* The peer hears nothing of it: there is no connection left to close.
QuicBreaks(e) ==
  /\ qMain[e] \in {"stream", "copy", "fin"}
  /\ QuicFinish(e, TRUE)
  /\ qLive' = (qLive /\ e # "snd")
  /\ UNCHANGED <<qCtx, QuicTracer, qUnit, qNet, qArrived, qFin>>

(***************************************************************************)
(* QUICReceiver.                                                           *)
(***************************************************************************)
\* When Listen fails quit stays open.
QuicListen ==
  /\ qMain["rcv"] = "listen"
  /\ \/ QuicGoesOn("rcv", "accept")
     \/ /\ qMain' = [qMain EXCEPT !["rcv"] = "returned"]
        /\ qErr' = [qErr EXCEPT !["rcv"] = TRUE] /\ UNCHANGED qQuit
  /\ UNCHANGED <<qCtx, QuicTracer, QuicWire>>

QuicAccept ==
  /\ qMain["rcv"] = "accept"
  /\ \/ qLive /\ QuicGoesOn("rcv", "stream")
     \/ qCtx["rcv"] /\ QuicFinish("rcv", TRUE)
  /\ UNCHANGED <<qCtx, QuicTracer, QuicWire>>

\* AcceptStream; the sender may have closed the connection by now.
QuicAcceptStream ==
  /\ qMain["rcv"] = "stream"
  /\ \/ qArrived \cap QuicAll # {} /\ QuicGoesOn("rcv", "copy")
     \/ 0 \in qArrived /\ QuicFinish("rcv", FALSE)
     \/ qCtx["rcv"] /\ QuicFinish("rcv", TRUE)
  /\ UNCHANGED <<qCtx, QuicTracer, QuicWire>>

\* io.Copy ends with the stream, the connection or the test; in each case the
\* receiver closes its side of the stream.
QuicReadStream ==
  /\ qMain["rcv"] = "copy"
  /\ QuicAll \subseteq qArrived \/ 0 \in qArrived \/ qCtx["rcv"]
  /\ QuicFinish("rcv", FALSE)
  /\ qFin' = TRUE
  /\ UNCHANGED <<qCtx, QuicTracer, qLive, qUnit, qNet, qArrived>>

(***************************************************************************)
(* QUICSender.                                                             *)
(***************************************************************************)
\* send is about to return and runs what it has deferred.
QuicLeave(failed) ==
  /\ qErr' = [qErr EXCEPT !["snd"] = failed]
  /\ qMain' = [qMain EXCEPT !["snd"] = "close"]
  /\ UNCHANGED qQuit

\* Dial, and OpenStreamSync, which fails if the test is over by then.
QuicDial ==
  /\ qMain["snd"] = "dial"
  /\ \/ /\ qMain["rcv"] = "accept"
        /\ qLive' = TRUE
        /\ QuicGoesOn("snd", "copy") \/ (qCtx["snd"] /\ QuicLeave(TRUE))
     \/ qCtx["snd"] /\ QuicFinish("snd", TRUE) /\ UNCHANGED qLive
  /\ UNCHANGED <<qCtx, QuicTracer, qUnit, qNet, qArrived, qFin>>

\* CopyN returns when the stream has taken everything, or at the deadline.
QuicCopied ==
  /\ qMain["snd"] = "copy"
  /\ \/ /\ \A u \in QuicAll : \E p \in DOMAIN qUnit : qUnit[p] = u
        /\ QuicGoesOn("snd", "fin")
     \/ qCtx["snd"] /\ QuicLeave(FALSE)
  /\ UNCHANGED <<qCtx, QuicTracer, QuicWire>>

\* Mutant of QuicAwaitFin: the connection is closed once all is written.
QuicAwaitNothing ==
  /\ qMain["snd"] = "fin"
  /\ QuicLeave(FALSE)
  /\ UNCHANGED <<qCtx, QuicTracer, QuicWire>>

\* The sender leaves once it has read the receiver's FIN.
QuicAwaitFin ==
  /\ qMain["snd"] = "fin"
  /\ qFin \/ qCtx["snd"]
  /\ QuicLeave(FALSE)
  /\ UNCHANGED <<qCtx, QuicTracer, QuicWire>>

\* The deferred CloseWithError, whatever send returns.  The library may pack the
\* close before it returns or later, after quit has been closed.
QuicClose ==
  /\ qMain["snd"] = "close"
  /\ QuicFinish("snd", qErr["snd"])
  /\ UNCHANGED <<qCtx, QuicTracer, QuicWire>>

\* The sender has closed the connection.
QuicClosing == qLive /\ (qMain["snd"] = "close" \/ qQuit["snd"])

(***************************************************************************)
(* The library's run loops and the tracer callbacks they make.             *)
(***************************************************************************)
\* The callback for packet p tries the channel, whatever has become of quit;
\* if it is full the loop waits in the callback, and p with it.
QuicCallback(e, p) ==
  IF Len(qBuf[e]) < QuicBuffer
  THEN /\ qBuf' = [qBuf EXCEPT ![e] = Append(@, p)]
       /\ qSeen' = [qSeen EXCEPT ![e] = IF qQuit[e] THEN @ ELSE @ \cup {p}]
       /\ UNCHANGED qCall
  ELSE /\ qCall' = [qCall EXCEPT ![e] = p]
       /\ UNCHANGED <<qBuf, qSeen>>

\* After its callback the packet goes out.
QuicOut(p) ==
  LET gone == {o \in qNet : qUnit'[o] = qUnit'[p]} IN
  qNet' = IF qCall'["snd"] = p THEN qNet \ gone ELSE (qNet \ gone) \cup {p}

\* After its callback the unit of a packet is processed.
QuicIn(p) ==
  qArrived' = IF qCall'["rcv"] = p THEN qArrived ELSE qArrived \cup {qUnit[p]}

\* The sender packs the next unit, or repeats one, or packs the close.
QuicSend(u) ==
  /\ qCall["snd"] = 0 /\ Len(qUnit) < QuicPackets
  /\ \/ u # 0 /\ qMain["snd"] \in {"copy", "fin"}
        /\ \A v \in 1..(u - 1) : \E p \in DOMAIN qUnit : qUnit[p] = v
     \/ u = 0 /\ QuicClosing
        /\ \A p \in DOMAIN qUnit : qUnit[p] # 0
  /\ \A p \in DOMAIN qUnit : qUnit[p] = u => p \in qNet
  /\ qUnit' = Append(qUnit, u)
  /\ QuicCallback("snd", Len(qUnit')) /\ QuicOut(Len(qUnit'))
  /\ UNCHANGED <<qMain, qCtx, qErr, qLive, qQuit, qReader, qRes, qArrived, qFin>>

\* Nothing makes a packet arrive: it may be lost.  The loop outlives listen,
\* until the caller closes the socket.
QuicReceive(p) ==
  /\ qCall["rcv"] = 0
  /\ qMain["rcv"] \notin {"off", "listen", "accept", "returned"}
  /\ qNet' = qNet \ {p}
  /\ QuicCallback("rcv", p) /\ QuicIn(p)
  /\ UNCHANGED <<qMain, qCtx, qErr, qLive, qQuit, qReader, qRes, qUnit, qFin>>

\* Mutant of QuicUnblocks: the waiting callback does not watch quit.
QuicUnblocksByRoom(e) ==
  /\ qCall[e] # 0 /\ Len(qBuf[e]) < QuicBuffer
  /\ qCall' = [qCall EXCEPT ![e] = 0]
  /\ qBuf' = [qBuf EXCEPT ![e] = Append(@, qCall[e])]
  /\ qSeen' = [qSeen EXCEPT ![e] = IF qQuit[e] THEN @ ELSE @ \cup {qCall[e]}]
  /\ UNCHANGED qUnit
  /\ IF e = "snd" THEN QuicOut(qCall[e]) /\ UNCHANGED qArrived
                  ELSE QuicIn(qCall[e]) /\ UNCHANGED qNet
  /\ UNCHANGED <<qMain, qCtx, qErr, qLive, qQuit, qReader, qRes, qFin>>

\* The waiting callback finds room, or quit closed, or has both to choose from.
QuicUnblocks(e) ==
  /\ qCall[e] # 0
  /\ qCall' = [qCall EXCEPT ![e] = 0]
  /\ \/ Len(qBuf[e]) < QuicBuffer
        /\ qBuf' = [qBuf EXCEPT ![e] = Append(@, qCall[e])]
        /\ qSeen' = [qSeen EXCEPT ![e] = IF qQuit[e] THEN @ ELSE @ \cup {qCall[e]}]
     \/ qQuit[e] /\ UNCHANGED <<qBuf, qSeen>>
  /\ UNCHANGED qUnit
  /\ IF e = "snd" THEN QuicOut(qCall[e]) /\ UNCHANGED qArrived
                  ELSE QuicIn(qCall[e]) /\ UNCHANGED qNet
  /\ UNCHANGED <<qMain, qCtx, qErr, qLive, qQuit, qReader, qRes, qFin>>

(***************************************************************************)
(* ChanReader.Read.                                                        *)
(***************************************************************************)
QuicRead(e) ==
  /\ qReader[e] = "read" /\ qBuf[e] # <<>>
  /\ qRes' = [qRes EXCEPT ![e] = Append(@, Head(qBuf[e]))]
  /\ qBuf' = [qBuf EXCEPT ![e] = Tail(@)]
  /\ UNCHANGED <<qMain, qCtx, qErr, qQuit, qReader, qCall, qSeen, QuicWire>>

\* Mutant of QuicReaderEnds: quit ends the reader at once.
QuicReaderEndsAtOnce(e) ==
  /\ qReader[e] = "read" /\ qQuit[e]
  /\ qReader' = [qReader EXCEPT ![e] = "done"]
  /\ UNCHANGED <<qMain, qCtx, qErr, qQuit, qBuf, qRes, qCall, qSeen, QuicWire>>

\* The select may take quit while packets wait in the channel; the reader goes
\* on until nothing has come for 100 ms.
QuicReaderEnds(e) ==
  /\ qReader[e] = "read" /\ qQuit[e] /\ qBuf[e] = <<>>
  /\ qReader' = [qReader EXCEPT ![e] = "done"]
  /\ UNCHANGED <<qMain, qCtx, qErr, qQuit, qBuf, qRes, qCall, qSeen, QuicWire>>

\* The duration is over, with a second more at the receiver, or an abort; it
\* goes unnoticed once send or listen is over.
QuicExpires(e) ==
  /\ qMain[e] \notin {"off", "close", "join", "returned"} /\ ~qCtx[e]
  /\ qCtx' = [qCtx EXCEPT ![e] = TRUE]
  /\ UNCHANGED <<qMain, qErr, qQuit, QuicTracer, QuicWire>>

QuicReceiver ==
  QuicListen \/ QuicAccept \/ QuicAcceptStream \/ QuicReadStream \/ QuicJoin("rcv")
QuicSender ==
  QuicDial \/ QuicCopied \/ QuicAwaitFin \/ QuicClose \/ QuicJoin("snd")
QuicReader(e) == QuicRead(e) \/ QuicReaderEnds(e)

QuicNext ==
  \/ QuicRequest \/ QuicReceiver \/ QuicSender
  \/ \E u \in 0..QuicUnits : QuicSend(u)
  \/ \E p \in qNet : QuicReceive(p)
  \/ \E e \in QuicSides : QuicUnblocks(e)
  \/ \E e \in QuicSides : QuicReader(e)
  \/ \E e \in QuicSides : QuicExpires(e) \/ QuicBreaks(e)

\* While any goroutine can go on, one does (there are finitely many steps);
\* QuicTime is what the clock contributes.
QuicFair ==
  WF_quicVars(\/ QuicReceiver \/ QuicSender
              \/ \E e \in QuicSides : QuicUnblocks(e) \/ QuicReader(e))

QuicTime == WF_quicVars(\E e \in QuicSides : QuicExpires(e))

\* A Run that returns without an error returns every packet whose callback was
\* over before quit was closed, once and in the order of the callbacks, though
\* the reader's select may take quit while packets wait in the channel and the
\* run loop goes on calling back meanwhile.
QuicRecordComplete ==
  \A e \in QuicSides :
    qMain[e] = "returned" /\ ~qErr[e] =>
      /\ qSeen[e] \subseteq {qRes[e][i] : i \in DOMAIN qRes[e]}
      /\ \A i, j \in DOMAIN qRes[e] : i # j => qRes[e][i] # qRes[e][j]
      /\ e = "snd" => \A i, j \in DOMAIN qRes[e] : i < j => qRes[e][i] < qRes[e][j]

\* If neither test was cut short, the connection is closed only after the whole
\* stream has been read: the sender's wait for the receiver's FIN keeps the
\* close from discarding or overtaking the last packets.
QuicDelivered ==
  QuicClosing /\ ~qCtx["snd"] /\ ~qCtx["rcv"] => QuicAll \subseteq qArrived

QuicOver ==
  \A e \in QuicSides :
    /\ qMain[e] = "returned" /\ qCall[e] = 0
    /\ qQuit[e] => qReader[e] = "done"

\* Once their contexts end both Runs return, no run loop is left
\* blocked in a tracer callback, though the reader that makes room for it is
\* gone, and the reader ends unless Listen failed, which never closes quit.
QuicEnds == QuicTime => (qMain["snd"] # "off" ~> QuicOver)
=============================================================================
