----------------------------- MODULE QuicProofs -----------------------------
(***************************************************************************)
(* Proofs about QUIC tests, for any number of packets and any capacity of  *)
(* the tracer's channel: what an end records is complete and in order, and *)
(* the close does not overtake the stream.                                 *)
(***************************************************************************)
EXTENDS MCTests, SequenceTheorems, TLAPS

(***************************************************************************)
(* A QUIC test: what the tracers record.                                   *)
(***************************************************************************)
In(s) == {s[i] : i \in DOMAIN s}
NoRepeats(s) == \A i, j \in DOMAIN s : i # j => s[i] # s[j]
Ascending(s) == \A i, j \in DOMAIN s : i < j => s[i] < s[j]

\* What has been put into the channel of an end, read from it or not.
Traced(e) == qRes[e] \o qBuf[e]

QuicTypes ==
  /\ DOMAIN qMain = QuicSides /\ DOMAIN qReader = QuicSides
  /\ qCtx \in [QuicSides -> BOOLEAN] /\ qErr \in [QuicSides -> BOOLEAN]
  /\ qQuit \in [QuicSides -> BOOLEAN] /\ qLive \in BOOLEAN
  /\ qBuf \in [QuicSides -> Seq(Nat)] /\ qRes \in [QuicSides -> Seq(Nat)]
  /\ qCall \in [QuicSides -> Nat] /\ qSeen \in [QuicSides -> SUBSET Nat]
  /\ qUnit \in Seq(0..QuicUnits)

\* Run, the closing of quit and the reader.
QuicMainInv ==
  \A e \in QuicSides :
    /\ qQuit[e] => qMain[e] \in {"join", "returned"}
    /\ qReader[e] = "done" => qQuit[e]
    /\ qMain[e] = "returned" /\ ~qErr[e] => qReader[e] = "done"

\* A packet is in one place: on its way, in the callback of an end, or traced.
QuicPlaceInv ==
  /\ qNet \subseteq 1..Len(qUnit)
  /\ \A e \in QuicSides :
        /\ qCall[e] \in 0..Len(qUnit)
        /\ In(Traced(e)) \subseteq 1..Len(qUnit)
        /\ qCall[e] \notin In(Traced(e))
  /\ qNet \cap In(Traced("rcv")) = {}
  /\ \A e \in QuicSides : qCall[e] \notin qNet
  /\ qCall["snd"] \notin In(Traced("rcv"))
  /\ qCall["snd"] # 0 => /\ qCall["snd"] # qCall["rcv"]
                         /\ \A p \in In(Traced("snd")) : p < qCall["snd"]

QuicOrderInv ==
  /\ \A e \in QuicSides : NoRepeats(Traced(e))
  /\ Ascending(Traced("snd"))

\* What the callbacks have finished is traced, and read once the reader is done.
QuicSeenInv ==
  \A e \in QuicSides :
    /\ qSeen[e] \subseteq In(Traced(e))
    /\ qReader[e] = "done" => qSeen[e] \subseteq In(qRes[e])

QuicTraceInv == QuicPlaceInv /\ QuicOrderInv /\ QuicSeenInv

\* The close is packed when the sender has closed the connection, and the FIN is
\* sent by a receiver that has read everything, or whose test or whose sender's was
\* cut short.
QuicCloseInv ==
  /\ (0 \in qArrived \/ \E p \in DOMAIN qUnit : qUnit[p] = 0) => QuicClosing
  /\ qFin => QuicAll \subseteq qArrived \/ qCtx["rcv"] \/ qCtx["snd"]
  /\ QuicDelivered

QuicInv == QuicTypes /\ QuicMainInv /\ QuicTraceInv /\ QuicCloseInv

\* Reading a packet moves it from the channel to the result.
LEMMA TracedByRead ==
  ASSUME NEW r \in Seq(Nat), NEW b \in Seq(Nat), b # <<>>
  PROVE  Append(r, Head(b)) \o Tail(b) = r \o b
<1> DEFINE a == Append(r, Head(b))
           l == a \o Tail(b)
           k == r \o b
<1>1. /\ Head(b) = b[1] /\ Head(b) \in Nat /\ Tail(b) \in Seq(Nat)
      /\ Len(b) \in Nat \ {0} /\ Len(Tail(b)) = Len(b) - 1 /\ Len(r) \in Nat
      /\ \A i \in 1..(Len(b) - 1) : Tail(b)[i] = b[i + 1]
  BY HeadTailProperties, EmptySeq, LenProperties
<1>2. /\ a \in Seq(Nat) /\ Len(a) = Len(r) + 1
      /\ \A i \in 1..Len(r) : a[i] = r[i]
      /\ a[Len(r) + 1] = b[1]
  BY <1>1, AppendProperties
<1>3. /\ l \in Seq(Nat) /\ Len(l) = Len(r) + Len(b)
      /\ \A i \in 1..(Len(r) + Len(b)) :
            l[i] = IF i <= Len(r) + 1 THEN a[i]
                                      ELSE Tail(b)[i - (Len(r) + 1)]
  BY <1>1, <1>2, ConcatProperties
<1>4. /\ k \in Seq(Nat) /\ Len(k) = Len(r) + Len(b)
      /\ \A i \in 1..(Len(r) + Len(b)) :
            k[i] = IF i <= Len(r) THEN r[i] ELSE b[i - Len(r)]
  BY <1>1, ConcatProperties
<1> HIDE DEF a, l, k
<1>5. ASSUME NEW i \in 1..(Len(r) + Len(b)) PROVE l[i] = k[i]
  <2>1. CASE i <= Len(r)
    <3>1. i \in 1..Len(r) /\ i <= Len(r) + 1
      BY <1>1, <2>1
    <3>2. l[i] = a[i] /\ a[i] = r[i]
      BY <1>2, <1>3, <3>1
    <3>3. k[i] = r[i]
      BY <1>4, <2>1
    <3>4. QED
      BY <3>2, <3>3
  <2>2. CASE i = Len(r) + 1
    <3>1. l[i] = a[i] /\ a[i] = b[1]
      BY <1>1, <1>2, <1>3, <2>2
    <3>2. i - Len(r) = 1 /\ ~(i <= Len(r))
      BY <1>1, <2>2
    <3>3. k[i] = b[1]
      BY <1>4, <3>2
    <3>4. QED
      BY <3>1, <3>3
  <2>3. CASE i > Len(r) + 1
    <3>1. i - (Len(r) + 1) \in 1..(Len(b) - 1)
      BY <1>1, <2>3
    <3>2. Tail(b)[i - (Len(r) + 1)] = b[(i - (Len(r) + 1)) + 1]
      BY <1>1, <3>1
    <3>3. (i - (Len(r) + 1)) + 1 = i - Len(r)
      BY <1>1
    <3>4. QED
      BY <1>1, <1>3, <1>4, <2>3, <3>2, <3>3
  <2>4. QED
    BY <1>1, <2>1, <2>2, <2>3
<1>6. l = k
  BY <1>3, <1>4, <1>5, SeqEqual
<1>7. QED
  BY <1>6 DEF a, l, k

\* Writing one into the channel appends it to what is traced.
LEMMA TracedByCallback ==
  ASSUME NEW r \in Seq(Nat), NEW b \in Seq(Nat), NEW p \in Nat
  PROVE  r \o Append(b, p) = Append(r \o b, p)
<1>1. <<p>> \in Seq(Nat) /\ r \o b \in Seq(Nat)
  BY ConcatProperties
<1>2. r \o (b \o <<p>>) = (r \o b) \o <<p>>
  BY <1>1, ConcatAssociative
<1>3. QED
  BY <1>1, <1>2, AppendIsConcat

\* A packet that is new to a sequence, and later than all of it.
LEMMA AppendNew ==
  ASSUME NEW s \in Seq(Nat), NEW p \in Nat
  PROVE  /\ In(Append(s, p)) = In(s) \cup {p}
         /\ p \notin In(s) /\ NoRepeats(s) => NoRepeats(Append(s, p))
         /\ (\A x \in In(s) : x < p) /\ Ascending(s) => Ascending(Append(s, p))
<1>1. /\ Append(s, p) \in Seq(Nat) /\ Len(s) \in Nat
      /\ DOMAIN s = 1..Len(s) /\ DOMAIN Append(s, p) = 1..(Len(s) + 1)
      /\ \A i \in 1..Len(s) : Append(s, p)[i] = s[i]
      /\ Append(s, p)[Len(s) + 1] = p
  BY AppendProperties, LenProperties
<1>2. \A i \in 1..(Len(s) + 1) : i \in 1..Len(s) \/ i = Len(s) + 1
  BY <1>1
<1>3. In(Append(s, p)) = In(s) \cup {p}
  BY <1>1, <1>2 DEF In
<1>4. ASSUME p \notin In(s), NoRepeats(s) PROVE NoRepeats(Append(s, p))
  BY <1>1, <1>2, <1>4 DEF In, NoRepeats
<1>5. ASSUME \A x \in In(s) : x < p, Ascending(s) PROVE Ascending(Append(s, p))
  BY <1>1, <1>2, <1>5 DEF In, Ascending
<1>6. QED
  BY <1>3, <1>4, <1>5

\* The parts of a concatenation.
LEMMA InConcat ==
  ASSUME NEW r \in Seq(Nat), NEW b \in Seq(Nat)
  PROVE  /\ In(r) \subseteq In(r \o b)
         /\ NoRepeats(r \o b) => NoRepeats(r)
         /\ Ascending(r \o b) => Ascending(r)
         /\ b = <<>> => r \o b = r
<1>1. /\ DOMAIN r = 1..Len(r) /\ DOMAIN (r \o b) = 1..(Len(r) + Len(b))
      /\ Len(r) \in Nat /\ Len(b) \in Nat
      /\ \A i \in 1..Len(r) : i \in DOMAIN (r \o b) /\ (r \o b)[i] = r[i]
  BY ConcatProperties, LenProperties
<1>2. In(r) \subseteq In(r \o b)
  BY <1>1 DEF In
<1>3. NoRepeats(r \o b) => NoRepeats(r)
  BY <1>1 DEF NoRepeats
<1>4. Ascending(r \o b) => Ascending(r)
  BY <1>1 DEF Ascending
<1>5. b = <<>> => r \o b = r
  BY ConcatEmptySeq
<1>6. QED
  BY <1>2, <1>3, <1>4, <1>5

\* What the tracers have recorded depends on nothing else.
LEMMA QuicTraceKept ==
  ASSUME QuicTraceInv, UNCHANGED <<qBuf, qRes, qCall, qSeen, qUnit, qNet>>,
         \A e \in QuicSides : qReader'[e] = "done" =>
           qReader[e] = "done" \/ In(Traced(e)) \subseteq In(qRes[e])
  PROVE  QuicTraceInv'
<1>1. /\ Traced("snd")' = Traced("snd") /\ Traced("rcv")' = Traced("rcv")
      /\ \A e \in QuicSides : Traced(e)' = Traced(e)
  BY DEF Traced
<1>2. QuicPlaceInv'
  BY <1>1 DEF QuicTraceInv, QuicPlaceInv
<1>3. QuicOrderInv'
  BY <1>1 DEF QuicTraceInv, QuicOrderInv
<1>4. QuicSeenInv'
  BY <1>1 DEF QuicTraceInv, QuicSeenInv
<1>5. QED
  BY <1>2, <1>3, <1>4 DEF QuicTraceInv

\* What a step of Run does before Run waits for the reader.
QuicMove(e) ==
  /\ qMain[e] \notin {"join", "returned"}
  /\ \/ \E failed \in BOOLEAN : QuicFinish(e, failed)
     \/ \E failed \in BOOLEAN : e = "snd" /\ QuicLeave(failed)
     \/ \E pc \in {"accept", "stream", "copy", "fin"} : QuicGoesOn(e, pc)
     \/ /\ qMain' = [qMain EXCEPT ![e] = "returned"]
        /\ qErr' = [qErr EXCEPT ![e] = TRUE] /\ UNCHANGED qQuit
  /\ qLive' \in BOOLEAN
  /\ UNCHANGED <<qCtx, QuicTracer, qUnit, qNet, qArrived>>

LEMMA QuicMoveKeeps ==
  ASSUME QuicInv, NEW e \in QuicSides, QuicMove(e)
  PROVE  /\ QuicTypes' /\ QuicMainInv' /\ QuicTraceInv'
         /\ \A o \in QuicSides \ {e} : qQuit'[o] = qQuit[o] /\ qMain'[o] = qMain[o]
<1> USE DEF QuicInv
<1>1. UNCHANGED <<qCtx, qBuf, qReader, qRes, qCall, qSeen, qUnit, qNet, qArrived>>
  BY DEF QuicMove, QuicTracer
<1>2. /\ DOMAIN qMain' = QuicSides
      /\ qErr' \in [QuicSides -> BOOLEAN] /\ qQuit' \in [QuicSides -> BOOLEAN]
      /\ \A o \in QuicSides \ {e} : /\ qMain'[o] = qMain[o]
                                    /\ qQuit'[o] = qQuit[o] /\ qErr'[o] = qErr[o]
      /\ qQuit'[e] => qMain'[e] \in {"join", "returned"}
      /\ qMain'[e] = "returned" => qErr'[e]
      /\ ~qQuit[e]
  <2>1. ~qQuit[e]
    BY DEF QuicMove, QuicMainInv
  <2>2. ASSUME NEW failed \in BOOLEAN, QuicFinish(e, failed)
        PROVE  <1>2!:
    BY <2>1, <2>2 DEF QuicFinish, QuicTypes
  <2>3. ASSUME NEW pc \in {"accept", "stream", "copy", "fin"}, QuicGoesOn(e, pc)
        PROVE  <1>2!:
    BY <2>1, <2>3 DEF QuicGoesOn, QuicTypes
  <2>4. CASE /\ qMain' = [qMain EXCEPT ![e] = "returned"]
             /\ qErr' = [qErr EXCEPT ![e] = TRUE] /\ UNCHANGED qQuit
    BY <2>1, <2>4 DEF QuicTypes
  <2>5. ASSUME NEW failed \in BOOLEAN, e = "snd", QuicLeave(failed)
        PROVE  <1>2!:
    BY <2>1, <2>5 DEF QuicLeave, QuicTypes
  <2>6. QED
    BY <2>2, <2>3, <2>4, <2>5 DEF QuicMove
<1>3. QuicTypes'
  BY <1>1, <1>2 DEF QuicTypes, QuicMove
<1>4. QuicMainInv'
  BY <1>1, <1>2 DEF QuicMainInv
<1>5. QuicTraceInv'
  BY <1>1, QuicTraceKept
<1>6. QED
  BY <1>2, <1>3, <1>4, <1>5

\* The receiver's Run.
LEMMA QuicReceiverSteps ==
  ASSUME QuicInv,
         QuicListen \/ QuicAccept \/ QuicAcceptStream \/ QuicReadStream \/ QuicBreaks("rcv")
  PROVE  QuicInv'
<1> USE DEF QuicInv
<1>1. QuicMove("rcv")
  BY DEF QuicListen, QuicAccept, QuicAcceptStream, QuicReadStream, QuicBreaks,
     QuicMove, QuicWire, QuicTracer, QuicTypes
<1>2. /\ QuicTypes' /\ QuicMainInv' /\ QuicTraceInv'
      /\ qQuit'["snd"] = qQuit["snd"] /\ qMain'["snd"] = qMain["snd"]
      /\ UNCHANGED <<qCtx, qArrived, qUnit>>
  BY <1>1, QuicMoveKeeps DEF QuicSides, QuicMove
<1>2a. QuicClosing' = QuicClosing
  <2>1. qLive' = qLive
    BY DEF QuicListen, QuicAccept, QuicAcceptStream, QuicReadStream, QuicBreaks,
       QuicWire, QuicTypes
  <2>2. QED
    BY <1>2, <2>1 DEF QuicClosing
<1>3. QuicDelivered'
  BY <1>2, <1>2a DEF QuicCloseInv, QuicDelivered, QuicClosing, QuicAll
<1>4. qFin' => QuicAll \subseteq qArrived \/ qCtx["rcv"] \/ qCtx["snd"]
  <2>1. CASE QuicReadStream
    \* Who is told of the close is told by a sender that has ended.
    BY <2>1 DEF QuicReadStream, QuicCloseInv, QuicDelivered
  <2>2. CASE ~QuicReadStream
    <3>1. qFin' = qFin
      BY <2>2 DEF QuicListen, QuicAccept, QuicAcceptStream, QuicBreaks, QuicWire
    <3>2. QED
      BY <3>1 DEF QuicCloseInv
  <2>3. QED
    BY <2>1, <2>2
<1>5. QED
  BY <1>2, <1>2a, <1>3, <1>4 DEF QuicCloseInv, QuicAll

\* The sender's Run.
LEMMA QuicSenderSteps ==
  ASSUME QuicInv, QuicDial \/ QuicCopied \/ QuicAwaitFin \/ QuicClose \/ QuicBreaks("snd")
  PROVE  QuicInv'
<1> USE DEF QuicInv
<1>1. QuicMove("snd")
  BY DEF QuicDial, QuicCopied, QuicAwaitFin, QuicClose, QuicBreaks, QuicMove,
     QuicWire, QuicTracer, QuicTypes, QuicSides
<1>2. /\ QuicTypes' /\ QuicMainInv' /\ QuicTraceInv'
      /\ UNCHANGED <<qCtx, qArrived, qUnit>>
  BY <1>1, QuicMoveKeeps DEF QuicSides, QuicMove
<1>3. qFin' = qFin
  BY DEF QuicDial, QuicCopied, QuicAwaitFin, QuicClose, QuicBreaks, QuicWire
<1>4. ~qQuit["snd"]
  BY <1>1 DEF QuicMove, QuicMainInv, QuicSides
<1>5. CASE QuicClose
  <2>1. qLive' = qLive /\ qMain["snd"] = "close" /\ qQuit'["snd"]
    BY <1>5 DEF QuicClose, QuicFinish, QuicWire, QuicTypes, QuicSides
  <2>2. QuicClosing' = QuicClosing
    BY <2>1 DEF QuicClosing
  <2>3. QuicCloseInv'
    BY <1>2, <1>3, <2>2 DEF QuicCloseInv, QuicDelivered, QuicClosing, QuicAll
  <2>4. QED
    BY <1>2, <2>3
\* It leaves a standing connection when its test is over, or with the FIN.
<1>6. CASE QuicDial \/ QuicCopied \/ QuicAwaitFin \/ QuicBreaks("snd")
  <2>1. ~QuicClosing
    BY <1>4, <1>6 DEF QuicClosing, QuicDial, QuicCopied, QuicAwaitFin, QuicBreaks
  <2>2. QuicClosing' => qCtx["snd"] \/ qFin
    <3>1. CASE QuicDial
      BY <1>4, <2>1, <3>1 DEF QuicDial, QuicFinish, QuicLeave, QuicGoesOn, QuicClosing,
         QuicTypes, QuicSides
    <3>2. CASE QuicCopied \/ QuicAwaitFin
      BY <1>4, <3>2 DEF QuicCopied, QuicAwaitFin, QuicLeave, QuicGoesOn, QuicClosing,
         QuicTypes, QuicSides
    <3>3. CASE QuicBreaks("snd")
      BY <3>3 DEF QuicBreaks, QuicClosing
    <3>4. QED
      BY <1>6, <3>1, <3>2, <3>3
  <2>3. QuicDelivered'
    BY <1>2, <2>2 DEF QuicCloseInv, QuicDelivered, QuicClosing, QuicAll
  <2>4. QuicCloseInv'
    BY <1>2, <1>3, <2>1, <2>3 DEF QuicCloseInv, QuicAll
  <2>5. QED
    BY <1>2, <2>4
<1>7. QED
  BY <1>5, <1>6

\* Run returns after the reader; the reader ends with an empty channel.
LEMMA QuicReaderSteps ==
  ASSUME QuicInv, NEW e \in QuicSides, QuicJoin(e) \/ QuicReaderEnds(e) \/ QuicRead(e)
  PROVE  QuicInv'
<1> USE DEF QuicInv
<1>1. CASE QuicJoin(e)
  <2>1. /\ UNCHANGED <<qCtx, qErr, qLive, qQuit, qBuf, qReader, qRes, qCall, qSeen,
                       qUnit, qNet, qArrived, qFin>>
        /\ qMain' = [qMain EXCEPT ![e] = "returned"] /\ qReader[e] = "done"
        /\ qMain[e] = "join"
    BY <1>1 DEF QuicJoin, QuicGoesOn, QuicTracer, QuicWire
  <2>2. QuicTypes'
    BY <2>1 DEF QuicTypes
  <2>3. QuicMainInv'
    BY <2>1 DEF QuicMainInv, QuicTypes
  <2>4. QuicTraceInv'
    BY <2>1, QuicTraceKept
  <2>5. QuicCloseInv'
    <3>1. QuicClosing' = QuicClosing
      BY <2>1 DEF QuicClosing, QuicTypes, QuicSides
    <3>2. QED
      BY <2>1, <3>1 DEF QuicCloseInv, QuicDelivered, QuicAll
  <2>6. QED
    BY <2>2, <2>3, <2>4, <2>5
<1>2. CASE QuicReaderEnds(e)
  <2>1. /\ UNCHANGED <<qMain, qCtx, qErr, qLive, qQuit, qBuf, qRes, qCall, qSeen, qUnit,
                       qNet, qArrived, qFin>>
        /\ qReader' = [qReader EXCEPT ![e] = "done"] /\ qQuit[e] /\ qBuf[e] = <<>>
    BY <1>2 DEF QuicReaderEnds, QuicWire
  <2>2. QuicTypes'
    BY <2>1 DEF QuicTypes
  <2>3. QuicMainInv'
    BY <2>1 DEF QuicMainInv, QuicTypes
  <2>4. QuicTraceInv'
    <3>1. Traced(e) = qRes[e]
      BY <2>1, InConcat DEF Traced, QuicTypes
    <3>2. \A o \in QuicSides : qReader'[o] = "done" =>
             qReader[o] = "done" \/ In(Traced(o)) \subseteq In(qRes[o])
      BY <2>1, <3>1 DEF QuicTypes
    <3>3. QED
      BY <2>1, <3>2, QuicTraceKept
  <2>5. QuicCloseInv'
    BY <2>1 DEF QuicCloseInv, QuicDelivered, QuicClosing, QuicAll
  <2>6. QED
    BY <2>2, <2>3, <2>4, <2>5
<1>3. CASE QuicRead(e)
  <2>1. /\ UNCHANGED <<qMain, qCtx, qErr, qLive, qQuit, qReader, qCall, qSeen, qUnit,
                       qNet, qArrived, qFin>>
        /\ qRes' = [qRes EXCEPT ![e] = Append(@, Head(qBuf[e]))]
        /\ qBuf' = [qBuf EXCEPT ![e] = Tail(@)]
        /\ qReader[e] = "read" /\ qBuf[e] # <<>>
    BY <1>3 DEF QuicRead, QuicWire
  <2>2. qRes[e] \in Seq(Nat) /\ qBuf[e] \in Seq(Nat)
    BY DEF QuicTypes
  <2>3. Head(qBuf[e]) \in Nat /\ Tail(qBuf[e]) \in Seq(Nat)
    BY <2>1, <2>2, HeadTailProperties
  <2>4. Append(qRes[e], Head(qBuf[e])) \in Seq(Nat)
    BY <2>2, <2>3, AppendProperties
  <2>5. QuicTypes'
    BY <2>1, <2>3, <2>4 DEF QuicTypes
  <2>6. QuicMainInv'
    BY <2>1 DEF QuicMainInv
  <2>7. \A o \in QuicSides : Traced(o)' = Traced(o)
    <3>1. Traced(e)' = Append(qRes[e], Head(qBuf[e])) \o Tail(qBuf[e])
      BY <2>1 DEF Traced, QuicTypes
    <3>2. Traced(e)' = Traced(e)
      BY <2>1, <2>2, <3>1, TracedByRead DEF Traced
    <3>3. QED
      BY <2>1, <3>2 DEF Traced, QuicTypes
  <2>8. QuicPlaceInv'
    BY <2>1, <2>7 DEF QuicTraceInv, QuicPlaceInv, QuicSides
  <2>9. QuicOrderInv'
    BY <2>7 DEF QuicTraceInv, QuicOrderInv, QuicSides
  <2>10. QuicSeenInv'
    BY <2>1, <2>7 DEF QuicTraceInv, QuicSeenInv, QuicTypes
  <2>11. QuicCloseInv'
    BY <2>1 DEF QuicCloseInv, QuicDelivered, QuicClosing, QuicAll
  <2>12. QED
    BY <2>5, <2>6, <2>8, <2>9, <2>10, <2>11 DEF QuicTraceInv
<1>4. QED
  BY <1>1, <1>2, <1>3

\* What a callback that ends, or a callback that has to wait, does at its end.
QuicTraces(e, p) ==
  /\ Traced(e)' = Append(Traced(e), p)
  /\ qSeen'[e] = IF qQuit[e] THEN qSeen[e] ELSE qSeen[e] \cup {p}
QuicTracesNot(e) ==
  /\ Traced(e)' = Traced(e) /\ qSeen'[e] = qSeen[e]

LEMMA QuicChannel ==
  ASSUME QuicTypes, NEW e \in QuicSides, NEW p \in Nat,
         qBuf' = [qBuf EXCEPT ![e] = Append(@, p)],
         qSeen' = [qSeen EXCEPT ![e] = IF qQuit[e] THEN @ ELSE @ \cup {p}],
         qRes' = qRes
  PROVE  /\ QuicTraces(e, p)
         /\ \A o \in QuicSides \ {e} : QuicTracesNot(o)
         /\ qBuf' \in [QuicSides -> Seq(Nat)] /\ qSeen' \in [QuicSides -> SUBSET Nat]
<1>1. qRes[e] \in Seq(Nat) /\ qBuf[e] \in Seq(Nat)
  BY DEF QuicTypes
<1>2. Append(qBuf[e], p) \in Seq(Nat)
  BY <1>1, AppendProperties
<1>3. Traced(e)' = qRes[e] \o Append(qBuf[e], p)
  BY DEF Traced, QuicTypes
<1>4. Traced(e)' = Append(Traced(e), p)
  BY <1>1, <1>3, TracedByCallback DEF Traced
<1>5. qSeen'[e] = IF qQuit[e] THEN qSeen[e] ELSE qSeen[e] \cup {p}
  BY DEF QuicTypes
<1>6. \A o \in QuicSides \ {e} : QuicTracesNot(o)
  BY DEF QuicTypes, QuicTracesNot, Traced
<1>7. qBuf' \in [QuicSides -> Seq(Nat)] /\ qSeen' \in [QuicSides -> SUBSET Nat]
  BY <1>2 DEF QuicTypes
<1>8. QED
  BY <1>4, <1>5, <1>6, <1>7 DEF QuicTraces

\* A packet that is new to what an end has traced keeps it in order.
LEMMA QuicTraceGrows ==
  ASSUME QuicInv, NEW e \in QuicSides, NEW p \in Nat, p \notin In(Traced(e)),
         e = "snd" => \A x \in In(Traced("snd")) : x < p,
         QuicTraces(e, p) \/ QuicTracesNot(e),
         \A o \in QuicSides \ {e} : QuicTracesNot(o),
         UNCHANGED <<qReader, qRes>>
  PROVE  /\ QuicOrderInv' /\ QuicSeenInv'
         /\ In(Traced(e)') \subseteq In(Traced(e)) \cup {p}
         /\ QuicTracesNot(e) => Traced(e)' = Traced(e)
         /\ \A o \in QuicSides \ {e} : Traced(o)' = Traced(o)
<1> USE DEF QuicInv, QuicTraceInv
<1>1. \A o \in QuicSides : Traced(o) \in Seq(Nat)
  BY ConcatProperties DEF QuicTypes, Traced
<1>2. /\ In(Append(Traced(e), p)) = In(Traced(e)) \cup {p}
      /\ NoRepeats(Append(Traced(e), p))
      /\ e = "snd" => Ascending(Append(Traced(e), p))
  BY <1>1, AppendNew DEF QuicOrderInv
<1>3. \A o \in QuicSides \ {e} : Traced(o)' = Traced(o)
  BY DEF QuicTracesNot
<1>4. /\ NoRepeats(Traced(e)') /\ (e = "snd" => Ascending(Traced(e)'))
      /\ In(Traced(e)) \subseteq In(Traced(e)')
      /\ In(Traced(e)') \subseteq In(Traced(e)) \cup {p}
  BY <1>2 DEF QuicTraces, QuicTracesNot, QuicOrderInv
<1>5. QuicOrderInv'
  BY <1>3, <1>4 DEF QuicOrderInv, QuicSides
<1>6. QuicSeenInv'
  <2>1. ASSUME NEW o \in QuicSides \ {e}
        PROVE  /\ qSeen'[o] \subseteq In(Traced(o)')
               /\ qReader'[o] = "done" => qSeen'[o] \subseteq In(qRes'[o])
    BY <2>1 DEF QuicTracesNot, QuicSeenInv
  <2>2. qSeen'[e] \subseteq In(Traced(e)')
    BY <1>2, <1>4 DEF QuicSeenInv, QuicTraces, QuicTracesNot
  \* Once the reader is done quit is closed, and nothing more is seen.
  <2>3. qReader'[e] = "done" => qSeen'[e] \subseteq In(qRes'[e])
    BY DEF QuicSeenInv, QuicTraces, QuicTracesNot, QuicMainInv
  <2>4. QED
    BY <2>1, <2>2, <2>3 DEF QuicSeenInv
<1>7. QED
  BY <1>3, <1>4, <1>5, <1>6 DEF QuicTracesNot

\* A callback of the library's run loop.
LEMMA QuicCalls ==
  ASSUME QuicTypes, NEW e \in QuicSides, NEW p \in Nat, QuicCallback(e, p),
         qRes' = qRes
  PROVE  /\ \/ QuicTraces(e, p) /\ qCall' = qCall
            \/ QuicTracesNot(e) /\ qCall'[e] = p
         /\ \A o \in QuicSides \ {e} : QuicTracesNot(o) /\ qCall'[o] = qCall[o]
         /\ qBuf' \in [QuicSides -> Seq(Nat)] /\ qSeen' \in [QuicSides -> SUBSET Nat]
         /\ qCall' \in [QuicSides -> Nat]
<1>1. CASE Len(qBuf[e]) < QuicBuffer
  <2>1. /\ qBuf' = [qBuf EXCEPT ![e] = Append(@, p)]
        /\ qSeen' = [qSeen EXCEPT ![e] = IF qQuit[e] THEN @ ELSE @ \cup {p}]
        /\ UNCHANGED qCall
    BY <1>1 DEF QuicCallback
  <2>2. QED
    BY <2>1, QuicChannel DEF QuicTypes
<1>2. CASE ~(Len(qBuf[e]) < QuicBuffer)
  <2>1. qCall' = [qCall EXCEPT ![e] = p] /\ UNCHANGED <<qBuf, qSeen>>
    BY <1>2 DEF QuicCallback
  <2>2. QED
    BY <2>1 DEF QuicTypes, QuicTracesNot, Traced
<1>3. QED
  BY <1>1, <1>2

LEMMA QuicSendStep ==
  ASSUME QuicInv, NEW u \in 0..QuicUnits, QuicSend(u)
  PROVE  QuicInv'
<1> DEFINE n == Len(qUnit) + 1
<1> USE QuicAssumption DEF QuicInv
<1>1. /\ Len(qUnit) \in Nat /\ qUnit' \in Seq(0..QuicUnits) /\ Len(qUnit') = n
      /\ DOMAIN qUnit = 1..Len(qUnit) /\ DOMAIN qUnit' = 1..n
      /\ \A p \in 1..Len(qUnit) : qUnit'[p] = qUnit[p]
      /\ qUnit'[n] = u
  BY AppendProperties, LenProperties DEF QuicSend, QuicTypes
<1>2. /\ UNCHANGED <<qMain, qCtx, qErr, qLive, qQuit, qReader, qRes, qArrived, qFin>>
      /\ qCall["snd"] = 0 /\ QuicCallback("snd", n)
      /\ u = 0 => QuicClosing
  BY <1>1 DEF QuicSend
<1> HIDE DEF n
<1>3. n \in Nat /\ n > Len(qUnit)
  BY <1>1 DEF n
<1>4. /\ \/ QuicTraces("snd", n) /\ qCall' = qCall
         \/ QuicTracesNot("snd") /\ qCall'["snd"] = n
      /\ \A o \in QuicSides \ {"snd"} : QuicTracesNot(o) /\ qCall'[o] = qCall[o]
      /\ qBuf' \in [QuicSides -> Seq(Nat)] /\ qSeen' \in [QuicSides -> SUBSET Nat]
      /\ qCall' \in [QuicSides -> Nat]
  BY <1>2, <1>3, QuicCalls DEF QuicSides
<1>5. \A e \in QuicSides : \A x \in In(Traced(e)) : x \in 1..Len(qUnit)
  BY DEF QuicTraceInv, QuicPlaceInv
<1>6. n \notin In(Traced("snd")) /\ \A x \in In(Traced("snd")) : x < n
  BY <1>1, <1>3, <1>5 DEF QuicSides
<1>7. /\ QuicOrderInv' /\ QuicSeenInv'
      /\ In(Traced("snd")') \subseteq In(Traced("snd")) \cup {n}
      /\ QuicTracesNot("snd") => Traced("snd")' = Traced("snd")
      /\ Traced("rcv")' = Traced("rcv")
  BY <1>2, <1>3, <1>4, <1>6, QuicTraceGrows DEF QuicSides
<1>8. /\ \A x \in qNet' : x \in qNet \/ x = n
      /\ qCall'["snd"] = n => n \notin qNet'
  <2>1. n \notin qNet
    BY <1>3, <1>1 DEF QuicTraceInv, QuicPlaceInv
  <2>2. QuicOut(n)
    BY <1>1 DEF QuicSend
  <2>3. QED
    BY <2>1, <2>2 DEF QuicOut
<1>9. QuicPlaceInv'
  <2>1. qNet' \subseteq 1..Len(qUnit')
    <3>1. 1..Len(qUnit) \subseteq 1..n /\ n \in 1..n
      BY <1>1, <1>3
    <3>2. QED
      BY <1>1, <1>8, <3>1 DEF QuicTraceInv, QuicPlaceInv
  <2>2. qCall'["snd"] \in {0, n} /\ qCall'["rcv"] = qCall["rcv"]
    BY <1>2, <1>4 DEF QuicSides
  <2>3. \A e \in QuicSides : /\ qCall'[e] \in 0..Len(qUnit')
                             /\ In(Traced(e)') \subseteq 1..Len(qUnit')
    BY <1>1, <1>3, <1>5, <1>7, <2>2 DEF QuicTraceInv, QuicPlaceInv, QuicSides
  <2>4. qCall'["snd"] \notin In(Traced("snd")')
    BY <1>1, <1>2, <1>3, <1>4, <1>6, <1>7, <2>3 DEF QuicSides
  <2>5. qCall'["rcv"] \notin In(Traced("rcv")')
    BY <1>7, <2>2 DEF QuicTraceInv, QuicPlaceInv, QuicSides
  <2>6. qNet' \cap In(Traced("rcv")') = {}
    BY <1>1, <1>3, <1>5, <1>7, <1>8 DEF QuicTraceInv, QuicPlaceInv, QuicSides
  <2>7. qCall'["snd"] \notin qNet' /\ qCall'["rcv"] \notin qNet'
    BY <1>1, <1>3, <1>8, <2>1, <2>2 DEF QuicTraceInv, QuicPlaceInv, QuicSides
  <2>8. qCall'["snd"] \notin In(Traced("rcv")')
    BY <1>1, <1>3, <1>5, <1>7, <2>2 DEF QuicSides
  <2>9. qCall'["snd"] # 0 => /\ qCall'["snd"] # qCall'["rcv"]
                             /\ \A x \in In(Traced("snd")') : x < qCall'["snd"]
    <3>1. qCall["rcv"] # n
      BY <1>1, <1>3 DEF QuicTraceInv, QuicPlaceInv, QuicSides
    <3>2. qCall'["snd"] = n => Traced("snd")' = Traced("snd")
      BY <1>2, <1>3, <1>4, <1>7
    <3>3. QED
      BY <1>6, <2>2, <3>1, <3>2
  <2>10. QED
    BY <2>1, <2>3, <2>4, <2>5, <2>6, <2>7, <2>8, <2>9 DEF QuicPlaceInv, QuicSides
<1>10. QuicTypes'
  BY <1>1, <1>2, <1>4 DEF QuicTypes
<1>11. QuicMainInv'
  BY <1>2 DEF QuicMainInv
<1>12. QuicCloseInv'
  <2>1. (\E p \in DOMAIN qUnit' : qUnit'[p] = 0)
           => u = 0 \/ \E p \in DOMAIN qUnit : qUnit[p] = 0
    BY <1>1, <1>3 DEF n
  <2>2. QED
    BY <1>2, <2>1 DEF QuicCloseInv, QuicDelivered, QuicClosing, QuicAll
<1>13. QED
  BY <1>7, <1>9, <1>10, <1>11, <1>12 DEF QuicTraceInv

\* The receiver has a unit once the callback of its packet is over.
LEMMA QuicArrives ==
  ASSUME QuicInv, NEW p \in 1..Len(qUnit), QuicIn(p),
         UNCHANGED <<qMain, qCtx, qLive, qQuit, qUnit, qFin>>
  PROVE  QuicCloseInv'
<1>1. qArrived \subseteq qArrived' /\ qArrived' \subseteq qArrived \cup {qUnit[p]}
  BY DEF QuicIn
<1>2. p \in DOMAIN qUnit
  BY LenProperties DEF QuicInv, QuicTypes
<1>3. 0 \in qArrived' => 0 \in qArrived \/ \E o \in DOMAIN qUnit : qUnit[o] = 0
  BY <1>1, <1>2
<1>4. QED
  BY <1>1, <1>3 DEF QuicInv, QuicCloseInv, QuicDelivered, QuicClosing, QuicAll

LEMMA QuicReceiveStep ==
  ASSUME QuicInv, NEW p \in qNet, QuicReceive(p)
  PROVE  QuicInv'
<1> USE DEF QuicInv
<1>1. /\ UNCHANGED <<qMain, qCtx, qErr, qLive, qQuit, qReader, qRes, qUnit, qFin>>
      /\ qCall["rcv"] = 0 /\ qNet' = qNet \ {p}
      /\ QuicCallback("rcv", p) /\ QuicIn(p)
  BY DEF QuicReceive
<1>2. Len(qUnit) \in Nat
  BY LenProperties DEF QuicTypes
<1>3. /\ p \in 1..Len(qUnit) /\ p \in Nat /\ p # 0
      /\ p \notin In(Traced("rcv")) /\ p # qCall["snd"]
  BY <1>2 DEF QuicTraceInv, QuicPlaceInv, QuicSides
<1>4. /\ \/ QuicTraces("rcv", p) /\ qCall' = qCall
         \/ QuicTracesNot("rcv") /\ qCall'["rcv"] = p
      /\ \A o \in QuicSides \ {"rcv"} : QuicTracesNot(o) /\ qCall'[o] = qCall[o]
      /\ qBuf' \in [QuicSides -> Seq(Nat)] /\ qSeen' \in [QuicSides -> SUBSET Nat]
      /\ qCall' \in [QuicSides -> Nat]
  BY <1>1, <1>3, QuicCalls DEF QuicSides
<1>5. /\ QuicOrderInv' /\ QuicSeenInv'
      /\ In(Traced("rcv")') \subseteq In(Traced("rcv")) \cup {p}
      /\ QuicTracesNot("rcv") => Traced("rcv")' = Traced("rcv")
      /\ Traced("snd")' = Traced("snd")
  BY <1>1, <1>3, <1>4, QuicTraceGrows DEF QuicSides
<1>6. QuicPlaceInv'
  <2>1. qCall'["rcv"] \in {0, p} /\ qCall'["snd"] = qCall["snd"]
    BY <1>1, <1>4 DEF QuicSides
  <2>2. qCall'["rcv"] = p => Traced("rcv")' = Traced("rcv")
    BY <1>1, <1>3, <1>4, <1>5
  <2>3. \A e \in QuicSides : /\ qCall'[e] \in 0..Len(qUnit')
                             /\ In(Traced(e)') \subseteq 1..Len(qUnit')
    BY <1>1, <1>2, <1>3, <1>5, <2>1 DEF QuicTraceInv, QuicPlaceInv, QuicSides
  <2>4. qCall'["rcv"] \notin In(Traced("rcv")')
    BY <1>2, <1>3, <2>1, <2>2, <2>3 DEF QuicSides
  <2>5. QED
    BY <1>1, <1>2, <1>3, <1>5, <2>1, <2>3, <2>4
       DEF QuicTraceInv, QuicPlaceInv, QuicSides
<1>7. QuicTypes'
  BY <1>1, <1>4 DEF QuicTypes
<1>8. QuicMainInv'
  BY <1>1 DEF QuicMainInv
<1>9. QuicCloseInv'
  BY <1>1, <1>3, QuicArrives
<1>10. QED
  BY <1>5, <1>6, <1>7, <1>8, <1>9 DEF QuicTraceInv

\* A callback that has waited.
LEMMA QuicUnblocksStep ==
  ASSUME QuicInv, NEW e \in QuicSides, QuicUnblocks(e)
  PROVE  QuicInv'
<1> DEFINE p == qCall[e]
<1> USE DEF QuicInv
<1>1. /\ UNCHANGED <<qMain, qCtx, qErr, qLive, qQuit, qReader, qRes, qUnit, qFin>>
      /\ p # 0 /\ qCall' = [qCall EXCEPT ![e] = 0]
      /\ IF e = "snd" THEN QuicOut(p) /\ UNCHANGED qArrived
                      ELSE QuicIn(p) /\ UNCHANGED qNet
  BY DEF QuicUnblocks
<1>2. Len(qUnit) \in Nat
  BY LenProperties DEF QuicTypes
<1>3. /\ p \in 1..Len(qUnit) /\ p \in Nat /\ p \notin In(Traced(e))
      /\ e = "snd" => \A x \in In(Traced("snd")) : x < p
  BY <1>1, <1>2 DEF QuicTraceInv, QuicPlaceInv, QuicSides
<1>4. /\ QuicTraces(e, p) \/ QuicTracesNot(e)
      /\ \A o \in QuicSides \ {e} : QuicTracesNot(o)
      /\ qBuf' \in [QuicSides -> Seq(Nat)] /\ qSeen' \in [QuicSides -> SUBSET Nat]
  <2>1. CASE /\ qBuf' = [qBuf EXCEPT ![e] = Append(@, p)]
             /\ qSeen' = [qSeen EXCEPT ![e] = IF qQuit[e] THEN @ ELSE @ \cup {p}]
    BY <1>1, <1>3, <2>1, QuicChannel
  <2>2. CASE UNCHANGED <<qBuf, qSeen>>
    BY <1>1, <2>2 DEF QuicTracesNot, Traced, QuicTypes
  <2>3. QED
    BY <2>1, <2>2 DEF QuicUnblocks
<1>5. /\ QuicOrderInv' /\ QuicSeenInv'
      /\ In(Traced(e)') \subseteq In(Traced(e)) \cup {p}
      /\ \A o \in QuicSides \ {e} : Traced(o)' = Traced(o)
  BY <1>1, <1>3, <1>4, QuicTraceGrows
<1>6. qCall'[e] = 0 /\ \A o \in QuicSides \ {e} : qCall'[o] = qCall[o]
  BY <1>1 DEF QuicTypes
<1>7. QuicPlaceInv'
  <2>1. CASE e = "snd"
    <3>1. \A x \in qNet' : x \in qNet \/ x = p
      BY <1>1, <2>1 DEF QuicOut
    <3>2. qCall'["snd"] = 0 /\ qCall'["rcv"] = qCall["rcv"]
      BY <1>6, <2>1 DEF QuicSides
    <3>3. Traced("rcv")' = Traced("rcv") /\ In(Traced("snd")') \subseteq 1..Len(qUnit)
      BY <1>3, <1>5, <2>1 DEF QuicTraceInv, QuicPlaceInv, QuicSides
    <3>4. p \notin In(Traced("rcv")) /\ p # qCall["rcv"]
      BY <1>1, <2>1 DEF QuicTraceInv, QuicPlaceInv
    <3>5. qNet' \subseteq 1..Len(qUnit) /\ qNet' \cap In(Traced("rcv")) = {}
      BY <1>3, <3>1, <3>4 DEF QuicTraceInv, QuicPlaceInv
    <3>6. 0 \notin qNet' /\ 0 \notin In(Traced("snd")') /\ 0 \notin In(Traced("rcv"))
      BY <3>3, <3>5 DEF QuicTraceInv, QuicPlaceInv, QuicSides
    <3>7. qCall["rcv"] \notin qNet'
      BY <3>1, <3>4 DEF QuicTraceInv, QuicPlaceInv, QuicSides
    <3>8. QED
      BY <1>1, <1>2, <3>2, <3>3, <3>5, <3>6, <3>7
         DEF QuicTraceInv, QuicPlaceInv, QuicSides
  <2>2. CASE e = "rcv"
    <3>1. qNet' = qNet
      BY <1>1, <2>2
    <3>2. qCall'["rcv"] = 0 /\ qCall'["snd"] = qCall["snd"]
      BY <1>6, <2>2 DEF QuicSides
    <3>3. Traced("snd")' = Traced("snd") /\ In(Traced("rcv")') \subseteq 1..Len(qUnit)
      BY <1>3, <1>5, <2>2 DEF QuicTraceInv, QuicPlaceInv, QuicSides
    <3>4. p \notin qNet /\ p # qCall["snd"]
      BY <1>1, <2>2 DEF QuicTraceInv, QuicPlaceInv, QuicSides
    <3>5. qNet \cap In(Traced("rcv")') = {} /\ qCall["snd"] \notin In(Traced("rcv")')
      BY <1>5, <2>2, <3>4 DEF QuicTraceInv, QuicPlaceInv
    <3>6. QED
      BY <1>1, <1>2, <3>1, <3>2, <3>3, <3>5 DEF QuicTraceInv, QuicPlaceInv, QuicSides
  <2>3. QED
    BY <2>1, <2>2 DEF QuicSides
<1>8. QuicTypes'
  BY <1>1, <1>4 DEF QuicTypes
<1>9. QuicMainInv'
  BY <1>1 DEF QuicMainInv
<1>10. QuicCloseInv'
  <2>1. CASE e = "snd"
    BY <1>1, <2>1 DEF QuicCloseInv, QuicDelivered, QuicClosing, QuicAll
  <2>2. CASE e # "snd"
    BY <1>1, <1>3, <2>2, QuicArrives
  <2>3. QED
    BY <2>1, <2>2
<1>11. QED
  BY <1>5, <1>7, <1>8, <1>9, <1>10 DEF QuicTraceInv

LEMMA QuicStep ==
  ASSUME QuicInv, [QuicNext]_quicVars
  PROVE  QuicInv'
<1> USE DEF QuicInv
<1>1. CASE QuicRequest
  <2>1. /\ UNCHANGED <<qCtx, qErr, qLive, qQuit, qBuf, qRes, qCall, qSeen, qUnit, qNet,
                       qArrived, qFin>>
        /\ \A e \in QuicSides : qMain[e] = "off" /\ qReader'[e] = "read"
        /\ \A e \in QuicSides : qMain'[e] \in {"dial", "listen"}
        /\ DOMAIN qMain' = QuicSides /\ DOMAIN qReader' = QuicSides
    BY <1>1 DEF QuicRequest, QuicWire, QuicSides
  <2>2. QuicTypes'
    BY <2>1 DEF QuicTypes
  <2>3. QuicMainInv'
    BY <2>1 DEF QuicMainInv
  <2>4. QuicTraceInv'
    BY <2>1, QuicTraceKept
  <2>5. QuicCloseInv'
    <3>1. QuicClosing' = QuicClosing
      BY <2>1 DEF QuicClosing, QuicSides
    <3>2. QED
      BY <2>1, <3>1 DEF QuicCloseInv, QuicDelivered, QuicAll
  <2>6. QED
    BY <2>2, <2>3, <2>4, <2>5
<1>2. ASSUME NEW e \in QuicSides, QuicExpires(e)
      PROVE  QuicInv'
  <2>1. /\ UNCHANGED <<qMain, qErr, qLive, qQuit, qBuf, qReader, qRes, qCall, qSeen,
                       qUnit, qNet, qArrived, qFin>>
        /\ qCtx' = [qCtx EXCEPT ![e] = TRUE]
    BY <1>2 DEF QuicExpires, QuicTracer, QuicWire
  <2>2. QuicTypes' /\ \A o \in QuicSides : qCtx[o] => qCtx'[o]
    BY <2>1 DEF QuicTypes
  <2>3. QuicMainInv'
    BY <2>1 DEF QuicMainInv
  <2>4. QuicTraceInv'
    BY <2>1, QuicTraceKept
  <2>5. QuicCloseInv'
    BY <2>1, <2>2 DEF QuicCloseInv, QuicDelivered, QuicClosing, QuicAll, QuicSides
  <2>6. QED
    BY <2>2, <2>3, <2>4, <2>5
<1>3. CASE QuicReceiver \/ QuicSender
  BY <1>3, QuicReceiverSteps, QuicSenderSteps, QuicReaderSteps
     DEF QuicReceiver, QuicSender, QuicSides
<1>4. ASSUME NEW e \in QuicSides, QuicBreaks(e)
      PROVE  QuicInv'
  BY <1>4, QuicReceiverSteps, QuicSenderSteps DEF QuicSides
<1>5. CASE UNCHANGED quicVars
  <2>1. UNCHANGED <<qMain, qCtx, qErr, qLive, qQuit, qBuf, qReader, qRes, qCall, qSeen,
                    qUnit, qNet, qArrived, qFin>>
    BY <1>5 DEF quicVars
  <2>2. QuicTypes' /\ QuicMainInv'
    BY <2>1 DEF QuicTypes, QuicMainInv
  <2>3. QuicTraceInv'
    BY <2>1, QuicTraceKept
  <2>4. QuicCloseInv'
    BY <2>1 DEF QuicCloseInv, QuicDelivered, QuicClosing, QuicAll
  <2>5. QED
    BY <2>2, <2>3, <2>4
<1>6. CASE QuicNext
  BY <1>1, <1>2, <1>3, <1>4, <1>6, QuicSendStep, QuicReceiveStep,
     QuicUnblocksStep, QuicReaderSteps DEF QuicNext, QuicReader
<1>7. QED
  BY <1>5, <1>6

LEMMA QuicInit ==
  ASSUME QuicIdle
  PROVE  QuicInv
<1>1. QuicTypes
  BY EmptySeq, QuicAssumption DEF QuicIdle, QuicTypes
<1>2. QuicMainInv
  BY DEF QuicIdle, QuicMainInv
<1>3. \A e \in QuicSides : Traced(e) = <<>>
  BY ConcatEmptySeq, EmptySeq DEF QuicIdle, Traced
<1>4. \A e \in QuicSides : DOMAIN Traced(e) = {} /\ In(Traced(e)) = {}
  BY <1>3, EmptySeq DEF In
<1>5. QuicTraceInv
  BY <1>4, EmptySeq DEF QuicIdle, QuicTraceInv, QuicPlaceInv, QuicOrderInv,
     QuicSeenInv, NoRepeats, Ascending, QuicSides
<1>6. QuicCloseInv
  BY DEF QuicIdle, QuicCloseInv, QuicDelivered, QuicClosing, QuicSides
<1>7. QED
  BY <1>1, <1>2, <1>5, <1>6 DEF QuicInv

\* In every test, a QUIC Run that returns without an error has recorded every
\* packet whose callback was over before quit was closed, once and in the order
\* of the callbacks.
THEOREM RecordsAreComplete == Spec => []QuicRecordComplete
<1>1. Init => QuicInv
  BY QuicInit DEF Init
<1>2. QuicInv /\ [Next]_testVars => QuicInv'
  BY QuicStep DEF Next, testVars
<1>3. QuicInv => QuicRecordComplete
  <2>1. SUFFICES ASSUME QuicInv, NEW e \in QuicSides, qMain[e] = "returned", ~qErr[e]
                 PROVE  /\ qSeen[e] \subseteq In(qRes[e])
                        /\ NoRepeats(qRes[e])
                        /\ e = "snd" => Ascending(qRes[e])
    BY DEF QuicRecordComplete, In, NoRepeats, Ascending
  <2>2. qReader[e] = "done"
    BY <2>1 DEF QuicInv, QuicMainInv
  <2>3. qSeen[e] \subseteq In(qRes[e])
    BY <2>1, <2>2 DEF QuicInv, QuicTraceInv, QuicSeenInv
  <2>4. qRes[e] \in Seq(Nat) /\ qBuf[e] \in Seq(Nat)
    BY <2>1 DEF QuicInv, QuicTypes
  <2>5. NoRepeats(Traced(e)) /\ (e = "snd" => Ascending(Traced(e)))
    BY <2>1 DEF QuicInv, QuicTraceInv, QuicOrderInv
  <2>6. QED
    BY <2>3, <2>4, <2>5, InConcat DEF Traced
<1>4. QED
  BY <1>1, <1>2, <1>3, PTL DEF Spec

\* In every test, if neither end's test was cut short, the QUIC sender closes the
\* connection only after the receiver has read the whole stream.
THEOREM StreamIsDelivered == Spec => []QuicDelivered
<1>1. Init => QuicInv
  BY QuicInit DEF Init
<1>2. QuicInv /\ [Next]_testVars => QuicInv'
  BY QuicStep DEF Next, testVars
<1>3. QuicInv => QuicDelivered
  BY DEF QuicInv, QuicCloseInv
<1>4. QED
  BY <1>1, <1>2, <1>3, PTL DEF Spec
=============================================================================
