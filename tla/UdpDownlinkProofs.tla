------------------------- MODULE UdpDownlinkProofs --------------------------
(***************************************************************************)
(* Proof, for every choice of the durations with Duration < Safety, that   *)
(* the timestamp reader of a downlink sender can always be ended, that the *)
(* records of the two sides agree, and that the server waits for its       *)
(* client for long enough unless its clock is ahead by more than Margin.   *)
(***************************************************************************)
EXTENDS UdpDownlink, FiniteSetTheorems, TLAPS

\* The callback of waitForUDPProbe does not outlive the start of the sender:
\* it is stopped before, unless it runs, and then the test is cancelled.
CallbackInv ==
    /\ probeCb = "running" => scancel
    /\ probeCb = "armed" => spc \in {"probe", "reply"}
    /\ spc \in {"arm", "send", "select", "done"} => probeCb = "off"

\* While the sender's context is open, the socket's read deadline lies
\* beyond it, so that the reader times out only afterwards.
DeadlineInv ==
    /\ spc = "send" /\ ~sctx => rdl # None /\ rdl > sendLeft
    /\ spc \in {"send", "select"} => rdl # None
    /\ spc = "select" => sctx
    /\ reader = "check" => sctx
    /\ reader # "clear"
    /\ reader \in {"read", "check"} => spc \in {"send", "select"} \/ ServerEnded

\* No timestamp and no packet comes from nowhere.
OriginInv ==
    /\ errq \cup stamps \subseteq sent
    /\ (net \cup cbuf) \cap Seqs \subseteq sent

IInv == TypeOK /\ CallbackInv /\ DeadlineInv /\ OriginInv /\ RecordsAgree

-----------------------------------------------------------------------------
\* What is sent is finite, and the next sequence number is one.
LEMMA NextSeq ==
    ASSUME TypeOK, Cardinality(sent) < MaxPackets
    PROVE  Cardinality(sent) \in Seqs
<1>1. IsFiniteSet(Seqs)
  BY FS_Interval, DownlinkAssumption DEF Seqs
<1>2. Cardinality(sent) \in Nat
  BY <1>1, FS_Subset, FS_CardinalityType DEF TypeOK
<1>3. QED
  BY <1>2, DownlinkAssumption DEF Seqs

\* As many timestamps as packets are the timestamps of all packets.
LEMMA SelectedIsSent == ASSUME TypeOK, OriginInv PROVE SelectedMsgs = sent
<1>1. IsFiniteSet(Seqs)
  BY FS_Interval, DownlinkAssumption DEF Seqs
<1>2. IsFiniteSet(sent) /\ stamps \subseteq sent
  BY <1>1, FS_Subset DEF TypeOK, OriginInv
<1>3. Cardinality(stamps) = Cardinality(sent) => stamps = sent
  BY <1>2, FS_Subset
<1>4. QED
  BY <1>3 DEF SelectedMsgs

\* The deadlines are natural numbers.
LEMMA DeadlineTypes ==
    ASSUME TypeOK
    PROVE  firstContactDeadline \in Nat /\ ProbeWait \in Nat
BY DownlinkAssumption DEF TypeOK, firstContactDeadline, ProbeWait

-----------------------------------------------------------------------------
\* The initial state is typed, and every step keeps it so.
LEMMA TypeInit == ASSUME Init PROVE TypeOK
<1>1. /\ cStart \in Nat \cup {None, -1} /\ toStart \in Nat \cup {None, -1}
      /\ age \in 0 .. Grace /\ try \in 0 .. MaxTry
  BY DownlinkAssumption DEF Init, OnServer
<1>2. QED
  BY <1>1 DEF Init, TypeOK, Deadlines

\* ... the steps of the server's handler.
LEMMA TypeServer ==
    ASSUME TypeOK, ServerStep \/ SendPacket \/ ShortWrite \/ SenderFails
                              \/ ServerSocketFails
    PROVE  TypeOK'
<1> USE DownlinkAssumption DEF worldVars, readerVars, serverVars, clientVars,
        recvVars, netVars
<1>1. CASE ListenForProbe
  <2>1. rdl' \in Deadlines
    BY <1>1, DeadlineTypes DEF ListenForProbe, Deadlines
  <2>2. QED
    BY <1>1, <2>1 DEF ListenForProbe, TypeOK
<1>2. CASE ReadProbe
  <2>1. sbuf' \in BOOLEAN /\ spc' = "reply" /\ net' \subseteq net
    BY <1>2 DEF ReadProbe
  <2>2. UNCHANGED <<worldVars, rdl, probeCb, sctx, sendLeft, sent, errq,
                    readerVars, result, clientVars, cbuf>>
    BY <1>2 DEF ReadProbe
  <2>3. QED
    BY <2>1, <2>2 DEF TypeOK
<1>3. CASE ProbeTimesOut
  BY <1>3 DEF ProbeTimesOut, StopProbeCb, TypeOK
<1>4. CASE ReplyToProbe
  BY <1>4 DEF ReplyToProbe, StopProbeCb, TypeOK, Messages
<1>5. CASE ServerWaits
  BY <1>5 DEF ServerWaits, AfterHead, TypeOK
<1>6. CASE ServerWakes
  BY <1>6 DEF ServerWakes, TypeOK
<1>7. CASE StartSender
  BY <1>7 DEF StartSender, TypeOK, Deadlines
<1>8. CASE SenderStops
  BY <1>8 DEF SenderStops, TypeOK
<1>9. CASE SelectMsgsSent
  BY <1>9 DEF SelectMsgsSent, SelectedMsgs, TypeOK
<1>10. CASE SendPacket
  BY <1>10, NextSeq DEF SendPacket, TypeOK, Messages
<1>11. CASE SenderFails
  BY <1>11 DEF SenderFails, TypeOK
<1>14. CASE ShortWrite
  BY <1>14 DEF ShortWrite, TypeOK
<1>12. CASE ServerSocketFails
  BY <1>12 DEF ServerSocketFails, StopProbeCb, TypeOK
<1>13. QED
  BY <1>1, <1>2, <1>3, <1>4, <1>5, <1>6, <1>7, <1>8, <1>9, <1>10, <1>11, <1>12,
     <1>14 DEF ServerStep

\* ... of the reader, the callbacks and the kernel.
LEMMA TypeReader ==
    ASSUME TypeOK,
           ReaderStep \/ CallbackStep \/ ReadFails \/ \E p \in Seqs : Stamp(p)
    PROVE  TypeOK'
<1> USE DownlinkAssumption DEF worldVars, readerVars, serverVars, clientVars,
        recvVars, netVars
<1>1. CASE ReadStamps
  BY <1>1 DEF ReadStamps, TypeOK
<1>2. CASE ReadEnds
  BY <1>2 DEF ReadEnds, TypeOK
<1>3. CASE ReadFails
  BY <1>3 DEF ReadFails, TypeOK
<1>4. CASE HandleDeadline
  BY <1>4 DEF HandleDeadline, TypeOK, Deadlines
<1>5. CASE EndReader
  BY <1>5 DEF EndReader, TypeOK, Deadlines
<1>6. CASE SenderContextDone
  BY <1>6 DEF SenderContextDone, TypeOK
<1>7. CASE \E p \in Seqs : Stamp(p)
  BY <1>7 DEF Stamp, TypeOK
<1>8. CASE StartProbeCb
  BY <1>8 DEF StartProbeCb, TypeOK
<1>9. CASE RunProbeCb
  BY <1>9 DEF RunProbeCb, TypeOK, Deadlines
<1>10. CASE ReceiverContextDone
  BY <1>10 DEF ReceiverContextDone, TypeOK
<1>11. CASE WakeReceiver
  BY <1>11 DEF WakeReceiver, TypeOK, Deadlines
<1>12. QED
  BY <1>1, <1>2, <1>3, <1>4, <1>5, <1>6, <1>7, <1>8, <1>9, <1>10, <1>11
     DEF ReaderStep, CallbackStep

\* ... of the client.
LEMMA TypeClient ==
    ASSUME TypeOK, ClientStep \/ StartPunching \/ ClientSocketFails
    PROVE  TypeOK'
<1> USE DownlinkAssumption DEF worldVars, readerVars, serverVars, clientVars,
        recvVars, netVars
<1>1. CASE Punch
  BY <1>1 DEF Punch, TypeOK, Messages
<1>12. CASE AwaitReply
  BY <1>12, DeadlineTypes DEF AwaitReply, TypeOK, Deadlines
<1>2. CASE HearServer
  BY <1>2 DEF HearServer, TypeOK, Deadlines
<1>3. CASE ProbeUnanswered
  BY <1>3 DEF ProbeUnanswered, TypeOK
<1>4. CASE ClientWaits
  BY <1>4 DEF ClientWaits, AfterHead, TypeOK
<1>5. CASE ClientWakes
  BY <1>5 DEF ClientWakes, TypeOK
<1>6. CASE Receive
  BY <1>6 DEF Receive, TypeOK
<1>7. CASE ReceiveTimesOut
  BY <1>7 DEF ReceiveTimesOut, TypeOK
<1>8. CASE StopReceiving
  BY <1>8 DEF StopReceiving, TypeOK, Deadlines
<1>9. CASE StartPunching
  BY <1>9 DEF StartPunching, TypeOK
<1>10. CASE ClientSocketFails
  BY <1>10 DEF ClientSocketFails, TypeOK
<1>11. QED
  BY <1>1, <1>2, <1>3, <1>4, <1>5, <1>6, <1>7, <1>8, <1>9, <1>10, <1>12
     DEF ClientStep

\* ... of the network, the clock and the users.
LEMMA TypeWorld ==
    ASSUME TypeOK,
           \/ \E m \in Messages : Deliver(m)
           \/ Advance \/ UserAborts \/ CancelTest \/ UNCHANGED vars
    PROVE  TypeOK'
<1> USE DownlinkAssumption DEF worldVars, readerVars, serverVars, clientVars,
        recvVars, netVars
<1>1. CASE \E m \in Messages : Deliver(m)
  <2>1. PICK m \in Messages : Deliver(m)
    BY <1>1
  <2>2. net' \subseteq Messages /\ cbuf' \subseteq Messages /\ sbuf' \in BOOLEAN
    BY <2>1 DEF Deliver, TypeOK
  <2>3. UNCHANGED <<worldVars, serverVars, clientVars>>
    BY <2>1 DEF Deliver
  <2>4. QED
    BY <2>2, <2>3 DEF TypeOK
<1>2. CASE Advance
  <2>1. Less(rdl) \in Deadlines /\ Less(crdl) \in Deadlines
    BY DEF TypeOK, Less, Deadlines
  <2>2. Less(sendLeft) \in Nat /\ Less(recvLeft) \in Nat
    BY DEF TypeOK, Less
  <2>3. /\ toStart' \in Nat \cup {None, -1} /\ cStart' \in Nat \cup {None, -1}
        /\ age' \in 0 .. Grace
    BY <1>2 DEF Advance, TypeOK, More, Closer
  <2>4. QED
    BY <1>2, <2>1, <2>2, <2>3 DEF Advance, TypeOK
<1>3. CASE UserAborts
  BY <1>3 DEF UserAborts, TypeOK
<1>4. CASE CancelTest
  BY <1>4 DEF CancelTest, TypeOK
<1>5. CASE UNCHANGED vars
  BY <1>5 DEF vars, TypeOK
<1>6. QED
  BY <1>1, <1>2, <1>3, <1>4, <1>5

\* ... and so any step.
LEMMA TypeStep == ASSUME TypeOK, [Next]_vars PROVE TypeOK'
BY TypeServer, TypeReader, TypeClient, TypeWorld DEF Next

\* Every variable has its type, whatever the durations are.
THEOREM TypeCorrect == Spec => []TypeOK
<1>1. Init => TypeOK
  BY TypeInit
<1>2. TypeOK /\ [Next]_vars => TypeOK'
  BY TypeStep
<1>3. QED
  BY <1>1, <1>2, PTL DEF Spec

-----------------------------------------------------------------------------
\* The steps of the server's handler.
LEMMA ServerSteps ==
    ASSUME IInv, ServerStep \/ SendPacket \/ ShortWrite \/ SenderFails
                            \/ ServerSocketFails
    PROVE  CallbackInv' /\ DeadlineInv' /\ OriginInv' /\ RecordsAgree'
<1> USE DownlinkAssumption DEF worldVars, readerVars, serverVars, clientVars,
        recvVars, netVars, IInv, ServerEnded
<1>1. CASE ListenForProbe
  BY <1>1 DEF ListenForProbe, TypeOK, CallbackInv, DeadlineInv, OriginInv,
              RecordsAgree
<1>2. CASE ReadProbe
  BY <1>2 DEF ReadProbe, TypeOK, CallbackInv, DeadlineInv, OriginInv,
              RecordsAgree
<1>3. CASE ProbeTimesOut \/ ServerSocketFails
  BY <1>3 DEF ProbeTimesOut, ServerSocketFails, StopProbeCb, TypeOK, CallbackInv,
              DeadlineInv, OriginInv, RecordsAgree
<1>4. CASE ReplyToProbe
  BY <1>4 DEF ReplyToProbe, StopProbeCb, TypeOK, CallbackInv, DeadlineInv,
              OriginInv, RecordsAgree, Seqs
<1>5. CASE ServerWaits \/ ServerWakes
  BY <1>5 DEF ServerWaits, AfterHead, ServerWakes, TypeOK, CallbackInv,
              DeadlineInv, OriginInv, RecordsAgree
<1>6. CASE StartSender
  BY <1>6 DEF StartSender, TypeOK, CallbackInv, DeadlineInv, OriginInv,
              RecordsAgree
<1>7. CASE SenderStops \/ ShortWrite \/ SenderFails
  BY <1>7 DEF SenderStops, ShortWrite, SenderFails, TypeOK, CallbackInv, DeadlineInv,
              OriginInv, RecordsAgree
<1>8. CASE SelectMsgsSent
  BY <1>8, SelectedIsSent DEF SelectMsgsSent, TypeOK, CallbackInv,
              DeadlineInv, OriginInv, RecordsAgree
<1>9. CASE SendPacket
  BY <1>9 DEF SendPacket, TypeOK, CallbackInv, DeadlineInv, OriginInv,
              RecordsAgree
<1>10. QED
  BY <1>1, <1>2, <1>3, <1>4, <1>5, <1>6, <1>7, <1>8, <1>9 DEF ServerStep

\* The steps of the reader, of the callbacks and of the kernel.
LEMMA ReaderSteps ==
    ASSUME IInv,
           ReaderStep \/ CallbackStep \/ ReadFails \/ \E p \in Seqs : Stamp(p)
    PROVE  CallbackInv' /\ DeadlineInv' /\ OriginInv' /\ RecordsAgree'
<1> USE DownlinkAssumption DEF worldVars, readerVars, serverVars, clientVars,
        recvVars, netVars, IInv, ServerEnded
<1>1. CASE ReadStamps
  BY <1>1 DEF ReadStamps, TypeOK, CallbackInv, DeadlineInv, OriginInv,
              RecordsAgree
<1>2. CASE ReadEnds
  <2>1. rdl = 0 /\ ~ServerEnded => sctx
    BY <1>2 DEF ReadEnds, TypeOK, DeadlineInv
  <2>2. QED
    BY <1>2, <2>1 DEF ReadEnds, TypeOK, CallbackInv, DeadlineInv, OriginInv,
                      RecordsAgree
<1>3. CASE HandleDeadline \/ ReadFails
  BY <1>3 DEF HandleDeadline, ReadFails, TypeOK, CallbackInv, DeadlineInv,
              OriginInv, RecordsAgree
<1>4. CASE EndReader
  BY <1>4 DEF EndReader, TypeOK, CallbackInv, DeadlineInv, OriginInv,
              RecordsAgree
<1>5. CASE SenderContextDone
  BY <1>5 DEF SenderContextDone, TypeOK, CallbackInv, DeadlineInv, OriginInv,
              RecordsAgree
<1>6. CASE \E p \in Seqs : Stamp(p)
  BY <1>6 DEF Stamp, TypeOK, CallbackInv, DeadlineInv, OriginInv, RecordsAgree
<1>7. CASE StartProbeCb \/ RunProbeCb
  BY <1>7 DEF StartProbeCb, RunProbeCb, TypeOK, CallbackInv, DeadlineInv,
              OriginInv, RecordsAgree
<1>8. CASE ReceiverContextDone \/ WakeReceiver
  BY <1>8 DEF ReceiverContextDone, WakeReceiver, TypeOK, CallbackInv,
              DeadlineInv, OriginInv, RecordsAgree
<1>9. QED
  BY <1>1, <1>2, <1>3, <1>4, <1>5, <1>6, <1>7, <1>8 DEF ReaderStep, CallbackStep

\* The steps of the client leave the server alone, and its packets come from
\* the network.
LEMMA ClientSteps ==
    ASSUME IInv, ClientStep \/ StartPunching \/ ClientSocketFails
    PROVE  CallbackInv' /\ DeadlineInv' /\ OriginInv' /\ RecordsAgree'
<1> USE DEF IInv
<1>1. UNCHANGED <<worldVars, serverVars>>
  BY DEF ClientStep, StartPunching, ClientSocketFails, Punch, AwaitReply, HearServer,
         ProbeUnanswered, ClientWaits, ClientWakes, Receive, ReceiveTimesOut,
         StopReceiving
<1>2. CallbackInv' /\ DeadlineInv'
  BY <1>1 DEF worldVars, serverVars, readerVars, CallbackInv, DeadlineInv,
              ServerEnded
<1>3. /\ net' \cap Seqs \subseteq net /\ cbuf' \subseteq cbuf
      /\ rcvd' \subseteq rcvd \cup (cbuf \cap Seqs)
  BY DownlinkAssumption DEF ClientStep, StartPunching, ClientSocketFails, Punch,
         AwaitReply, HearServer, ProbeUnanswered, ClientWaits, ClientWakes, Receive,
         ReceiveTimesOut, StopReceiving, netVars, recvVars, Seqs
<1>4. OriginInv' /\ RecordsAgree'
  BY <1>1, <1>3 DEF serverVars, readerVars, OriginInv, RecordsAgree
<1>5. QED
  BY <1>2, <1>4

\* The network, the clock and the users.
LEMMA WorldSteps ==
    ASSUME IInv,
           \/ \E m \in Messages : Deliver(m)
           \/ Advance \/ UserAborts \/ CancelTest \/ UNCHANGED vars
    PROVE  CallbackInv' /\ DeadlineInv' /\ OriginInv' /\ RecordsAgree'
<1> USE DownlinkAssumption DEF worldVars, readerVars, serverVars, clientVars,
        recvVars, netVars, IInv, ServerEnded
<1>1. CASE \E m \in Messages : Deliver(m)
  BY <1>1 DEF Deliver, CallbackInv, DeadlineInv, OriginInv, RecordsAgree
<1>2. CASE Advance
  <2>1. spc = "send" /\ ~sctx => rdl' # None /\ rdl' > sendLeft'
    BY <1>2 DEF Advance, TimerInTime, Less, TypeOK, Deadlines, DeadlineInv
  <2>2. rdl # None => rdl' # None
    BY <1>2 DEF Advance, Less, TypeOK, Deadlines
  <2>3. QED
    BY <1>2, <2>1, <2>2 DEF Advance, CallbackInv, DeadlineInv, OriginInv,
                            RecordsAgree
<1>3. CASE UserAborts \/ CancelTest
  BY <1>3 DEF UserAborts, CancelTest, CallbackInv, DeadlineInv, OriginInv,
              RecordsAgree
<1>4. CASE UNCHANGED vars
  BY <1>4 DEF vars, CallbackInv, DeadlineInv, OriginInv, RecordsAgree
<1>5. QED
  BY <1>1, <1>2, <1>3, <1>4

\* The invariant is inductive, so it holds throughout.
LEMMA Invariant == Spec => []IInv
<1>1. Init => IInv
  <2> SUFFICES ASSUME Init PROVE IInv
    OBVIOUS
  <2>1. CallbackInv /\ DeadlineInv /\ OriginInv /\ RecordsAgree
    BY DEF Init, CallbackInv, DeadlineInv, OriginInv, RecordsAgree, ServerEnded
  <2>2. QED
    BY <2>1, TypeInit DEF IInv
<1>2. IInv /\ [Next]_vars => IInv'
  BY TypeStep, ServerSteps, ReaderSteps, ClientSteps, WorldSteps DEF IInv, Next
<1>3. QED
  BY <1>1, <1>2, PTL DEF Spec

\* For all durations with Duration < Safety, the timestamp reader is never
\* left waiting without the deadline that ends it (TxTsReader.Run).
THEOREM ReaderCanAlwaysEnd == Spec => []ReaderCanEnd
<1>1. IInv => ReaderCanEnd
  BY DEF IInv, TypeOK, DeadlineInv, ReaderCanEnd
<1>2. QED
  BY <1>1, Invariant, PTL

\* For any number of packets, lost packets and lost timestamps, the server
\* reports what it sent, and the client nothing else (selectMsgsSent).
THEOREM RecordsAlwaysAgree == Spec => []RecordsAgree
<1>1. IInv => RecordsAgree
  BY DEF IInv
<1>2. QED
  BY <1>1, Invariant, PTL

-----------------------------------------------------------------------------
\* What is left of StartAt on the client bounds both waits of the first
\* contact: the server's from below, as long as it is not cancelled, and the
\* client's from above.
WaitInv ==
    /\ toStart = None <=> cStart = None
    /\ cStart # None => cStart <= toStart + Margin
    /\ spc = "probe" /\ ~scancel /\ cStart # None => rdl # None /\ rdl >= cStart
    /\ spc = "nocontact" /\ cStart # None => cStart <= 0
    /\ cpc = "await" /\ cStart # None =>
          crdl # None /\ (crdl = 0 \/ crdl <= cStart)
    /\ spc \in {"start", "probe", "reply", "wait", "sleep", "arm"} =>
          reader = "off" /\ killer = "off"

\* Nothing comes from a server that has not answered.
Heard == cpc \in {"wait", "sleep", "recv", "check", "clear", "done"}
Unheard == spc \in {"start", "probe", "reply", "nocontact"}

HeardInv ==
    /\ Unheard => net \cup cbuf \subseteq {Probe}
    /\ Probe \notin cbuf
    /\ Heard => ~Unheard

ContactInv == IInv /\ WaitInv /\ HeardInv

\* The steps of the server.
LEMMA ContactServer ==
    ASSUME ContactInv, ServerStep \/ SendPacket \/ ShortWrite \/ SenderFails
                                  \/ ServerSocketFails
    PROVE  WaitInv' /\ HeardInv'
<1> USE DownlinkAssumption DEF ContactInv, IInv, worldVars, readerVars, serverVars,
        clientVars, recvVars, netVars, Heard, Unheard
<1>1. CASE ListenForProbe
  <2>1. cStart # None => rdl' # None /\ rdl' >= cStart
    BY <1>1 DEF ListenForProbe, firstContactDeadline, TypeOK, WaitInv
  <2>2. QED
    BY <1>1, <2>1 DEF ListenForProbe, WaitInv, HeardInv
<1>2. CASE ReadProbe
  BY <1>2 DEF ReadProbe, WaitInv, HeardInv
<1>3. CASE ProbeTimesOut
  BY <1>3 DEF ProbeTimesOut, TypeOK, WaitInv, HeardInv
<1>4. CASE ReplyToProbe
  BY <1>4 DEF ReplyToProbe, WaitInv, HeardInv
<1>5. CASE ServerWaits
  BY <1>5 DEF ServerWaits, AfterHead, WaitInv, HeardInv
<1>6. CASE ServerWakes
  BY <1>6 DEF ServerWakes, WaitInv, HeardInv
<1>7. CASE StartSender \/ SenderStops \/ SelectMsgsSent
  BY <1>7 DEF StartSender, SenderStops, SelectMsgsSent, WaitInv, HeardInv
<1>8. CASE SendPacket
  BY <1>8, NextSeq DEF SendPacket, WaitInv, HeardInv
<1>9. CASE ShortWrite \/ SenderFails \/ ServerSocketFails
  BY <1>9 DEF ShortWrite, SenderFails, ServerSocketFails, WaitInv, HeardInv
<1>10. QED
  BY <1>1, <1>2, <1>3, <1>4, <1>5, <1>6, <1>7, <1>8, <1>9 DEF ServerStep

\* The steps of the reader, of the callbacks and of the kernel.
LEMMA ContactReader ==
    ASSUME ContactInv,
           ReaderStep \/ CallbackStep \/ ReadFails \/ \E p \in Seqs : Stamp(p)
    PROVE  WaitInv' /\ HeardInv'
<1> USE DownlinkAssumption DEF ContactInv, IInv, worldVars, readerVars,
        serverVars, clientVars, recvVars, netVars, Heard, Unheard
<1>1. CASE ReadStamps \/ ReadEnds \/ ReadFails
  BY <1>1 DEF ReadStamps, ReadEnds, ReadFails, WaitInv, HeardInv
<1>2. CASE HandleDeadline
  BY <1>2 DEF HandleDeadline, WaitInv, HeardInv
<1>3. CASE EndReader
  BY <1>3 DEF EndReader, WaitInv, HeardInv
<1>4. CASE SenderContextDone \/ ReceiverContextDone \/ StartProbeCb
  BY <1>4 DEF SenderContextDone, ReceiverContextDone, StartProbeCb, WaitInv,
              HeardInv
<1>5. CASE RunProbeCb
  BY <1>5 DEF RunProbeCb, CallbackInv, WaitInv, HeardInv
<1>6. CASE WakeReceiver
  BY <1>6 DEF WakeReceiver, WaitInv, HeardInv
<1>7. CASE \E p \in Seqs : Stamp(p)
  BY <1>7 DEF Stamp, WaitInv, HeardInv
<1>8. QED
  BY <1>1, <1>2, <1>3, <1>4, <1>5, <1>6, <1>7 DEF ReaderStep, CallbackStep

\* The steps of the client.
LEMMA ContactClient ==
    ASSUME ContactInv, ClientStep \/ StartPunching \/ ClientSocketFails
    PROVE  WaitInv' /\ HeardInv'
<1> USE DownlinkAssumption DEF ContactInv, IInv, worldVars, readerVars,
        serverVars, clientVars, recvVars, netVars, Heard, Unheard
<1>1. CASE Punch
  BY <1>1 DEF Punch, WaitInv, HeardInv
<1>7. CASE AwaitReply
  <2>1. cpc' = "await" /\ cStart # None => crdl' # None /\ crdl' <= cStart
    BY <1>7 DEF AwaitReply, ProbeWait, TypeOK
  <2>2. QED
    BY <1>7, <2>1 DEF AwaitReply, WaitInv, HeardInv
<1>2. CASE HearServer
  BY <1>2 DEF HearServer, WaitInv, HeardInv
<1>3. CASE ProbeUnanswered \/ ReceiveTimesOut \/ StartPunching
           \/ ClientSocketFails
  BY <1>3 DEF ProbeUnanswered, ReceiveTimesOut, StartPunching,
              ClientSocketFails, WaitInv, HeardInv
<1>4. CASE ClientWaits \/ ClientWakes
  BY <1>4 DEF ClientWaits, AfterHead, ClientWakes, WaitInv, HeardInv
<1>5. CASE Receive \/ StopReceiving
  BY <1>5 DEF Receive, StopReceiving, WaitInv, HeardInv
<1>6. QED
  BY <1>1, <1>2, <1>3, <1>4, <1>5, <1>7 DEF ClientStep

\* The network, the clock and the users.
LEMMA ContactWorld ==
    ASSUME ContactInv,
           \/ \E m \in Messages : Deliver(m)
           \/ Advance \/ UserAborts \/ CancelTest \/ UNCHANGED vars
    PROVE  WaitInv' /\ HeardInv'
<1> USE DownlinkAssumption DEF ContactInv, IInv, worldVars, readerVars,
        serverVars, clientVars, recvVars, netVars, Heard, Unheard
<1>1. CASE \E m \in Messages : Deliver(m)
  BY <1>1 DEF Deliver, WaitInv, HeardInv
<1>2. CASE Advance
  <2>1. /\ toStart' = None <=> cStart' = None
        /\ cStart' # None => cStart' <= toStart' + Margin
    BY <1>2 DEF Advance, Closer, TypeOK, WaitInv
  <2>2. spc = "probe" /\ ~scancel /\ cStart' # None =>
           rdl' # None /\ rdl' >= cStart'
    BY <1>2 DEF Advance, Closer, Less, TypeOK, Deadlines, WaitInv
  <2>3. cpc = "await" /\ cStart' # None =>
           crdl' # None /\ (crdl' = 0 \/ crdl' <= cStart')
    BY <1>2 DEF Advance, Closer, Less, TypeOK, Deadlines, WaitInv
  <2>4. spc = "nocontact" /\ cStart' # None => cStart' <= 0
    BY <1>2 DEF Advance, Closer, TypeOK, WaitInv
  <2>5. WaitInv'
    BY <1>2, <2>1, <2>2, <2>3, <2>4 DEF Advance, WaitInv
  <2>6. HeardInv'
    BY <1>2 DEF Advance, HeardInv
  <2>7. QED
    BY <2>5, <2>6
<1>3. CASE UserAborts \/ CancelTest
  BY <1>3 DEF UserAborts, CancelTest, WaitInv, HeardInv
<1>4. CASE UNCHANGED vars
  BY <1>4 DEF vars, WaitInv, HeardInv
<1>5. QED
  BY <1>1, <1>2, <1>3, <1>4

\* The invariant of the first contact holds throughout.
LEMMA Contact == Spec => [](WaitInv /\ HeardInv)
<1>1. Init => WaitInv /\ HeardInv
  BY DownlinkAssumption DEF Init, OnServer, WaitInv, HeardInv, Heard, Unheard
<1>2. IInv /\ WaitInv /\ HeardInv /\ [Next]_vars => (WaitInv /\ HeardInv)'
  BY ContactServer, ContactReader, ContactClient, ContactWorld
     DEF ContactInv, Next
<1>3. QED
  BY <1>1, <1>2, Invariant, PTL DEF Spec

\* For every choice of the waits, any skew of the clocks that leaves the
\* server ahead by at most Margin, and steps as slow as they like: a client
\* that has heard its server was heard by it, and a server that has given up
\* on its client cannot reach it any more (punchHole, firstContactDeadline).
THEOREM ContactIsAlwaysAgreed == Spec => []ContactAgreed
<1>1. HeardInv => ContactIsMutual
  BY DEF HeardInv, Heard, Unheard, ContactIsMutual
<1>2. TypeOK /\ WaitInv => ServerWaitsLonger
  BY DownlinkAssumption DEF TypeOK, Deadlines, WaitInv, ServerWaitsLonger
<1>3. QED
  BY <1>1, <1>2, Contact, TypeCorrect, PTL DEF ContactAgreed
=============================================================================
