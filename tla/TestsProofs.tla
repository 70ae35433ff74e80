---------------------------- MODULE TestsProofs ----------------------------
(***************************************************************************)
(* Proofs about the tests that MCTests composes: commands, TCP and ICMP    *)
(* tests, and the rows of the results, for any number of bytes, files,     *)
(* packets and messages.  QUIC tests have a module of their own,           *)
(* QuicProofs.                                                             *)
(***************************************************************************)
EXTENDS MCTests, FiniteSetTheorems, SequenceTheorems, WellFoundedInduction,
        TLAPS

(***************************************************************************)
(* A command and its files.                                                *)
(***************************************************************************)
\* MonitorCommand and the process: success is reported only after Wait, and
\* Wait returns only after the exit.
CmdProcInv ==
  /\ cWaited => cProc # "none" /\ cProc # "running"
  /\ cMain \in {"off", "wait"} => cProc = "none"
  /\ cMain = "done" /\ ~cErr => cWaited
  /\ cOrphan => cProc = "failed"

\* Where the files are: in the directory, in the reply, or at the client.
CmdFileInv ==
  /\ cWritten = cDir \cup cReply \cup cSaved
  /\ cLocal => cReply = {}
  /\ cMain # "done" => cGather = "no" /\ cReply = {} /\ cCut = {} /\ ~cTorn
  /\ cTorn => cErr \/ cOrphan
  /\ cGather = "ok" /\ ~cErr /\ ~cOrphan => cSaved = cWritten
  /\ cCut # {} => cLocal

CmdInv == CmdProcInv /\ CmdFileInv

\* The steps of the monitor up to its return.
LEMMA CmdMonitorSteps ==
  ASSUME CmdInv,
         CmdRequest \/ CmdMonitor \/ CmdStop \/ CmdEscalate \/ CmdAbort
  PROVE  CmdInv'
<1> USE DEF CmdInv, CmdProcInv, CmdFileInv, CmdConf, CmdStore
<1>1. CASE CmdRequest
  BY <1>1 DEF CmdRequest
<1>2. CASE CmdStart
  BY <1>2 DEF CmdStart, CmdReturns
<1>3. CASE CmdExitedEarly
  BY <1>3 DEF CmdExitedEarly, CmdReturns
<1>4. CASE CmdStopped
  BY <1>4 DEF CmdStopped, CmdReturns
<1>5. CASE CmdStop
  BY <1>5 DEF CmdStop
<1>6. CASE CmdEscalate
  <2>1. CASE cMain = "kill"
    BY <1>6, <2>1 DEF CmdEscalate, CmdReturns
  <2>2. CASE cMain # "kill"
    <3>1. cMain \in {"int", "term"}
      BY <1>6, <2>2 DEF CmdEscalate
    <3>2. Strength("int") = 1 /\ Strength("term") = 2
      <4>1. \A i \in 1..3 : Signals[i] = "int" <=> i = 1
        BY DEF Signals
      <4>2. \A i \in 1..3 : Signals[i] = "term" <=> i = 2
        BY DEF Signals
      <4>3. 1 \in 1..3 /\ 2 \in 1..3
        OBVIOUS
      <4>4. Strength("int") = 1
        BY <4>1, <4>3, Zenon DEF Strength
      <4>5. Strength("term") = 2
        BY <4>2, <4>3, Zenon DEF Strength
      <4>6. QED
        BY <4>4, <4>5
    <3>3. cMain' \in {"term", "kill"}
      <4>1. cMain' = Signals[Strength(cMain) + 1]
        BY <1>6, <2>2 DEF CmdEscalate
      <4>2. Signals[2] = "term" /\ Signals[3] = "kill"
        BY DEF Signals
      <4>3. CASE cMain = "int"
        BY <4>1, <4>2, <4>3, <3>2
      <4>4. CASE cMain = "term"
        BY <4>1, <4>2, <4>4, <3>2
      <4>5. QED
        BY <3>1, <4>3, <4>4
    <3>4. UNCHANGED <<cLocal, cErr, cProc, cOrphan, cWaited, CmdStore>>
      BY <1>6, <2>2 DEF CmdEscalate
    <3>5. QED
      BY <3>1, <3>3, <3>4
  <2>3. QED
    BY <2>1, <2>2
<1>7. CASE CmdAbort
  BY <1>7 DEF CmdAbort
<1>8. QED
  BY <1>1, <1>2, <1>3, <1>4, <1>5, <1>6, <1>7 DEF CmdMonitor

\* The steps of the process, and of the goroutine in Wait.
LEMMA CmdProcessSteps ==
  ASSUME CmdInv,
         \/ CmdExits \/ CmdDies \/ CmdWait
         \/ \E f \in CmdFiles : CmdCreates(f)
  PROVE  CmdInv'
<1> USE DEF CmdInv, CmdProcInv, CmdFileInv, CmdConf, CmdStore
<1>1. CASE CmdExits
  BY <1>1 DEF CmdExits
<1>2. CASE CmdDies
  <2>1. cProc = "running" /\ cProc' = "failed"
    BY <1>2 DEF CmdDies
  <2>2. UNCHANGED <<cLocal, cMain, cErr, cWaited, CmdStore>>
    BY <1>2 DEF CmdDies
  \* MonitorCommand has not reported success.
  <2>3. ~(cMain = "done" /\ ~cErr) /\ ~cOrphan
    BY <2>1
  <2>4. QED
    BY <2>1, <2>2, <2>3
<1>3. CASE CmdWait
  BY <1>3 DEF CmdWait
<1>4. ASSUME NEW f \in CmdFiles, CmdCreates(f)
      PROVE  CmdInv'
  <2>1. /\ cProc = "running" \/ cOrphan
        /\ UNCHANGED <<cLocal, cMain, cErr, cProc, cOrphan, cWaited, cGather,
                       cReply, cSaved, cCut, cTorn>>
    BY <1>4 DEF CmdCreates
  <2>2. cWritten' = cDir' \cup cReply' \cup cSaved'
    BY <1>4 DEF CmdCreates
  \* A command that still runs has not been waited for.
  <2>3. ~(cGather = "ok" /\ ~cErr /\ ~cOrphan)
    BY <2>1
  <2>4. QED
    BY <2>1, <2>2, <2>3
<1>5. QED
  BY <1>1, <1>2, <1>3, <1>4

\* The steps of Gather.
LEMMA CmdGatherSteps ==
  ASSUME CmdInv,
         \/ CmdGather \/ CmdCollectFails \/ CmdGathered
         \/ \E f \in CmdFiles : CmdCollect(f)
  PROVE  CmdInv'
<1> USE DEF CmdInv, CmdProcInv, CmdFileInv, CmdConf
<1>1. CASE CmdGather
  BY <1>1 DEF CmdGather
<1>2. CASE CmdCollectFails
  BY <1>2 DEF CmdCollectFails
<1>3. CASE CmdGathered
  BY <1>3 DEF CmdGathered
<1>4. ASSUME NEW f \in CmdFiles, CmdCollect(f)
      PROVE  CmdInv'
  <2>1. /\ cGather = "busy" /\ f \in cDir
        /\ UNCHANGED <<cLocal, cMain, cErr, cProc, cOrphan, cWaited, cWritten,
                       cGather>>
    BY <1>4 DEF CmdCollect
  <2>2. cWritten' = cDir' \cup cReply' \cup cSaved'
    BY <1>4, <2>1 DEF CmdCollect
  <2>3. (cLocal' => cReply' = {}) /\ (cCut' # {} => cLocal')
    BY <1>4 DEF CmdCollect
  <2>4. cTorn' => cErr' \/ cOrphan'
    <3>1. cTorn' => cTorn \/ cProc = "running" \/ cOrphan
      BY <1>4, Zenon DEF CmdCollect
    <3>2. cErr \/ cProc # "running"
      BY <2>1
    <3>3. QED
      BY <2>1, <3>1, <3>2
  <2>5. QED
    BY <2>1, <2>2, <2>3, <2>4
<1>5. QED
  BY <1>1, <1>2, <1>3, <1>4

LEMMA CmdStep ==
  ASSUME CmdInv, [CmdNext]_cmdVars
  PROVE  CmdInv'
<1>1. CASE CmdNext
  BY <1>1, CmdMonitorSteps, CmdProcessSteps, CmdGatherSteps DEF CmdNext
<1>2. CASE UNCHANGED cmdVars
  BY <1>2 DEF CmdInv, CmdProcInv, CmdFileInv, cmdVars
<1>3. QED
  BY <1>1, <1>2

\* In every test, if Run and Gather both succeed and no child outlived SIGKILL,
\* the client has a copy of every file the command wrote and none was read
\* before the command had exited; a file of a local capture is in its directory
\* or has its copy, and only such a copy may lack its end.
THEOREM CapturesAreComplete == Spec => []CmdCapture
<1>1. Init => CmdInv
  BY DEF Init, CmdIdle, CmdInv, CmdProcInv, CmdFileInv
<1>2. CmdInv /\ [Next]_testVars => CmdInv'
  BY CmdStep DEF Next, testVars
<1>3. CmdInv => CmdCapture
  BY DEF CmdInv, CmdFileInv, CmdCapture
<1>4. QED
  BY <1>1, <1>2, <1>3, PTL DEF Spec

(***************************************************************************)
(* A TCP test: the sender's end.                                           *)
(***************************************************************************)
TcpTypes ==
  /\ tUplink \in BOOLEAN /\ tBytes \in {0, ByteLimit}
  /\ tSent \in Nat /\ tQueue \in Nat /\ tGaveUp \in BOOLEAN
  /\ DOMAIN tMain = TcpSides /\ DOMAIN tMon = TcpSides
  /\ DOMAIN tIo = TcpSides /\ DOMAIN tErr = TcpSides
  /\ DOMAIN tCause = TcpSides /\ DOMAIN tSock = TcpSides
  /\ tDeadline \in [TcpSides -> BOOLEAN]

\* There is one connection, and nobody has it before the client has dialled.
TcpNoConn == tSock["snd"] = "none" /\ tSock["rcv"] = "none"

TcpConnInv ==
  /\ tMain["snd"] = "off" <=> tMain["rcv"] = "off"
  /\ tMain["snd"] = "off" \/ tMain[TcpClient] = "dial" => TcpNoConn
  /\ tSock["snd"] = "none" =>
        \/ tMain["snd"] \in {"off", "dial", "accept", "closed"}
        \/ tMain["snd"] = "returned" /\ "result" \in tErr["snd"]

\* Nothing runs before runTCPMonitorAndIO does.
TcpBeforeInv ==
  /\ tMain["snd"] \in {"off", "dial", "accept", "wait", "sleep"} =>
        /\ tMon["snd"] = "off" /\ tIo["snd"] = "off"
        /\ tCause["snd"] \in {"none", "canceled"}
  /\ tDeadline["snd"] => tMain["snd"] \in {"join", "returned", "closed"}

\* Copying ends by itself, on a connection that is open, with the last byte.
TcpWroteInv ==
  tMain["snd"] = "select" /\ tIo["snd"] = "ended" /\ tSock["snd"] = "open"
    => tBytes > 0 /\ tSent = tBytes

\* The cause "io" is the end of the copying.
TcpCauseInv ==
  tCause["snd"] = "io" =>
    /\ tMain["snd"] \in {"join", "returned", "closed"}
    /\ tIo["snd"] = "ended"
    /\ \/ tMain["snd"] = "closed" \/ "result" \in tErr["snd"]
       \/ tSock["snd"] = "open" => tSent = tBytes

\* The monitor ends without an error only when it has been told why, and, if it
\* was told that all is written, with an empty queue.
TcpDrainInv ==
  /\ tMon["snd"] = "drain" => tCause["snd"] # "none"
  /\ ( /\ tMon["snd"] = "ended" /\ tMain["snd"] \in {"select", "join"}
       /\ "monitor" \notin tErr["snd"] )
     => /\ tCause["snd"] # "none"
        /\ (/\ tCause["snd"] = "io" /\ tBytes > 0
            /\ ~tGaveUp /\ tSock["snd"] = "open") => tQueue = 0

TcpReturnInv ==
  tMain["snd"] = "returned" /\ "result" \notin tErr["snd"] =>
    tCause["snd"] # "none" /\ TcpAllAcked

TcpSndInv ==
  /\ TcpBeforeInv /\ TcpWroteInv /\ TcpCauseInv /\ TcpDrainInv /\ TcpReturnInv

TcpInv == TcpTypes /\ TcpConnInv /\ TcpSndInv

\* What the steps of the others may do to the sender's end: acknowledge bytes,
\* or reset its connection.
TcpSndFrame ==
  /\ tMain'["snd"] = tMain["snd"] /\ tMon'["snd"] = tMon["snd"]
  /\ tIo'["snd"] = tIo["snd"] /\ tErr'["snd"] = tErr["snd"]
  /\ tCause'["snd"] = tCause["snd"] /\ tDeadline'["snd"] = tDeadline["snd"]
  /\ tBytes' = tBytes /\ tSent' = tSent /\ tGaveUp' = tGaveUp
  /\ tQueue = 0 => tQueue' = 0
  /\ tSock'["snd"] = "open" => tSock["snd"] = "open"

LEMMA TcpFrame ==
  ASSUME TcpSndInv, TcpSndFrame
  PROVE  TcpSndInv'
<1> USE DEF TcpSndFrame, TcpSndInv
<1>1. TcpBeforeInv'
  BY DEF TcpBeforeInv
<1>2. TcpWroteInv'
  BY DEF TcpWroteInv
<1>3. TcpCauseInv'
  BY DEF TcpCauseInv
<1>4. TcpDrainInv'
  BY DEF TcpDrainInv
<1>5. TcpReturnInv'
  BY DEF TcpReturnInv, TcpAllAcked
<1>6. QED
  BY <1>1, <1>2, <1>3, <1>4, <1>5

\* The request, and the steps up to the start of the goroutines.
LEMMA TcpRequestStep ==
  ASSUME TcpInv, TcpRequest
  PROVE  TcpInv'
<1> USE TcpAssumption DEF TcpInv
<1>1. /\ tMain'["snd"] \in {"dial", "accept"} /\ tMain'["rcv"] \in {"dial", "wait"}
      /\ DOMAIN tMain' = TcpSides
  <2>1. CASE tUplink'
    <3>1. tMain' = [e \in TcpSides |-> IF e = "snd" THEN "dial" ELSE "wait"]
      BY <2>1 DEF TcpRequest, TcpSides
    <3>2. QED
      BY <3>1 DEF TcpSides
  <2>2. CASE ~tUplink'
    <3>1. tMain' = [e \in TcpSides |-> IF e = "snd" THEN "accept" ELSE "dial"]
      BY <2>2 DEF TcpRequest, TcpSides
    <3>2. QED
      BY <3>1 DEF TcpSides
  <2>3. QED
    BY <2>1, <2>2
<1>2. /\ tMain["snd"] = "off" /\ tUplink' \in BOOLEAN /\ tBytes' \in {0, ByteLimit}
      /\ UNCHANGED <<tPhase, tMon, tIo, tErr, tCause, tDeadline, tSock,
                     tSent, tQueue, tGaveUp>>
  BY DEF TcpRequest
<1>3. TcpTypes'
  BY <1>1, <1>2 DEF TcpTypes
<1>4. TcpConnInv'
  BY <1>1, <1>2 DEF TcpConnInv, TcpNoConn
<1>5. TcpSndInv'
  BY <1>1, <1>2 DEF TcpSndInv, TcpBeforeInv, TcpWroteInv, TcpCauseInv,
     TcpDrainInv, TcpReturnInv
<1>6. QED
  BY <1>3, <1>4, <1>5

LEMMA TcpDialStep ==
  ASSUME TcpInv, TcpDial
  PROVE  TcpInv'
<1> USE DEF TcpInv
<1>1. TcpTypes'
  <2>1. CASE TcpFail(TcpClient) /\ UNCHANGED tSock
    BY <2>1 DEF TcpDial, TcpTypes, TcpFail, TcpConf, TcpIo
  <2>2. CASE /\ tSock' = [e \in TcpSides |-> "open"]
             /\ tMain' = [tMain EXCEPT ![TcpClient] = "wait"]
             /\ UNCHANGED tErr
    BY <2>2 DEF TcpDial, TcpTypes, TcpConf, TcpIo
  <2>3. QED
    BY <2>1, <2>2 DEF TcpDial
<1>2. TcpClient' = TcpClient /\ TcpClient \in TcpSides
  BY DEF TcpDial, TcpConf, TcpClient, TcpSides
<1>3. TcpNoConn /\ tMain[TcpClient] = "dial"
  BY DEF TcpConnInv, TcpDial
<1>4. /\ tMain'[TcpClient] \in {"wait", "returned"}
      /\ tMain'[TcpClient] = "wait" => tSock'["snd"] = "open"
      /\ tMain'[TcpClient] = "returned" => TcpNoConn' /\ "result" \in tErr'[TcpClient]
      /\ \A e \in TcpSides \ {TcpClient} :
            tMain'[e] = tMain[e] /\ tErr'[e] = tErr[e]
  BY <1>2, <1>3 DEF TcpDial, TcpTypes, TcpFail, TcpNoConn, TcpSides
<1>5. TcpConnInv'
  <2>1. CASE TcpClient = "snd"
    BY <1>2, <1>3, <1>4, <2>1 DEF TcpConnInv, TcpNoConn, TcpSides
  <2>2. CASE TcpClient = "rcv"
    BY <1>2, <1>3, <1>4, <2>2 DEF TcpConnInv, TcpNoConn, TcpSides
  <2>3. QED
    BY <1>2, <2>1, <2>2 DEF TcpSides
<1>6. TcpSndInv'
  <2>1. UNCHANGED <<tBytes, tMon, tIo, tCause, tDeadline, tSent, tQueue, tGaveUp>>
    BY DEF TcpDial, TcpConf, TcpIo
  <2>2. CASE TcpClient = "snd"
    BY <2>1, <2>2, <1>3, <1>4 DEF TcpSndInv, TcpBeforeInv, TcpWroteInv,
       TcpCauseInv, TcpDrainInv, TcpReturnInv
  \* The sender has no connection: it has not started to copy.
  <2>3. CASE TcpClient = "rcv"
    <3>1. tMain'["snd"] = tMain["snd"] /\ tErr'["snd"] = tErr["snd"]
      BY <2>3, <1>4 DEF TcpSides
    <3>2. \/ tMain["snd"] \in {"off", "dial", "accept", "closed"}
          \/ tMain["snd"] = "returned" /\ "result" \in tErr["snd"]
      BY <1>3 DEF TcpConnInv, TcpNoConn
    <3>3. QED
      BY <2>1, <3>1, <3>2 DEF TcpSndInv, TcpBeforeInv, TcpWroteInv,
         TcpCauseInv, TcpDrainInv, TcpReturnInv
  <2>4. QED
    BY <1>2, <2>2, <2>3 DEF TcpSides
<1>7. QED
  BY <1>1, <1>5, <1>6

\* What the steps of one end keep of the connection, whoever takes them.
TcpKeepsConn(e) ==
  /\ tUplink' = tUplink
  /\ tMain[e] \notin {"off", "dial"} /\ tMain'[e] \notin {"off", "dial"}
  /\ \A o \in TcpSides \ {e} : tMain'[o] = tMain[o] /\ tErr'[o] = tErr[o]
  /\ \A o \in TcpSides : tSock'[o] = "none" <=> tSock[o] = "none"

LEMMA TcpConnKept ==
  ASSUME TcpInv, NEW e \in TcpSides, TcpKeepsConn(e),
         e = "snd" /\ tSock["snd"] = "none" =>
           \/ tMain'["snd"] \in {"accept", "closed"}
           \/ tMain'["snd"] = "returned" /\ "result" \in tErr'["snd"]
  PROVE  TcpConnInv'
<1> USE DEF TcpInv, TcpConnInv, TcpKeepsConn, TcpNoConn, TcpSides
<1>1. (tMain["snd"] = "off" <=> tMain["rcv"] = "off")'
  BY SMT
<1>2. (tMain["snd"] = "off" \/ tMain[TcpClient] = "dial" => TcpNoConn)'
  BY SMT DEF TcpClient
<1>3. tSock'["snd"] = "none" =>
        \/ tMain'["snd"] \in {"off", "dial", "accept", "closed"}
        \/ tMain'["snd"] = "returned" /\ "result" \in tErr'["snd"]
  BY SMT
<1>4. QED
  BY <1>1, <1>2, <1>3

\* The steps of the main goroutine before runTCPMonitorAndIO and into it.
LEMMA TcpStartSteps ==
  ASSUME TcpInv, NEW e \in TcpSides,
         \/ e = TcpServer /\ TcpAccept
         \/ TcpWaitUntil(e) \/ TcpWake(e)
  PROVE  TcpInv'
<1> USE DEF TcpInv
\* What all of these steps do.
<1>1. /\ tMain[e] \in {"accept", "wait", "sleep"}
      /\ UNCHANGED <<tUplink, tBytes, tCause, tDeadline, tSock, tSent, tQueue,
                     tGaveUp>>
      /\ e = "snd" /\ tMain[e] = "accept" => tSock["snd"] # "none" \/ TcpFail(e)
      /\ \/ StartIo(e)
         \/ TcpFail(e) /\ UNCHANGED <<tMon, tIo>>
         \/ \E pc \in {"wait", "sleep", "accept"} :
              /\ tMain' = [tMain EXCEPT ![e] = pc]
              /\ UNCHANGED <<tErr, tMon, tIo>>
  <2>1. CASE e = TcpServer /\ TcpAccept
    BY <2>1 DEF TcpAccept, TcpConf, TcpIo
  <2>2. CASE TcpWaitUntil(e)
    BY <2>2 DEF TcpWaitUntil, TcpConf, TcpIo
  <2>3. CASE TcpWake(e)
    BY <2>3 DEF TcpWake, TcpConf, TcpIo
  <2>4. QED
    BY <2>1, <2>2, <2>3
<1>2. /\ tMain'[e] \in {"select", "returned", "wait", "sleep", "accept"}
      /\ tMain'[e] = "returned" => "result" \in tErr'[e]
      /\ tMain'[e] = "select" => tMon'[e] = "poll" /\ tIo'[e] = "copy"
      /\ tMain'[e] # "select" => tMon'[e] = tMon[e] /\ tIo'[e] = tIo[e]
      /\ \A o \in TcpSides \ {e} : /\ tMain'[o] = tMain[o] /\ tErr'[o] = tErr[o]
                                   /\ tMon'[o] = tMon[o] /\ tIo'[o] = tIo[o]
      /\ TcpTypes'
  <2>1. CASE StartIo(e) /\ ~TcpFail(e)
    BY <2>1, <1>1 DEF StartIo, TcpTypes
  <2>2. CASE TcpFail(e) /\ UNCHANGED <<tMon, tIo>>
    BY <2>2, <1>1 DEF TcpFail, TcpTypes
  <2>3. CASE \E pc \in {"wait", "sleep", "accept"} :
               /\ tMain' = [tMain EXCEPT ![e] = pc]
               /\ UNCHANGED <<tErr, tMon, tIo>>
    BY <2>3, <1>1 DEF TcpTypes
  <2>4. CASE StartIo(e) /\ TcpFail(e)
    BY <2>4, <2>2, <1>1 DEF StartIo, TcpFail, TcpTypes
  <2>5. QED
    BY <1>1, <2>1, <2>2, <2>3, <2>4
<1>3. TcpKeepsConn(e)
  BY <1>1, <1>2 DEF TcpKeepsConn
<1>4. TcpConnInv'
  <2>1. e = "snd" /\ tSock["snd"] = "none" =>
           tMain'["snd"] = "returned" /\ "result" \in tErr'["snd"]
    BY <1>1, <1>2 DEF TcpConnInv, TcpFail, TcpTypes
  <2>2. QED
    BY <2>1, <1>3, TcpConnKept
<1>5. TcpSndInv'
  <2>1. CASE e = "snd"
    <3>1. /\ tMon["snd"] = "off" /\ tIo["snd"] = "off" /\ ~tDeadline["snd"]
          /\ tCause["snd"] \in {"none", "canceled"}
      BY <2>1, <1>1 DEF TcpSndInv, TcpBeforeInv
    <3>2. QED
      BY <2>1, <3>1, <1>1, <1>2 DEF TcpSndInv, TcpBeforeInv, TcpWroteInv,
         TcpCauseInv, TcpDrainInv, TcpReturnInv
  <2>2. CASE e = "rcv"
    BY <2>2, <1>1, <1>2, TcpFrame DEF TcpSndFrame, TcpSides
  <2>3. QED
    BY <2>1, <2>2 DEF TcpSides
<1>6. QED
  BY <1>2, <1>4, <1>5

\* The steps of runTCPMonitorAndIO's select.
LEMMA TcpSelectSteps ==
  ASSUME TcpInv, NEW e \in TcpSides,
         SelectMonitor(e) \/ SelectIo(e) \/ SelectDone(e) \/ TcpJoin(e)
  PROVE  TcpInv'
<1> USE DEF TcpInv
<1>1. /\ tMain[e] \in {"select", "join"}
      /\ UNCHANGED <<tUplink, tBytes, tMon, tIo, tSock, tSent, tQueue, tGaveUp>>
      /\ tMain'[e] \in {"join", "returned"}
      /\ tCause[e] # "none" => tCause'[e] = tCause[e]
      /\ tCause[e] = "none" /\ tCause'[e] = "io" => SelectIo(e)
      /\ "monitor" \in tErr'[e] <=> "monitor" \in tErr[e]
      /\ "result" \in tErr[e] => "result" \in tErr'[e]
      /\ \A o \in TcpSides \ {e} :
           /\ tMain'[o] = tMain[o] /\ tErr'[o] = tErr[o]
           /\ tCause'[o] = tCause[o] /\ tDeadline'[o] = tDeadline[o]
      /\ TcpTypes'
  <2>1. CASE SelectMonitor(e)
    <3>1. CASE TcpFail(e) /\ CancelMonitor(e, "canceled") /\ UNCHANGED tDeadline
      BY <2>1, <3>1 DEF SelectMonitor, TcpConf, TcpIo, TcpFail, TcpTypes,
         CancelMonitor
    <3>2. CASE StopWriting(e) /\ UNCHANGED <<tErr, tCause>>
      BY <2>1, <3>2 DEF SelectMonitor, TcpConf, TcpIo, StopWriting, TcpTypes
    <3>3. QED
      BY <2>1, <3>1, <3>2 DEF SelectMonitor
  <2>2. CASE SelectIo(e)
    <3>1. CASE TcpFail(e) /\ UNCHANGED tDeadline
      BY <2>2, <3>1 DEF SelectIo, TcpConf, TcpIo, TcpFail, TcpTypes,
         CancelMonitor
    <3>2. CASE StopWriting(e) /\ UNCHANGED tErr
      BY <2>2, <3>2 DEF SelectIo, TcpConf, TcpIo, StopWriting, TcpTypes,
         CancelMonitor
    <3>3. QED
      BY <2>2, <3>1, <3>2 DEF SelectIo
  <2>3. CASE SelectDone(e)
    BY <2>3 DEF SelectDone, TcpConf, TcpIo, StopWriting, TcpTypes
  <2>4. CASE TcpJoin(e)
    BY <2>4 DEF TcpJoin, TcpConf, TcpIo, TcpTypes, CancelMonitor
  <2>5. QED
    BY <2>1, <2>2, <2>3, <2>4
<1>3. TcpKeepsConn(e)
  BY <1>1 DEF TcpKeepsConn
<1>4. TcpConnInv'
  <2>1. ~(e = "snd" /\ tSock["snd"] = "none")
    BY <1>1 DEF TcpConnInv
  <2>2. QED
    BY <2>1, <1>3, TcpConnKept
<1>5. CASE e = "rcv"
  BY <1>1, <1>4, <1>5, TcpFrame DEF TcpSndFrame, TcpSides
<1>6. CASE e = "snd"
  <2>1. TcpBeforeInv' /\ TcpWroteInv'
    BY <1>1, <1>6 DEF TcpBeforeInv, TcpWroteInv
  <2>2. TcpCauseInv'
    <3>1. CASE tCause["snd"] = "io"
      BY <1>1, <1>6, <3>1 DEF TcpSndInv, TcpCauseInv
    <3>2. CASE tCause["snd"] # "io" /\ tCause'["snd"] = "io"
      <4>1. SelectIo("snd")
        BY <1>1, <1>6, <3>2
      <4>2. /\ tMain["snd"] = "select" /\ tIo["snd"] = "ended"
            /\ tMain'["snd"] \in {"join", "returned"}
        BY <4>1, <1>1, <1>6 DEF SelectIo
      <4>3. tSock["snd"] = "open" => tSent = tBytes
        BY <4>2 DEF TcpSndInv, TcpWroteInv
      <4>4. QED
        BY <4>2, <4>3, <1>1 DEF TcpCauseInv
    <3>3. QED
      BY <3>1, <3>2 DEF TcpCauseInv
  <2>3. TcpDrainInv'
    BY <1>1, <1>6 DEF TcpSndInv, TcpDrainInv
  <2>4. TcpReturnInv'
    <3>1. ASSUME tMain'["snd"] = "returned", "result" \notin tErr'["snd"]
          PROVE  tCause'["snd"] # "none" /\ TcpAllAcked'
      <4>1. /\ TcpJoin("snd") /\ tMain["snd"] = "join" /\ tMon["snd"] = "ended"
            /\ "monitor" \notin tErr["snd"] /\ "result" \notin tErr["snd"]
        BY <3>1, <1>6 DEF SelectMonitor, SelectIo, SelectDone, TcpJoin,
           StopWriting, TcpFail, TcpTypes
      <4>2. /\ tCause["snd"] # "none" /\ tCause'["snd"] = tCause["snd"]
        BY <4>1, <1>1, <1>6 DEF TcpSndInv, TcpDrainInv
      <4>3. QED
        BY <4>1, <4>2, <1>1 DEF TcpSndInv, TcpDrainInv, TcpCauseInv, TcpAllAcked
    <3>2. QED
      BY <3>1 DEF TcpReturnInv
  <2>5. QED
    BY <1>1, <1>4, <2>1, <2>2, <2>3, <2>4 DEF TcpSndInv
<1>7. QED
  BY <1>5, <1>6 DEF TcpSides

LEMMA TcpCloseSteps ==
  ASSUME TcpInv, NEW e \in TcpSides, CloseConn(e)
  PROVE  TcpInv'
<1> USE DEF TcpInv
<1>1. /\ tMain[e] = "returned" /\ tMain'[e] = "closed"
      /\ UNCHANGED <<tUplink, tBytes, tMon, tIo, tCause, tDeadline, tSent, tGaveUp>>
      /\ DOMAIN tMain' = TcpSides /\ DOMAIN tErr' = TcpSides
      /\ \A o \in TcpSides \ {e} : tMain'[o] = tMain[o] /\ tErr'[o] = tErr[o]
  BY DEF CloseConn, TcpConf, TcpTypes
<1>2. /\ DOMAIN tSock' = TcpSides
      /\ \A o \in TcpSides : /\ tSock'[o] = "none" <=> tSock[o] = "none"
                             /\ tSock'[o] = "open" => tSock[o] = "open"
  <2>1. CASE UNCHANGED tSock
    BY <2>1 DEF TcpTypes
  <2>2. CASE \E lost \in BOOLEAN :
               /\ tSock[e] # "none"
               /\ tSock' = [tSock EXCEPT ![e] = "closed",
                     ![TcpPeer(e)] = IF @ = "open" /\ ~lost THEN "reset" ELSE @]
    BY <2>2 DEF TcpTypes
  <2>3. QED
    BY <2>1, <2>2 DEF CloseConn
<1>3. tQueue' = tQueue \/ tQueue' = 0
  <2>1. CASE UNCHANGED tQueue
    BY <2>1
  <2>2. CASE \E lost \in BOOLEAN :
               tQueue' \in IF e = "snd" THEN {0}
                           ELSE IF lost THEN {tQueue} ELSE {0, tQueue}
    BY <2>2
  <2>3. QED
    BY <2>1, <2>2 DEF CloseConn
<1>4. TcpTypes'
  BY <1>1, <1>2, <1>3 DEF TcpTypes
<1>5. TcpConnInv'
  <2>1. TcpKeepsConn(e)
    BY <1>1, <1>2 DEF TcpKeepsConn
  <2>2. QED
    BY <2>1, <1>1, TcpConnKept
<1>6. CASE e = "rcv"
  BY <1>1, <1>2, <1>3, <1>4, <1>5, <1>6, TcpFrame DEF TcpSndFrame, TcpSides
<1>7. CASE e = "snd"
  BY <1>1, <1>4, <1>5, <1>7 DEF TcpSndInv, TcpBeforeInv, TcpWroteInv,
     TcpCauseInv, TcpDrainInv, TcpReturnInv
<1>8. QED
  BY <1>6, <1>7 DEF TcpSides

\* The monitor.
LEMMA TcpMonitorSteps ==
  ASSUME TcpInv, NEW e \in TcpSides,
         \/ MonitorDone(e) \/ MonitorFails(e)
         \/ e = "snd" /\ (Drained \/ DrainTimeout)
  PROVE  TcpInv'
<1> USE DEF TcpInv
<1>1. /\ UNCHANGED <<tUplink, tBytes, tMain, tIo, tCause, tDeadline, tSock,
                     tSent, tQueue>>
      /\ tMon[e] \in {"poll", "drain"} /\ tMon'[e] \in {"drain", "ended"}
      /\ e = "rcv" => tGaveUp' = tGaveUp
      /\ tGaveUp => tGaveUp'
      /\ "result" \in tErr'[e] <=> "result" \in tErr[e]
      /\ \A o \in TcpSides \ {e} : tMon'[o] = tMon[o] /\ tErr'[o] = tErr[o]
      /\ TcpTypes'
  <2>1. CASE MonitorDone(e)
    BY <2>1 DEF MonitorDone, MonitorEnds, NoteError, TcpConf, TcpIo, TcpTypes
  <2>2. CASE MonitorFails(e)
    BY <2>2 DEF MonitorFails, MonitorEnds, NoteError, TcpConf, TcpIo, TcpTypes
  <2>3. CASE e = "snd" /\ Drained
    BY <2>3 DEF Drained, MonitorEnds, NoteError, TcpConf, TcpIo, TcpTypes
  <2>4. CASE e = "snd" /\ DrainTimeout
    BY <2>4 DEF DrainTimeout, MonitorEnds, NoteError, TcpConf, TcpIo, TcpTypes
  <2>5. QED
    BY <2>1, <2>2, <2>3, <2>4
<1>2. TcpConnInv'
  BY <1>1 DEF TcpConnInv, TcpNoConn, TcpClient, TcpSides
<1>3. CASE e = "rcv"
  BY <1>1, <1>2, <1>3, TcpFrame DEF TcpSndFrame, TcpSides
<1>4. CASE e = "snd"
  <2>1. TcpBeforeInv' /\ TcpWroteInv' /\ TcpCauseInv' /\ TcpReturnInv'
    BY <1>1, <1>4 DEF TcpSndInv, TcpBeforeInv, TcpWroteInv, TcpCauseInv,
       TcpReturnInv, TcpAllAcked
  <2>2. TcpDrainInv'
    <3>1. SUFFICES
            /\ tMon'["snd"] = "drain" => tCause["snd"] # "none"
            /\ ( /\ tMon'["snd"] = "ended" /\ tMain["snd"] \in {"select", "join"}
                 /\ "monitor" \notin tErr'["snd"] )
               => /\ tCause["snd"] # "none"
                  /\ tCause["snd"] = "io" /\ tBytes > 0 => tGaveUp' \/ tQueue = 0
      BY <1>1 DEF TcpDrainInv
    <3>2. CASE MonitorDone("snd")
      <4>1. tCause["snd"] # "none"
        BY <3>2 DEF MonitorDone
      <4>2. tCause["snd"] = "io" /\ tBytes > 0 => tMon'["snd"] = "drain"
        BY <3>2 DEF MonitorDone, TcpTypes, TcpSides
      <4>3. QED
        BY <4>1, <4>2
    <3>3. CASE MonitorFails("snd")
      BY <3>3 DEF MonitorFails, MonitorEnds, NoteError, TcpTypes, TcpSides
    <3>4. CASE Drained
      BY <3>4 DEF Drained, TcpSndInv, TcpDrainInv
    <3>5. CASE DrainTimeout
      BY <3>5 DEF DrainTimeout, TcpSndInv, TcpDrainInv
    <3>6. QED
      BY <1>4, <3>2, <3>3, <3>4, <3>5
  <2>3. QED
    BY <1>1, <1>2, <2>1, <2>2 DEF TcpSndInv
<1>5. QED
  BY <1>3, <1>4 DEF TcpSides

\* Copying.
LEMMA TcpCopySteps ==
  ASSUME TcpInv, TcpWrite \/ WriteEnds \/ ReadEnds
  PROVE  TcpInv'
<1> USE TcpAssumption DEF TcpInv
<1>1. CASE TcpWrite
  <2>1. /\ UNCHANGED <<tUplink, tBytes, tMain, tMon, tIo, tErr, tCause,
                       tDeadline, tSock, tGaveUp>>
        /\ tSent' = tSent + 1 /\ tQueue' = tQueue + 1 /\ tIo["snd"] = "copy"
    BY <1>1 DEF TcpWrite, TcpConf
  <2>2. TcpTypes' /\ TcpConnInv'
    BY <2>1 DEF TcpTypes, TcpConnInv, TcpNoConn, TcpClient
  \* The cause is not yet that copying has ended.
  <2>3. tCause["snd"] # "io"
    BY <2>1 DEF TcpSndInv, TcpCauseInv
  <2>4. TcpSndInv'
    BY <2>1, <2>3 DEF TcpSndInv, TcpBeforeInv, TcpWroteInv, TcpCauseInv,
       TcpDrainInv, TcpReturnInv, TcpAllAcked
  <2>5. QED
    BY <2>2, <2>4
<1>2. CASE WriteEnds
  <2>1. /\ UNCHANGED <<tUplink, tBytes, tMain, tMon, tCause, tDeadline, tSock,
                       tSent, tQueue, tGaveUp>>
        /\ tIo["snd"] = "copy" /\ tIo'["snd"] = "ended"
        /\ \A x \in {"monitor", "result"} : x \in tErr'["snd"] <=> x \in tErr["snd"]
        /\ TcpTypes'
    BY <1>2 DEF WriteEnds, IoEnds, NoteError, TcpConf, TcpIo, TcpTypes, TcpSides
  <2>2. TcpConnInv'
    BY <2>1 DEF TcpConnInv, TcpNoConn, TcpClient
  <2>3. TcpWroteInv'
    <3>1. tMain["snd"] = "select" => ~tDeadline["snd"]
      BY DEF TcpSndInv, TcpBeforeInv
    <3>2. \/ tBytes > 0 /\ tSent = tBytes
          \/ tDeadline["snd"] \/ tSock["snd"] \in {"closed", "reset"}
      BY <1>2 DEF WriteEnds
    <3>3. QED
      BY <2>1, <3>1, <3>2 DEF TcpWroteInv
  <2>4. TcpSndInv'
    BY <2>1, <2>3 DEF TcpSndInv, TcpBeforeInv, TcpCauseInv, TcpDrainInv,
       TcpReturnInv, TcpAllAcked
  <2>5. QED
    BY <2>1, <2>2, <2>4
<1>3. CASE ReadEnds
  <2>1. /\ UNCHANGED <<tUplink, tBytes, tMain, tMon, tCause, tDeadline, tSock,
                       tSent, tQueue, tGaveUp>>
        /\ tIo'["snd"] = tIo["snd"] /\ tErr'["snd"] = tErr["snd"]
        /\ TcpTypes'
    BY <1>3 DEF ReadEnds, IoEnds, NoteError, TcpConf, TcpIo, TcpTypes, TcpSides
  <2>2. TcpConnInv'
    BY <2>1 DEF TcpConnInv, TcpNoConn, TcpClient
  <2>3. QED
    BY <2>1, <2>2, TcpFrame DEF TcpSndFrame
<1>4. QED
  BY <1>1, <1>2, <1>3

\* The network, the clock and the user.
LEMMA TcpWorldSteps ==
  ASSUME TcpInv, TcpTransmit \/ TcpPasses \/ \E e \in TcpSides : TcpAbort(e)
  PROVE  TcpInv'
<1> USE DEF TcpInv
<1>1. CASE TcpTransmit
  <2>1. /\ UNCHANGED <<tUplink, tBytes, tMain, tMon, tIo, tErr, tCause,
                       tDeadline, tSock, tSent, tGaveUp>>
        /\ tQueue > 0 /\ tQueue' = tQueue - 1
    BY <1>1 DEF TcpTransmit, TcpConf
  <2>2. TcpTypes' /\ TcpConnInv'
    BY <2>1 DEF TcpTypes, TcpConnInv, TcpNoConn, TcpClient
  <2>3. QED
    BY <2>1, <2>2, TcpFrame DEF TcpSndFrame
\* The other two end a context that has not ended, for another reason.
<1>2. CASE TcpPasses \/ \E e \in TcpSides : TcpAbort(e)
  <2>1. /\ UNCHANGED <<tUplink, tBytes, tMain, tMon, tIo, tErr, tDeadline, tSock,
                       tSent, tQueue, tGaveUp>>
        /\ DOMAIN tCause' = TcpSides
        /\ \/ tCause'["snd"] = tCause["snd"]
           \/ tCause["snd"] = "none" /\ tCause'["snd"] = "canceled"
           \/ /\ tCause["snd"] = "none" /\ tCause'["snd"] = "deadline"
              /\ tMain["snd"] \in {"select", "join"}
    <3>1. CASE TcpPasses
      BY <3>1 DEF TcpPasses, TcpExpires, TcpConf, TcpIo, TcpSides
    <3>2. ASSUME NEW e \in TcpSides, TcpAbort(e)
          PROVE  <2>1!:
      BY <3>2 DEF TcpAbort, CancelMonitor, TcpConf, TcpIo, TcpTypes, TcpSides
    <3>3. QED
      BY <1>2, <3>1, <3>2
  <2>2. TcpTypes' /\ TcpConnInv'
    BY <2>1 DEF TcpTypes, TcpConnInv, TcpNoConn, TcpClient
  <2>3. CASE tCause'["snd"] = tCause["snd"]
    BY <2>1, <2>2, <2>3, TcpFrame DEF TcpSndFrame
  <2>4. CASE tCause["snd"] = "none" /\ tCause'["snd"] # "none"
    BY <2>1, <2>2, <2>4 DEF TcpSndInv, TcpBeforeInv, TcpWroteInv, TcpCauseInv,
       TcpDrainInv, TcpReturnInv, TcpAllAcked
  <2>5. QED
    BY <2>1, <2>3, <2>4
<1>3. QED
  BY <1>1, <1>2

LEMMA TcpStep ==
  ASSUME TcpInv, [TcpNext]_tcpVars
  PROVE  TcpInv'
<1>1. CASE TcpNext
  <2>1. ASSUME NEW e \in TcpSides, TcpRuns(e)
        PROVE  TcpInv'
    BY <2>1, TcpStartSteps, TcpSelectSteps, TcpCloseSteps DEF TcpRuns
  <2>2. CASE Drained \/ DrainTimeout
    BY <2>2, TcpMonitorSteps DEF TcpSides
  <2>3. QED
    BY <1>1, <2>1, <2>2, TcpRequestStep, TcpDialStep, TcpMonitorSteps, TcpCopySteps,
       TcpWorldSteps DEF TcpNext
<1>2. CASE UNCHANGED tcpVars
  BY <1>2 DEF tcpVars, TcpInv, TcpTypes, TcpConnInv, TcpNoConn, TcpClient,
     TcpSndInv, TcpBeforeInv, TcpWroteInv, TcpCauseInv, TcpDrainInv,
     TcpReturnInv, TcpAllAcked
<1>3. QED
  BY <1>1, <1>2

\* In every test, a TCP sender of a given number of bytes that ends because it
\* has written them all, and returns without an error, has had every byte
\* acknowledged, unless its monitor gave up or the receiver left.
THEOREM WrittenBytesAreAcknowledged == Spec => []TcpAllAcked
<1>1. Init => TcpInv
  <2>1. SUFFICES ASSUME TcpIdle PROVE TcpInv
    BY DEF Init
  <2>2. TcpTypes /\ TcpConnInv
    BY <2>1 DEF TcpIdle, TcpTypes, TcpConnInv, TcpNoConn, TcpSides
  <2>3. TcpSndInv
    BY <2>1 DEF TcpIdle, TcpSndInv, TcpBeforeInv, TcpWroteInv, TcpCauseInv,
       TcpDrainInv, TcpReturnInv, TcpSides
  <2>4. QED
    BY <2>2, <2>3 DEF TcpInv
<1>2. TcpInv /\ [Next]_testVars => TcpInv'
  BY TcpStep DEF Next, testVars
<1>3. TcpInv => TcpAllAcked
  BY DEF TcpInv, TcpSndInv, TcpReturnInv, TcpAllAcked
<1>4. QED
  BY <1>1, <1>2, <1>3, PTL DEF Spec

(***************************************************************************)
(* An ICMP test.                                                           *)
(***************************************************************************)
\* The packets of F up to x, from x on, and from x to before y.
UpTo(F, x) == {m \in F : m <= x}
FromOn(F, x) == {m \in F : m >= x}
Between(F, x, y) == {m \in F : x <= m /\ m < y}

\* What is sent, under way and lost, and the IDs by which the client knows the
\* packets of its test.
IcmpTypes ==
  /\ iSent \in Nat /\ iSince \in Nat /\ iBase \in Nat
  /\ iFlight \subseteq 0..(iSent - 1)
  /\ iLost \in Nat /\ iLost <= IcmpLosses
  /\ iHigh \in Int /\ -1 <= iHigh /\ iHigh < iSent
  /\ iMain = "run" => iUplink \/ iSndID = NatID

\* No packet under way has been overtaken by more than IcmpWindow others.
IcmpNearInv == \A n \in iFlight : iSent <= n + 1 + IcmpWindow

\* baseSeq is the first number of the cycle of the highest packet that has
\* arrived, and the sender is less than two cycles ahead of it.
IcmpBaseInv ==
  /\ \E k \in Nat : iBase = SeqSpace * k
  /\ \/ iBase <= iHigh /\ iHigh < iBase + SeqSpace
     \/ iHigh = -1 /\ iBase = 0 /\ iSince = 0
  /\ iSent <= iBase + 2 * SeqSpace

\* receivedSinceWrap against the highest packet: a small number early in a cycle is
\* not taken for a wrap.
IcmpFewInv ==
  iSince + Cardinality(UpTo(iFlight, iHigh))
    <= iHigh - iBase + 1 + IcmpWindow

\* receivedSinceWrap against what has been sent of the cycle: once packets of
\* the next cycle are under way it is large enough for the wrap.
IcmpManyInv ==
  /\ iSent <= iBase + SeqSpace =>
       iSent - iBase
         <= iSince + iLost + Cardinality(FromOn(iFlight, iBase))
  /\ iSent > iBase + SeqSpace =>
       /\ SeqSpace <= iSince + IcmpLosses
            + Cardinality(Between(iFlight, iBase, iBase + SeqSpace))
       /\ iSent - iBase - SeqSpace
            <= iLost + Cardinality(FromOn(iFlight, iBase + SeqSpace))

IcmpInv ==
  /\ IcmpTypes /\ IcmpNearInv /\ IcmpBaseInv /\ IcmpFewInv /\ IcmpManyInv
  /\ IcmpNumbering

\* The linear facts about the constants that the proofs use.
LEMMA IcmpNumbers ==
  /\ SeqSpace \in Nat /\ LowSeq \in Nat /\ IcmpWindow \in Nat
  /\ IcmpLosses \in Nat /\ Half \in Nat
  /\ IcmpLosses + IcmpWindow < LowSeq
  /\ Half + IcmpLosses + IcmpWindow < SeqSpace
  /\ LowSeq + 2 * IcmpWindow <= Half + 1
  /\ LowSeq + IcmpWindow <= SeqSpace
  /\ SeqSpace > 0 /\ IcmpLosses + IcmpWindow < SeqSpace
<1>1. SeqSpace \in Nat => Half \in Nat
  BY DEF Half
<1>2. QED
  BY <1>1, IcmpAssumption

\* The cycle and the number of a packet, from the base of its cycle.
LEMMA CycleIs ==
  ASSUME NEW k \in Nat, NEW n \in Int,
         SeqSpace * k <= n, n < SeqSpace * k + SeqSpace
  PROVE  Cycle(n) = k /\ n % SeqSpace = n - SeqSpace * k
<1> DEFINE S == SeqSpace
           q == n \div S
           r == n % S
<1>1. S \in Nat /\ S > 0
  BY IcmpNumbers
<1>2. q \in Int /\ r \in Int /\ n = S * q + r /\ 0 <= r /\ r < S
  BY <1>1
<1> HIDE DEF S, q, r
<1>3. q = k
  <2>1. S * k \in Int /\ S * q \in Int
    BY <1>1, <1>2
  <2>2. S * k < S * q + S /\ S * q < S * k + S
    BY <1>1, <1>2, <2>1 DEF S
  <2>3. CASE q >= k + 1
    <3>1. S * q >= S * k + S
      <4>1. S * (q - k - 1) >= 0
        BY <1>1, <1>2, <2>3
      <4>2. S * (q - k - 1) = S * q - S * k - S
        BY <1>1, <1>2
      <4>3. QED
        BY <2>1, <4>1, <4>2, <1>1
    <3>2. QED
      BY <2>1, <2>2, <3>1, <1>1
  <2>4. CASE q + 1 <= k
    <3>1. S * k >= S * q + S
      <4>1. S * (k - q - 1) >= 0
        BY <1>1, <1>2, <2>4
      <4>2. S * (k - q - 1) = S * k - S * q - S
        BY <1>1, <1>2
      <4>3. QED
        BY <2>1, <4>1, <4>2, <1>1
    <3>2. QED
      BY <2>1, <2>2, <3>1, <1>1
  <2>5. QED
    BY <1>2, <2>3, <2>4
<1>4. QED
  BY <1>1, <1>2, <1>3 DEF Cycle, S, q, r

\* A set of numbers between a and b is no larger than the interval.
LEMMA Packed ==
  ASSUME NEW a \in Int, NEW b \in Int, a <= b + 1, NEW F \in SUBSET (a..b)
  PROVE  IsFiniteSet(F) /\ Cardinality(F) \in Nat /\ Cardinality(F) <= b - a + 1
<1>1. IsFiniteSet(a..b) /\ Cardinality(a..b) = b - a + 1
  <2>1. IsFiniteSet(a..b)
        /\ Cardinality(a..b) = IF a > b THEN 0 ELSE b - a + 1
    BY FS_Interval
  <2>2. QED
    BY <2>1
<1>2. IsFiniteSet(F) /\ Cardinality(F) <= Cardinality(a..b)
  BY <1>1, FS_Subset
<1>3. QED
  BY <1>1, <1>2, FS_CardinalityType

\* The parts of the packets under way are finite.
LEMMA PartsAreFinite ==
  ASSUME NEW s \in Nat, NEW F \in SUBSET (0..(s - 1)), NEW x \in Int, NEW y \in Int
  PROVE  /\ IsFiniteSet(UpTo(F, x)) /\ Cardinality(UpTo(F, x)) \in Nat
         /\ IsFiniteSet(FromOn(F, x)) /\ Cardinality(FromOn(F, x)) \in Nat
         /\ IsFiniteSet(Between(F, x, y)) /\ Cardinality(Between(F, x, y)) \in Nat
<1>1. UpTo(F, x) \in SUBSET (0..(s - 1))
  BY DEF UpTo
<1>2. FromOn(F, x) \in SUBSET (0..(s - 1))
  BY DEF FromOn
<1>3. Between(F, x, y) \in SUBSET (0..(s - 1))
  BY DEF Between
<1>4. 0 \in Int /\ s - 1 \in Int /\ 0 <= s - 1 + 1
  OBVIOUS
<1>5. QED
  BY <1>1, <1>2, <1>3, <1>4, Packed

\* A packet that is sent joins the part above it, and no other.
LEMMA PartsOnSend ==
  ASSUME NEW s \in Nat, NEW F \in SUBSET (0..(s - 1)), NEW x \in Int, NEW y \in Int
  PROVE  /\ x < s => UpTo(F \cup {s}, x) = UpTo(F, x)
         /\ x <= s => Cardinality(FromOn(F \cup {s}, x))
                        = Cardinality(FromOn(F, x)) + 1
         /\ y <= s => Between(F \cup {s}, x, y) = Between(F, x, y)
<1>1. x < s => UpTo(F \cup {s}, x) = UpTo(F, x)
  BY DEF UpTo
<1>2. ASSUME x <= s
      PROVE  Cardinality(FromOn(F \cup {s}, x)) = Cardinality(FromOn(F, x)) + 1
  <2>1. FromOn(F \cup {s}, x) = FromOn(F, x) \cup {s} /\ s \notin FromOn(F, x)
    BY <1>2 DEF FromOn
  <2>2. IsFiniteSet(FromOn(F, x))
    BY PartsAreFinite
  <2>3. QED
    BY <2>1, <2>2, FS_AddElement
<1>3. y <= s => Between(F \cup {s}, x, y) = Between(F, x, y)
  BY DEF Between
<1>4. QED
  BY <1>1, <1>2, <1>3

LEMMA Without ==
  ASSUME NEW T, IsFiniteSet(T), NEW n
  PROVE  Cardinality(T \ {n}) = Cardinality(T) - (IF n \in T THEN 1 ELSE 0)
<1>1. Cardinality(T) \in Nat
  BY FS_CardinalityType
<1>2. Cardinality(T \ {n}) = IF n \in T THEN Cardinality(T) - 1 ELSE Cardinality(T)
  BY FS_RemoveElement
<1>3. QED
  BY <1>1, <1>2

\* A packet that arrives leaves the parts it was in.
LEMMA PartsOnArrival ==
  ASSUME NEW s \in Nat, NEW F \in SUBSET (0..(s - 1)), NEW n \in F,
         NEW x \in Int, NEW y \in Int
  PROVE  /\ Cardinality(UpTo(F \ {n}, x)) =
              Cardinality(UpTo(F, x)) - (IF n <= x THEN 1 ELSE 0)
         /\ Cardinality(FromOn(F \ {n}, x)) =
              Cardinality(FromOn(F, x)) - (IF n >= x THEN 1 ELSE 0)
         /\ Cardinality(Between(F \ {n}, x, y)) =
              Cardinality(Between(F, x, y)) - (IF x <= n /\ n < y THEN 1 ELSE 0)
<1>1. /\ UpTo(F \ {n}, x) = UpTo(F, x) \ {n}
      /\ n \in UpTo(F, x) <=> n <= x
  BY DEF UpTo
<1>2. /\ FromOn(F \ {n}, x) = FromOn(F, x) \ {n}
      /\ n \in FromOn(F, x) <=> n >= x
  BY DEF FromOn
<1>3. /\ Between(F \ {n}, x, y) = Between(F, x, y) \ {n}
      /\ n \in Between(F, x, y) <=> x <= n /\ n < y
  BY DEF Between
<1>4. /\ IsFiniteSet(UpTo(F, x)) /\ Cardinality(UpTo(F, x)) \in Nat
      /\ IsFiniteSet(FromOn(F, x)) /\ Cardinality(FromOn(F, x)) \in Nat
      /\ IsFiniteSet(Between(F, x, y)) /\ Cardinality(Between(F, x, y)) \in Nat
  BY PartsAreFinite
<1>5. Cardinality(UpTo(F \ {n}, x)) =
        Cardinality(UpTo(F, x)) - (IF n <= x THEN 1 ELSE 0)
  <2>1. Cardinality(UpTo(F, x) \ {n}) =
          Cardinality(UpTo(F, x)) - (IF n \in UpTo(F, x) THEN 1 ELSE 0)
    BY <1>4, Without
  <2>2. QED
    BY <2>1, <1>1
<1>6. Cardinality(FromOn(F \ {n}, x)) =
        Cardinality(FromOn(F, x)) - (IF n >= x THEN 1 ELSE 0)
  <2>1. Cardinality(FromOn(F, x) \ {n}) =
          Cardinality(FromOn(F, x)) - (IF n \in FromOn(F, x) THEN 1 ELSE 0)
    BY <1>4, Without
  <2>2. QED
    BY <2>1, <1>2
<1>7. Cardinality(Between(F \ {n}, x, y)) =
        Cardinality(Between(F, x, y)) - (IF x <= n /\ n < y THEN 1 ELSE 0)
  <2>1. Cardinality(Between(F, x, y) \ {n}) =
          Cardinality(Between(F, x, y)) - (IF n \in Between(F, x, y) THEN 1 ELSE 0)
    BY <1>4, Without
  <2>2. QED
    BY <2>1, <1>3
<1>8. QED
  BY <1>5, <1>6, <1>7

\* What the other packets under way leave room for.
LEMMA FlightIsPacked ==
  ASSUME IcmpTypes, IcmpNearInv, NEW n \in iFlight
  PROVE  /\ Cardinality(FromOn(iFlight, iBase + SeqSpace)) <= IcmpWindow + 1
         /\ n >= iBase + SeqSpace =>
              /\ Cardinality(Between(iFlight, iBase, iBase + SeqSpace)) <= IcmpWindow
              /\ Cardinality(UpTo(iFlight \ {n}, n)) <= IcmpWindow
<1> DEFINE a == iSent - 1 - IcmpWindow
           b == iSent - 1
<1>1. /\ iSent \in Nat /\ IcmpWindow \in Nat /\ SeqSpace \in Nat /\ iBase \in Nat
      /\ n \in Int /\ a <= n /\ n <= b
  BY IcmpNumbers DEF IcmpTypes, IcmpNearInv
<1>2. iFlight \in SUBSET (a..b)
  BY <1>1 DEF IcmpTypes, IcmpNearInv
<1>3. a \in Int /\ b \in Int /\ a <= b + 1 /\ b - a + 1 = IcmpWindow + 1
  BY <1>1
<1>4. FromOn(iFlight, iBase + SeqSpace) \in SUBSET (a..b)
  BY <1>2 DEF FromOn
<1>5. Cardinality(FromOn(iFlight, iBase + SeqSpace)) <= IcmpWindow + 1
  BY <1>3, <1>4, Packed
<1>6. ASSUME n >= iBase + SeqSpace
      PROVE  Cardinality(Between(iFlight, iBase, iBase + SeqSpace)) <= IcmpWindow
  <2>1. Between(iFlight, iBase, iBase + SeqSpace) \in SUBSET (a..(b - 1))
    <3>1. SUFFICES ASSUME NEW m \in Between(iFlight, iBase, iBase + SeqSpace)
                   PROVE  m \in a..(b - 1)
      OBVIOUS
    <3>2. m \in a..b /\ m < iBase + SeqSpace
      BY <1>2 DEF Between
    <3>3. m \in Int /\ a <= m /\ m < n
      BY <1>1, <1>3, <1>6, <3>2
    <3>4. QED
      BY <1>1, <1>3, <3>3
  <2>2. b - 1 \in Int /\ a <= (b - 1) + 1 /\ (b - 1) - a + 1 = IcmpWindow
    BY <1>1
  <2>3. QED
    BY <1>3, <2>1, <2>2, Packed
<1>7. Cardinality(UpTo(iFlight \ {n}, n)) <= IcmpWindow
  <2>1. UpTo(iFlight \ {n}, n) \in SUBSET (a..(n - 1))
    <3>1. SUFFICES ASSUME NEW m \in UpTo(iFlight \ {n}, n)
                   PROVE  m \in a..(n - 1)
      OBVIOUS
    <3>2. m \in a..b /\ m <= n /\ m # n
      BY <1>2 DEF UpTo
    <3>3. m \in Int /\ a <= m /\ m < n
      BY <1>1, <1>3, <3>2
    <3>4. QED
      BY <1>1, <1>3, <3>3
  <2>2. n - 1 \in Int /\ a <= (n - 1) + 1 /\ (n - 1) - a + 1 <= IcmpWindow
    BY <1>1
  <2>3. Cardinality(UpTo(iFlight \ {n}, n)) \in Nat
        /\ Cardinality(UpTo(iFlight \ {n}, n)) <= (n - 1) - a + 1
    BY <1>3, <2>1, <2>2, Packed
  <2>4. QED
    BY <1>1, <2>2, <2>3
<1>8. QED
  BY <1>5, <1>6, <1>7

\* A step that changes none of the numbers.
IcmpSame ==
  UNCHANGED <<iSent, iFlight, iLost, iBase, iSince, iHigh, iLast>>

LEMMA IcmpQuietSteps ==
  ASSUME IcmpInv, IcmpSame, iMain' = "run" => iUplink' \/ iSndID' = NatID
  PROVE  IcmpInv'
<1> USE DEF IcmpSame
<1>1. IcmpTypes'
  BY DEF IcmpInv, IcmpTypes
<1>2. IcmpNearInv' /\ IcmpBaseInv' /\ IcmpNumbering'
  BY DEF IcmpInv, IcmpNearInv, IcmpBaseInv, IcmpNumbering, Cycle
<1>3. IcmpFewInv' /\ IcmpManyInv'
  BY DEF IcmpInv, IcmpFewInv, IcmpManyInv, UpTo, FromOn, Between
<1>4. QED
  BY <1>1, <1>2, <1>3 DEF IcmpInv

\* Nothing but a packet of the test passes the receiver's filter.
LEMMA IcmpNoiseStep ==
  ASSUME IcmpInv, NEW m \in IcmpNoise, IcmpNoiseArrives(m)
  PROVE  IcmpInv'
<1>1. ~Matches([type |-> m.type, id |-> m.id, data |-> m.data,
                punch |-> m.punch, seq |-> 0])
  BY DEF Matches, IcmpNoise, OwnID, OtherID
<1>2. IcmpSame /\ UNCHANGED <<iMain, iUplink, iSndID>>
  BY <1>1 DEF IcmpNoiseArrives, IcmpReceive, IcmpSame, IcmpReceiverVars
<1>3. QED
  BY <1>2, IcmpQuietSteps DEF IcmpInv, IcmpTypes

\* Sending a packet, which may be lost.
LEMMA IcmpSendStep ==
  ASSUME IcmpInv, IcmpSend
  PROVE  IcmpInv'
<1> DEFINE before == IF iSent % SeqSpace = 0 THEN 0 ELSE iLost
           next == iBase + SeqSpace
           lost == iFlight' = iFlight /\ iLost' = before + 1 /\ before < IcmpLosses
           sent == iFlight' = iFlight \cup {iSent} /\ iLost' = before
<1>1. /\ IcmpTypes /\ IcmpNearInv /\ IcmpBaseInv /\ IcmpFewInv /\ IcmpManyInv
      /\ IcmpNumbering
  BY DEF IcmpInv
<1>2. /\ iSent' = iSent + 1 /\ iBase' = iBase /\ iSince' = iSince
      /\ iHigh' = iHigh /\ iLast' = iLast
      /\ iMain' = iMain /\ iUplink' = iUplink /\ iSndID' = iSndID
      /\ \A n \in iFlight : iSent - n <= IcmpWindow
      /\ lost \/ sent
  BY DEF IcmpSend, IcmpReceiverVars
<1>3. /\ iSent \in Nat /\ iSince \in Nat /\ iBase \in Nat /\ iLost \in Nat
      /\ iLost <= IcmpLosses /\ iHigh \in Int /\ -1 <= iHigh /\ iHigh < iSent
      /\ iFlight \in SUBSET (0..(iSent - 1))
      /\ next \in Nat
  BY <1>1, IcmpNumbers DEF IcmpTypes
<1>a. /\ iSent \in Nat /\ iFlight \in SUBSET (0..(iSent - 1))
      /\ iBase \in Int /\ next \in Int /\ iHigh \in Int
  BY <1>3
<1>4. before \in Nat /\ before <= IcmpLosses
  BY <1>3, IcmpNumbers
<1>5. /\ Cardinality(UpTo(iFlight, iHigh)) \in Nat
      /\ Cardinality(FromOn(iFlight, iBase)) \in Nat
      /\ Cardinality(FromOn(iFlight, next)) \in Nat
      /\ Cardinality(Between(iFlight, iBase, next)) \in Nat
  <2> HIDE DEF next
  <2>1. QED
    BY <1>a, PartsAreFinite
\* Only the first packet of a cycle resets the count of the losses.
<1>6. /\ iBase <= iSent /\ iSent < next + SeqSpace
      /\ iSent # iBase /\ iSent # next => before = iLost
  <2>1. PICK k \in Nat : iBase = SeqSpace * k
    BY <1>1 DEF IcmpBaseInv
  <2>2. iBase <= iSent
    BY <1>1, <1>3, IcmpNumbers DEF IcmpBaseInv
  <2>3. ASSUME iSent # iBase, iSent # next, iSent < next
        PROVE  iSent % SeqSpace # 0
    <3>1. iSent % SeqSpace = iSent - SeqSpace * k
      BY <1>3, <2>1, <2>2, <2>3, CycleIs
    <3>2. QED
      BY <1>3, <2>1, <2>3, <3>1
  <2>4. ASSUME iSent > next, iSent < next + SeqSpace
        PROVE  iSent % SeqSpace # 0
    <3>1. k + 1 \in Nat /\ SeqSpace * (k + 1) = next
      BY <2>1, IcmpNumbers
    <3>2. iSent % SeqSpace = iSent - SeqSpace * (k + 1)
      BY <1>3, <2>4, <3>1, CycleIs
    <3>3. QED
      BY <1>3, <2>4, <3>1, <3>2
  <2>5. iSent # next + SeqSpace
    <3>1. SUFFICES ASSUME iSent = next + SeqSpace PROVE FALSE
      OBVIOUS
    <3>2. SeqSpace <= iLost + Cardinality(FromOn(iFlight, next))
      BY <1>1, <1>3, <1>5, <3>1, IcmpNumbers DEF IcmpManyInv
    <3>3. FromOn(iFlight, next) \in SUBSET ((iSent - IcmpWindow)..(iSent - 1))
      <4>1. SUFFICES ASSUME NEW m \in FromOn(iFlight, next)
                     PROVE  m \in (iSent - IcmpWindow)..(iSent - 1)
        OBVIOUS
      <4>2. m \in iFlight /\ m \in Int /\ m <= iSent - 1
        BY <1>a DEF FromOn
      <4>3. iSent - m <= IcmpWindow
        BY <1>2, <4>2
      <4>4. QED
        BY <1>a, <4>2, <4>3, IcmpNumbers
    <3>4. Cardinality(FromOn(iFlight, next)) <= IcmpWindow
      <4>1. /\ iSent - IcmpWindow \in Int /\ iSent - 1 \in Int
            /\ iSent - IcmpWindow <= (iSent - 1) + 1
            /\ (iSent - 1) - (iSent - IcmpWindow) + 1 = IcmpWindow
        BY <1>3, IcmpNumbers
      <4>2. QED
        BY <3>3, <4>1, Packed
    <3>5. QED
      BY <1>3, <1>5, <3>2, <3>4, IcmpNumbers
  <2>6. iSent <= next + SeqSpace
    BY <1>1, <1>3, IcmpNumbers DEF IcmpBaseInv
  <2>7. iSent < next + SeqSpace
    BY <2>5, <2>6, <1>3, IcmpNumbers
  <2>8. ASSUME iSent # iBase, iSent # next
        PROVE  iSent % SeqSpace # 0
    BY <1>3, <2>3, <2>4, <2>7, <2>8
  <2>9. QED
    BY <2>2, <2>7, <2>8
<1> HIDE DEF before
<1>8. IcmpTypes' /\ IcmpNearInv'
  <2>1. /\ iFlight' \subseteq 0..(iSent' - 1)
        /\ \A n \in iFlight' : iSent' <= n + 1 + IcmpWindow
    <3>1. iFlight' \subseteq iFlight \cup {iSent}
      BY <1>2
    <3>2. ASSUME NEW n \in iFlight'
          PROVE  n \in 0..(iSent' - 1) /\ iSent' <= n + 1 + IcmpWindow
      <4>1. CASE n = iSent
        BY <1>2, <1>3, <4>1, IcmpNumbers
      <4>2. CASE n \in iFlight
        <5>1. n \in 0..(iSent - 1) /\ iSent - n <= IcmpWindow
          BY <1>2, <1>a, <4>2
        <5>2. QED
          BY <1>2, <1>3, <5>1, IcmpNumbers
      <4>3. QED
        BY <3>1, <4>1, <4>2
    <3>3. QED
      BY <3>2
  <2>2. iLost' \in Nat /\ iLost' <= IcmpLosses
    BY <1>2, <1>4, IcmpNumbers
  <2>3. QED
    BY <1>1, <1>2, <1>3, <2>1, <2>2 DEF IcmpTypes, IcmpNearInv
<1>9. IcmpBaseInv'
  BY <1>1, <1>2, <1>3, <1>6, IcmpNumbers DEF IcmpBaseInv
<1>10. IcmpFewInv'
  <2>1. UpTo(iFlight', iHigh) = UpTo(iFlight, iHigh)
    BY <1>2, <1>3, PartsOnSend
  <2>2. QED
    BY <1>1, <1>2, <2>1 DEF IcmpFewInv
<1>b. /\ Cardinality(FromOn(iFlight', iBase)) \in Nat
      /\ Cardinality(FromOn(iFlight', next)) \in Nat
      /\ iLost' \in Nat
  <2>1. iSent' \in Nat /\ iFlight' \in SUBSET (0..(iSent' - 1)) /\ iLost' \in Nat
    BY <1>8 DEF IcmpTypes
  <2> HIDE DEF next
  <2>2. QED
    BY <2>1, <1>a, PartsAreFinite
<1>11. /\ Cardinality(FromOn(iFlight', iBase)) + iLost'
            = Cardinality(FromOn(iFlight, iBase)) + before + 1
       /\ next <= iSent =>
            /\ Cardinality(FromOn(iFlight', next)) + iLost'
                 = Cardinality(FromOn(iFlight, next)) + before + 1
            /\ Between(iFlight', iBase, next) = Between(iFlight, iBase, next)
  <2>1. CASE lost
    BY <1>4, <1>5, <2>1
  <2>2. CASE sent
    <3>1. Cardinality(FromOn(iFlight \cup {iSent}, iBase))
            = Cardinality(FromOn(iFlight, iBase)) + 1
      BY <1>a, <1>6, PartsOnSend
    <3>2. next <= iSent =>
             /\ Cardinality(FromOn(iFlight \cup {iSent}, next))
                  = Cardinality(FromOn(iFlight, next)) + 1
             /\ Between(iFlight \cup {iSent}, iBase, next)
                  = Between(iFlight, iBase, next)
      <4> HIDE DEF next
      <4>1. QED
        BY <1>a, PartsOnSend
    <3>3. QED
      BY <1>4, <1>5, <2>2, <3>1, <3>2
  <2>3. QED
    BY <1>2, <2>1, <2>2
<1>12. IcmpManyInv'
  <2>1. CASE iSent + 1 <= next
    <3>1. iSent - iBase <= iSince + before + Cardinality(FromOn(iFlight, iBase))
      <4>1. CASE iSent = iBase
        BY <4>1, <1>3, <1>4, <1>5
      <4>2. CASE iSent # iBase
        BY <4>2, <2>1, <1>1, <1>3, <1>6 DEF IcmpManyInv
      <4>3. QED
        BY <4>1, <4>2
    <3>2. iSent + 1 - iBase
            <= iSince + iLost' + Cardinality(FromOn(iFlight', iBase))
      BY <1>3, <1>4, <1>5, <1>b, <1>11, <3>1
    <3>3. QED
      BY <1>2, <1>3, <2>1, <3>2 DEF IcmpManyInv
  <2>2. CASE iSent + 1 > next
    <3>1. SeqSpace <= iSince + IcmpLosses + Cardinality(Between(iFlight, iBase, next))
      <4>1. CASE iSent = next
        <5>1. FromOn(iFlight, iBase) = Between(iFlight, iBase, next)
          <6>1. \A m \in iFlight : m \in Int /\ m < next
            BY <4>1, <1>a
          <6>2. QED
            BY <6>1 DEF FromOn, Between
        <5>2. iSent - iBase <= iSince + iLost + Cardinality(FromOn(iFlight, iBase))
          BY <4>1, <1>1, <1>3 DEF IcmpManyInv
        <5>3. QED
          BY <4>1, <5>1, <5>2, <1>3, <1>5, IcmpNumbers
      <4>2. CASE iSent > next
        BY <4>2, <1>1 DEF IcmpManyInv
      <4>3. QED
        BY <4>1, <4>2, <2>2, <1>3
    <3>2. iSent - next <= before + Cardinality(FromOn(iFlight, next))
      <4>1. CASE iSent = next
        BY <4>1, <1>3, <1>4, <1>5
      <4>2. CASE iSent > next
        BY <4>2, <1>1, <1>3, <1>5, <1>6, IcmpNumbers DEF IcmpManyInv
      <4>3. QED
        BY <4>1, <4>2, <2>2, <1>3
    <3>3. iSent + 1 - iBase - SeqSpace <= iLost' + Cardinality(FromOn(iFlight', next))
      BY <1>3, <1>4, <1>5, <1>b, <1>11, <2>2, <3>2, IcmpNumbers
    <3>4. QED
      <4>1. next <= iSent /\ Between(iFlight', iBase, next) = Between(iFlight, iBase, next)
        BY <1>3, <1>11, <2>2
      <4>2. QED
        <5>1. ~(iSent' <= (iBase + SeqSpace)') /\ (iBase + SeqSpace)' = next
          BY <1>2, <1>3, <2>2, IcmpNumbers
        <5>2. /\ SeqSpace <= iSince + IcmpLosses
                   + Cardinality(Between(iFlight', iBase, next))
              /\ iSent' - iBase - SeqSpace
                   <= iLost' + Cardinality(FromOn(iFlight', next))
          <6>1. iSent' - iBase - SeqSpace = iSent + 1 - iBase - SeqSpace
            <7>1. iSent' = iSent + 1
              BY <1>2
            <7>2. QED
              BY <7>1, <1>3, IcmpNumbers
          <6>2. QED
            BY <3>1, <3>3, <4>1, <6>1
        <5>3. QED
          BY <1>2, <5>1, <5>2 DEF IcmpManyInv
  <2>3. QED
    BY <2>1, <2>2, <1>3
<1>13. IcmpNumbering'
  BY <1>1, <1>2, <1>3 DEF IcmpNumbering, Cycle
<1>14. QED
  BY <1>8, <1>9, <1>10, <1>12, <1>13 DEF IcmpInv

\* The effect of the receiver on a packet that does not wrap the numbers.
IcmpTaken(n) ==
  /\ iBase' = iBase /\ iSince' = iSince + 1
  /\ iLast' = [of |-> n, seq |-> iBase + (n % SeqSpace)]
  /\ iHigh' = IF n > iHigh THEN n ELSE iHigh

\* The effect on the first packet of the next cycle.
IcmpWraps(n) ==
  /\ iBase' = iBase + SeqSpace /\ iSince' = 1
  /\ iLast' = [of |-> n, seq |-> iBase + SeqSpace + (n % SeqSpace)]
  /\ iHigh' = IF n > iHigh THEN n ELSE iHigh

LEMMA IcmpArrivalIs ==
  ASSUME IcmpTypes, NEW n \in iFlight, IcmpArrives(n)
  PROVE  /\ iFlight' = iFlight \ {n}
         /\ UNCHANGED <<iUplink, iMain, iSndID, iSent, iLost>>
         /\ Wraps(n % SeqSpace) => IcmpWraps(n)
         /\ ~Wraps(n % SeqSpace) => IcmpTaken(n)
<1> DEFINE m == [type |-> IF iUplink THEN "echo" ELSE "reply",
                 id |-> OwnID, data |-> OwnID, punch |-> FALSE,
                 seq |-> n % SeqSpace]
<1>1. iUplink \/ iSndID = NatID
  BY DEF IcmpArrives, IcmpTypes
<1>2. IcmpReceive(m, n)
  BY <1>1 DEF IcmpArrives
<1>3. Matches(m) /\ m.seq = n % SeqSpace
  BY DEF Matches
<1> HIDE DEF m
<1>4. Wraps(n % SeqSpace) => IcmpWraps(n)
  <2>1. Wraps(m.seq) => IcmpWraps(n)
    BY <1>2, <1>3 DEF IcmpReceive, IcmpWraps
  <2>2. QED
    BY <1>3, <2>1
<1>5. ~Wraps(n % SeqSpace) => IcmpTaken(n)
  <2>1. ~Wraps(m.seq) => IcmpTaken(n)
    BY <1>2, <1>3 DEF IcmpReceive, IcmpTaken
  <2>2. QED
    BY <1>3, <2>1
<1>6. QED
  BY <1>4, <1>5 DEF IcmpArrives

\* What an arrival leaves to show: the receiver's variables.
LEMMA IcmpArrivalFrame ==
  ASSUME IcmpInv, NEW n \in iFlight, IcmpArrives(n),
         iBase' \in Nat, iSince' \in Nat,
         iHigh' = IF n > iHigh THEN n ELSE iHigh
  PROVE  IcmpTypes' /\ IcmpNearInv'
<1>1. IcmpTypes /\ IcmpNearInv
  BY DEF IcmpInv
<1>2. n \in 0..(iSent - 1) /\ iSent \in Nat
  BY <1>1 DEF IcmpTypes
<1>3. /\ iFlight' = iFlight \ {n}
      /\ UNCHANGED <<iUplink, iMain, iSndID, iSent, iLost>>
  BY <1>1, IcmpArrivalIs
<1>4. QED
  BY <1>1, <1>2, <1>3 DEF IcmpTypes, IcmpNearInv

\* A packet of an earlier cycle, or of the current one, is taken without a wrap.
LEMMA IcmpNoWrap ==
  ASSUME IcmpInv, NEW n \in iFlight, n < iBase + SeqSpace,
         NEW k \in Nat, iBase = SeqSpace * k
  PROVE  /\ ~Wraps(n % SeqSpace)
         /\ n >= iBase => Cycle(n) = k /\ n % SeqSpace = n - iBase
         /\ n < iBase => /\ Cycle(n) = k - 1 /\ n % SeqSpace = n - iBase + SeqSpace
                         /\ n < iHigh
<1>1. /\ IcmpTypes /\ IcmpNearInv /\ IcmpBaseInv /\ IcmpFewInv
  BY DEF IcmpInv
<1>2. /\ iSent \in Nat /\ iSince \in Nat /\ iBase \in Nat
      /\ iHigh \in Int /\ iHigh < iSent
      /\ iFlight \in SUBSET (0..(iSent - 1))
      /\ n \in Int /\ 0 <= n /\ n < iSent /\ iSent <= n + 1 + IcmpWindow
  BY <1>1, IcmpNumbers DEF IcmpTypes, IcmpNearInv
<1>3. Cardinality(UpTo(iFlight, iHigh)) \in Nat
  BY <1>2, PartsAreFinite
<1>4. iSince <= iHigh - iBase + 1 + IcmpWindow
  BY <1>1, <1>2, <1>3, IcmpNumbers DEF IcmpFewInv
<1>5. CASE n >= iBase
  <2>1. Cycle(n) = k /\ n % SeqSpace = n - iBase
    BY <1>2, <1>5, CycleIs
  <2>2. ASSUME n - iBase < LowSeq
        PROVE  iSince <= Half
    <3>1. CASE n > iHigh
      BY <1>2, <1>4, <2>2, <3>1, IcmpNumbers
    <3>2. CASE n <= iHigh
      <4>1. Cardinality(UpTo(iFlight, iHigh)) # 0
        <5>1. n \in UpTo(iFlight, iHigh) /\ IsFiniteSet(UpTo(iFlight, iHigh))
          BY <1>2, <3>2, PartsAreFinite DEF UpTo
        <5>2. QED
          BY <5>1, FS_EmptySet
      <4>2. iSince + 1 <= iHigh - iBase + 1 + IcmpWindow
        BY <1>1, <1>2, <1>3, <4>1, IcmpNumbers DEF IcmpFewInv
      <4>3. QED
        BY <1>2, <2>2, <4>2, IcmpNumbers
    <3>3. QED
      BY <1>2, <3>1, <3>2
  <2>3. QED
    BY <1>2, <1>5, <2>1, <2>2, IcmpNumbers DEF Wraps
<1>6. CASE n < iBase
  <2>1. iBase <= iHigh
    BY <1>1, <1>2, <1>6 DEF IcmpBaseInv
  <2>2. n >= iBase - IcmpWindow /\ n < iHigh
    BY <1>2, <1>6, <2>1, IcmpNumbers
  <2>3. k >= 1
    BY <1>2, <1>6, IcmpNumbers
  <2>4. k - 1 \in Nat /\ SeqSpace * (k - 1) = iBase - SeqSpace
    BY <2>3, IcmpNumbers
  <2>5. Cycle(n) = k - 1 /\ n % SeqSpace = n - (iBase - SeqSpace)
    <3>1. SeqSpace * (k - 1) <= n /\ n < SeqSpace * (k - 1) + SeqSpace
      BY <1>2, <1>6, <2>2, <2>4, IcmpNumbers
    <3>2. QED
      BY <1>2, <2>4, <3>1, CycleIs
  <2>6. ~(n % SeqSpace < LowSeq)
    BY <1>2, <2>2, <2>5, IcmpNumbers
  <2>7. QED
    BY <1>2, <1>6, <2>2, <2>5, <2>6, IcmpNumbers DEF Wraps
<1>7. QED
  BY <1>2, <1>5, <1>6, IcmpNumbers

\* The first packet of the next cycle to arrive wraps the numbers.
LEMMA IcmpWrapDue ==
  ASSUME IcmpInv, NEW n \in iFlight, n >= iBase + SeqSpace,
         NEW k \in Nat, iBase = SeqSpace * k
  PROVE  /\ Wraps(n % SeqSpace)
         /\ Cycle(n) = k + 1 /\ n % SeqSpace = n - iBase - SeqSpace
         /\ n < iBase + 2 * SeqSpace
<1>1. /\ IcmpTypes /\ IcmpNearInv /\ IcmpBaseInv /\ IcmpManyInv
  BY DEF IcmpInv
<1>2. /\ iSent \in Nat /\ iSince \in Nat /\ iBase \in Nat
      /\ iLost \in Nat /\ iLost <= IcmpLosses
      /\ iFlight \in SUBSET (0..(iSent - 1))
      /\ n \in Int /\ 0 <= n /\ n < iSent
      /\ iBase + SeqSpace \in Int /\ iSent > iBase + SeqSpace
  BY <1>1, IcmpNumbers DEF IcmpTypes
<1>3. /\ Cardinality(Between(iFlight, iBase, iBase + SeqSpace)) \in Nat
      /\ Cardinality(FromOn(iFlight, iBase + SeqSpace)) \in Nat
  <2>1. iBase \in Int /\ iBase + SeqSpace \in Int
    BY <1>2
  <2>2. QED
    BY <1>2, <2>1, PartsAreFinite
<1>4. /\ SeqSpace <= iSince + IcmpLosses
           + Cardinality(Between(iFlight, iBase, iBase + SeqSpace))
      /\ iSent - iBase - SeqSpace
           <= iLost + Cardinality(FromOn(iFlight, iBase + SeqSpace))
  BY <1>1, <1>2 DEF IcmpManyInv
<1>5. /\ Cardinality(FromOn(iFlight, iBase + SeqSpace)) <= IcmpWindow + 1
      /\ Cardinality(Between(iFlight, iBase, iBase + SeqSpace)) <= IcmpWindow
  BY <1>1, FlightIsPacked
<1>6. iSince > Half /\ n - iBase - SeqSpace < LowSeq
  BY <1>2, <1>3, <1>4, <1>5, IcmpNumbers
<1>7. n < iBase + 2 * SeqSpace
  BY <1>1, <1>2, IcmpNumbers DEF IcmpBaseInv
<1>8. k + 1 \in Nat /\ SeqSpace * (k + 1) = iBase + SeqSpace
  BY IcmpNumbers
<1>9. Cycle(n) = k + 1 /\ n % SeqSpace = n - (iBase + SeqSpace)
  <2>1. SeqSpace * (k + 1) <= n /\ n < SeqSpace * (k + 1) + SeqSpace
    BY <1>2, <1>7, <1>8, IcmpNumbers
  <2>2. QED
    BY <1>2, <1>8, <2>1, CycleIs
<1>10. QED
  BY <1>2, <1>6, <1>7, <1>9, IcmpNumbers DEF Wraps

\* The arrival of a packet that does not wrap the numbers.
LEMMA IcmpTakenStep ==
  ASSUME IcmpInv, NEW n \in iFlight, IcmpArrives(n), n < iBase + SeqSpace
  PROVE  IcmpInv'
<1> DEFINE next == iBase + SeqSpace
<1>1. /\ IcmpTypes /\ IcmpNearInv /\ IcmpBaseInv /\ IcmpFewInv /\ IcmpManyInv
  BY DEF IcmpInv
<1>2. PICK k \in Nat : iBase = SeqSpace * k
  BY <1>1 DEF IcmpBaseInv
<1>3. /\ ~Wraps(n % SeqSpace)
      /\ n >= iBase => Cycle(n) = k /\ n % SeqSpace = n - iBase
      /\ n < iBase => /\ Cycle(n) = k - 1 /\ n % SeqSpace = n - iBase + SeqSpace
                      /\ n < iHigh
  BY <1>2, IcmpNoWrap
<1>4. /\ iFlight' = iFlight \ {n} /\ iSent' = iSent /\ iLost' = iLost
      /\ iBase' = iBase /\ iSince' = iSince + 1
      /\ iLast' = [of |-> n, seq |-> iBase + (n % SeqSpace)]
      /\ iHigh' = IF n > iHigh THEN n ELSE iHigh
  BY <1>1, <1>3, IcmpArrivalIs DEF IcmpTaken
<1>5. /\ iSent \in Nat /\ iSince \in Nat /\ iBase \in Nat /\ iLost \in Nat
      /\ iHigh \in Int /\ -1 <= iHigh /\ iHigh < iSent
      /\ iFlight \in SUBSET (0..(iSent - 1))
      /\ n \in Int /\ 0 <= n /\ n < iSent
      /\ iBase \in Int /\ next \in Int
  BY <1>1, IcmpNumbers DEF IcmpTypes
<1>6. IcmpTypes' /\ IcmpNearInv'
  BY <1>4, <1>5, IcmpArrivalFrame
<1>7. /\ iBase <= iHigh' /\ iHigh' < next /\ n <= iHigh' /\ iHigh' \in Int
  <2>1. CASE n > iHigh
    BY <1>3, <1>4, <1>5, <2>1
  <2>2. CASE n <= iHigh
    BY <1>1, <1>4, <1>5, <2>2 DEF IcmpBaseInv
  <2>3. QED
    BY <1>5, <2>1, <2>2
<1>8. IcmpBaseInv'
  BY <1>1, <1>4, <1>7 DEF IcmpBaseInv
<1>9. IcmpFewInv'
  <2>1. Cardinality(UpTo(iFlight, iHigh)) \in Nat
    BY <1>5, PartsAreFinite
  <2>2. CASE n > iHigh
    <3>1. /\ IsFiniteSet(UpTo(iFlight, iHigh))
          /\ IsFiniteSet(UpTo(iFlight \ {n}, n))
      <4>1. iFlight \ {n} \in SUBSET (0..(iSent - 1))
        BY <1>5
      <4>2. QED
        BY <1>5, <4>1, PartsAreFinite
    <3>2. (iHigh + 1) \in Int /\ (n - 1) \in Int /\ iHigh + 1 <= (n - 1) + 1
      BY <1>5, <2>2
    <3>3. /\ IsFiniteSet((iHigh + 1)..(n - 1))
          /\ Cardinality((iHigh + 1)..(n - 1)) \in Nat
          /\ Cardinality((iHigh + 1)..(n - 1)) <= (n - 1) - (iHigh + 1) + 1
      BY <3>2, Packed
    <3>4. UpTo(iFlight \ {n}, n)
            \subseteq UpTo(iFlight, iHigh) \cup ((iHigh + 1)..(n - 1))
      <4>1. SUFFICES ASSUME NEW m \in iFlight, m # n, m <= n, ~(m <= iHigh)
                     PROVE  m \in (iHigh + 1)..(n - 1)
        BY DEF UpTo
      <4>2. m \in Int
        BY <1>5
      <4>3. QED
        BY <1>5, <4>1, <4>2
    <3>5. Cardinality(UpTo(iFlight \ {n}, n))
            <= Cardinality(UpTo(iFlight, iHigh)) + (n - iHigh - 1)
      <4> DEFINE A == UpTo(iFlight, iHigh)
                 B == (iHigh + 1)..(n - 1)
      <4>1. /\ IsFiniteSet(A \cup B) /\ IsFiniteSet(A \cap B)
            /\ Cardinality(A \cup B)
                 = Cardinality(A) + Cardinality(B) - Cardinality(A \cap B)
        BY <3>1, <3>3, FS_Union, FS_Intersection
      <4>2. Cardinality(A \cap B) \in Nat
        BY <4>1, FS_CardinalityType
      <4>3. Cardinality(UpTo(iFlight \ {n}, n)) <= Cardinality(A \cup B)
        BY <3>4, <4>1, FS_Subset
      <4>4. Cardinality(UpTo(iFlight \ {n}, n)) \in Nat
        BY <3>1, FS_CardinalityType
      <4>5. QED
        BY <1>5, <2>1, <3>3, <4>1, <4>2, <4>3, <4>4
    <3>6. Cardinality(UpTo(iFlight \ {n}, n)) \in Nat
      BY <3>1, FS_CardinalityType
    <3>7. iSince + Cardinality(UpTo(iFlight, iHigh)) <= iHigh - iBase + 1 + IcmpWindow
      BY <1>1 DEF IcmpFewInv
    <3>8. iSince + 1 + Cardinality(UpTo(iFlight \ {n}, n)) <= n - iBase + 1 + IcmpWindow
      BY <1>5, <2>1, <3>5, <3>6, <3>7, IcmpNumbers
    <3>9. QED
      BY <1>4, <2>2, <3>8 DEF IcmpFewInv
  <2>3. CASE n <= iHigh
    <3>1. Cardinality(UpTo(iFlight \ {n}, iHigh))
            = Cardinality(UpTo(iFlight, iHigh)) - 1
      <4>1. Cardinality(UpTo(iFlight \ {n}, iHigh))
              = Cardinality(UpTo(iFlight, iHigh)) - (IF n <= iHigh THEN 1 ELSE 0)
        <5>1. /\ iSent \in Nat /\ iFlight \in SUBSET (0..(iSent - 1))
              /\ n \in iFlight /\ iHigh \in Int
          BY <1>5
        <5>2. QED
          BY <5>1, PartsOnArrival
      <4>2. QED
        BY <2>3, <4>1
    <3>2. iSince + 1 + Cardinality(UpTo(iFlight \ {n}, iHigh))
            <= iHigh - iBase + 1 + IcmpWindow
      BY <1>1, <1>5, <2>1, <3>1, IcmpNumbers DEF IcmpFewInv
    <3>3. iHigh' = iHigh
      BY <1>4, <1>5, <2>3
    <3>4. QED
      BY <1>4, <3>2, <3>3 DEF IcmpFewInv
  <2>4. QED
    BY <1>5, <2>2, <2>3
<1>10. IcmpManyInv'
  <2> HIDE DEF next
  <2>1. /\ Cardinality(FromOn(iFlight, iBase)) \in Nat
        /\ Cardinality(FromOn(iFlight, next)) \in Nat
        /\ Cardinality(Between(iFlight, iBase, next)) \in Nat
    BY <1>5, PartsAreFinite
  <2>2. Cardinality(FromOn(iFlight \ {n}, iBase)) >= Cardinality(FromOn(iFlight, iBase)) - 1
    <3>1. Cardinality(FromOn(iFlight \ {n}, iBase))
            = Cardinality(FromOn(iFlight, iBase)) - (IF n >= iBase THEN 1 ELSE 0)
      BY <1>5, PartsOnArrival
    <3>2. QED
      BY <2>1, <3>1
  <2>3. Cardinality(FromOn(iFlight \ {n}, next)) = Cardinality(FromOn(iFlight, next))
    <3>1. ~(n >= next)
      BY <1>5 DEF next
    <3>2. Cardinality(FromOn(iFlight \ {n}, next)) = Cardinality(FromOn(iFlight, next)) - 0
      BY <1>5, <3>1, PartsOnArrival
    <3>3. QED
      BY <2>1, <3>2
  <2>4. Cardinality(Between(iFlight \ {n}, iBase, next))
          >= Cardinality(Between(iFlight, iBase, next)) - 1
    BY <1>5, <2>1, PartsOnArrival
  <2>5. /\ Cardinality(FromOn(iFlight \ {n}, iBase)) \in Nat
        /\ Cardinality(Between(iFlight \ {n}, iBase, next)) \in Nat
    <3>1. iFlight \ {n} \in SUBSET (0..(iSent - 1))
      BY <1>5
    <3>2. QED
      BY <1>5, <3>1, PartsAreFinite
  <2>6. iSent <= next =>
          iSent - iBase <= iSince + 1 + iLost + Cardinality(FromOn(iFlight \ {n}, iBase))
    BY <1>1, <1>5, <2>1, <2>2, <2>5 DEF IcmpManyInv, next
  <2>7. iSent > next =>
          SeqSpace <= iSince + 1 + IcmpLosses
             + Cardinality(Between(iFlight \ {n}, iBase, next))
    BY <1>1, <1>5, <2>1, <2>4, <2>5, IcmpNumbers DEF IcmpManyInv, next
  <2>8. iSent > next =>
          iSent - iBase - SeqSpace <= iLost + Cardinality(FromOn(iFlight \ {n}, next))
    BY <1>1, <2>3 DEF IcmpManyInv, next
  <2>9. QED
    BY <1>4, <2>6, <2>7, <2>8 DEF IcmpManyInv, next
<1>11. IcmpNumbering'
  <2>1. Cycle(iHigh') = k
    BY <1>2, <1>5, <1>7, CycleIs
  <2>2. /\ iLast'.of = n /\ iLast'.seq = iBase + (n % SeqSpace)
    BY <1>4
  <2>3. iLast'.seq = n + SeqSpace * (k - Cycle(n))
    <3>1. CASE n >= iBase
      <4>1. SeqSpace * (k - k) = 0
        BY IcmpNumbers
      <4>2. QED
        BY <1>3, <1>5, <2>2, <3>1, <4>1
    <3>2. CASE n < iBase
      <4>1. SeqSpace * (k - (k - 1)) = SeqSpace
        BY IcmpNumbers
      <4>2. QED
        BY <1>3, <1>5, <2>2, <3>2, <4>1, IcmpNumbers
    <3>3. QED
      BY <1>5, <3>1, <3>2
  <2>4. n \in 0..(iSent - 1)
    BY <1>5
  <2>5. (iLast.of)' = n /\ (iLast.seq)' = n + SeqSpace * (k - Cycle(n))
    BY <2>2, <2>3
  <2>6. QED
    BY <1>2, <1>4, <2>1, <2>4, <2>5 DEF IcmpNumbering, Cycle
<1>12. QED
  BY <1>6, <1>8, <1>9, <1>10, <1>11 DEF IcmpInv

\* The arrival of the first packet of the next cycle.
LEMMA IcmpWrapStep ==
  ASSUME IcmpInv, NEW n \in iFlight, IcmpArrives(n), n >= iBase + SeqSpace
  PROVE  IcmpInv'
<1> DEFINE next == iBase + SeqSpace
<1>1. /\ IcmpTypes /\ IcmpNearInv /\ IcmpBaseInv /\ IcmpFewInv /\ IcmpManyInv
  BY DEF IcmpInv
<1>2. PICK k \in Nat : iBase = SeqSpace * k
  BY <1>1 DEF IcmpBaseInv
<1>3. /\ Wraps(n % SeqSpace)
      /\ Cycle(n) = k + 1 /\ n % SeqSpace = n - iBase - SeqSpace
      /\ n < iBase + 2 * SeqSpace
  BY <1>2, IcmpWrapDue
<1>4. /\ iSent \in Nat /\ iSince \in Nat /\ iBase \in Nat /\ iLost \in Nat
      /\ iHigh \in Int /\ iHigh < iSent
      /\ iFlight \in SUBSET (0..(iSent - 1))
      /\ n \in Int /\ 0 <= n /\ n < iSent
      /\ next \in Int /\ next \in Nat
  BY <1>1, IcmpNumbers DEF IcmpTypes
<1>5. iHigh < n
  BY <1>1, <1>4, IcmpNumbers DEF IcmpBaseInv
<1>6. /\ iFlight' = iFlight \ {n} /\ iSent' = iSent /\ iLost' = iLost
      /\ iBase' = next /\ iSince' = 1 /\ iHigh' = n
      /\ iLast' = [of |-> n, seq |-> next + (n % SeqSpace)]
  BY <1>1, <1>3, <1>4, <1>5, IcmpArrivalIs DEF IcmpWraps
<1>7. IcmpTypes' /\ IcmpNearInv'
  BY <1>4, <1>5, <1>6, IcmpArrivalFrame
<1>8. IcmpBaseInv'
  <2>1. k + 1 \in Nat /\ next = SeqSpace * (k + 1)
    BY <1>2, IcmpNumbers
  <2>2. next <= n /\ n < next + SeqSpace /\ iSent <= next + 2 * SeqSpace
    BY <1>1, <1>3, <1>4, IcmpNumbers DEF IcmpBaseInv
  <2>3. QED
    BY <1>6, <2>1, <2>2 DEF IcmpBaseInv
<1>9. IcmpFewInv'
  <2>1. Cardinality(UpTo(iFlight \ {n}, n)) <= IcmpWindow
    BY <1>1, FlightIsPacked
  <2>2. Cardinality(UpTo(iFlight \ {n}, n)) \in Nat
    <3>1. iFlight \ {n} \in SUBSET (0..(iSent - 1))
      BY <1>4
    <3>2. QED
      BY <1>4, <3>1, PartsAreFinite
  <2>3. 1 + Cardinality(UpTo(iFlight \ {n}, n)) <= n - next + 1 + IcmpWindow
    BY <1>4, <2>1, <2>2, IcmpNumbers
  <2>4. QED
    BY <1>6, <2>3 DEF IcmpFewInv
<1>10. IcmpManyInv'
  <2>1. iSent > next /\ iSent <= next + SeqSpace
    BY <1>1, <1>4, IcmpNumbers DEF IcmpBaseInv
  <2>2. iSent - iBase - SeqSpace <= iLost + Cardinality(FromOn(iFlight, next))
    BY <1>1, <2>1 DEF IcmpManyInv
  <2>3. Cardinality(FromOn(iFlight \ {n}, next)) = Cardinality(FromOn(iFlight, next)) - 1
    <3> HIDE DEF next
    <3>1. n >= next
      BY DEF next
    <3>2. QED
      BY <1>4, <3>1, PartsOnArrival
  <2>4. Cardinality(FromOn(iFlight, next)) \in Nat
    <3> HIDE DEF next
    <3>1. QED
      BY <1>4, PartsAreFinite
  <2>5. iSent - next <= 1 + iLost + Cardinality(FromOn(iFlight \ {n}, next))
    BY <1>4, <2>2, <2>3, <2>4, IcmpNumbers
  <2>6. ~(iSent > next + SeqSpace)
    BY <1>4, <2>1, IcmpNumbers
  <2>7. QED
    BY <1>6, <2>5, <2>6 DEF IcmpManyInv
<1>11. IcmpNumbering'
  <2>1. iLast'.of = n /\ iLast'.seq = n
    BY <1>3, <1>4, <1>6, IcmpNumbers
  <2>2. SeqSpace * (Cycle(n) - Cycle(n)) = 0
    BY <1>3, IcmpNumbers
  <2>3. next = SeqSpace * Cycle(n)
    BY <1>2, <1>3, IcmpNumbers
  <2>4. n \in 0..(iSent - 1) /\ n = n + 0
    BY <1>4
  <2>5. QED
    BY <1>6, <2>1, <2>2, <2>3, <2>4 DEF IcmpNumbering, Cycle
<1>12. QED
  BY <1>7, <1>8, <1>9, <1>10, <1>11 DEF IcmpInv

LEMMA IcmpStep ==
  ASSUME IcmpInv, [IcmpNext]_icmpVars
  PROVE  IcmpInv'
<1>1. CASE IcmpRequest \/ IcmpProbe \/ IcmpNoProbe \/ IcmpMalformed \/ IcmpOver
  <2>1. IcmpSame
    BY <1>1 DEF IcmpRequest, IcmpProbe, IcmpNoProbe, IcmpMalformed, IcmpOver,
       IcmpSame, IcmpReceiverVars
  <2>2. iMain' = "run" => iUplink' \/ iSndID' = NatID
    <3>1. CASE IcmpProbe
      BY <3>1 DEF IcmpProbe, IsProbe, IcmpNoise, OwnID, OtherID, NatID
    <3>2. CASE ~IcmpProbe
      BY <1>1, <3>2 DEF IcmpRequest, IcmpNoProbe, IcmpMalformed, IcmpOver
    <3>3. QED
      BY <3>1, <3>2
  <2>3. QED
    BY <2>1, <2>2, IcmpQuietSteps
<1>2. ASSUME NEW n \in iFlight, IcmpArrives(n)
      PROVE  IcmpInv'
  <2>1. n \in Int /\ iBase + SeqSpace \in Int
    BY IcmpNumbers DEF IcmpInv, IcmpTypes
  <2>2. QED
    BY <1>2, <2>1, IcmpTakenStep, IcmpWrapStep
<1>3. CASE UNCHANGED icmpVars
  BY <1>3, IcmpQuietSteps DEF icmpVars, IcmpSame, IcmpInv, IcmpTypes
<1>4. QED
  BY <1>1, <1>2, <1>3, IcmpSendStep, IcmpNoiseStep DEF IcmpNext

\* In every test, for any number of packets, losses and reorderings within
\* IcmpAssumption, the receiver extends the sequence numbers exactly once per
\* cycle, and every record is of a packet of this test with that packet's number, or
\* a whole cycle more when the packet was overtaken across the wrap.
THEOREM NumbersAreExtended == Spec => []IcmpNumbering
<1>1. Init => IcmpInv
  <2>1. SUFFICES ASSUME IcmpIdle PROVE IcmpInv
    BY DEF Init
  <2>2. IcmpTypes /\ IcmpNearInv /\ IcmpNumbering
    BY <2>1, IcmpNumbers DEF IcmpIdle, IcmpTypes, IcmpNearInv, IcmpNumbering
  <2>3. IcmpBaseInv
    <3>1. 0 \in Nat /\ iBase = SeqSpace * 0
      BY <2>1, IcmpNumbers DEF IcmpIdle
    <3>2. QED
      BY <2>1, <3>1, IcmpNumbers DEF IcmpIdle, IcmpBaseInv
  <2>4. IcmpFewInv /\ IcmpManyInv
    <3>1. /\ UpTo(iFlight, iHigh) = {} /\ FromOn(iFlight, iBase) = {}
      BY <2>1 DEF IcmpIdle, UpTo, FromOn
    <3>2. QED
      BY <2>1, <3>1, FS_EmptySet, IcmpNumbers DEF IcmpIdle, IcmpFewInv, IcmpManyInv
  <2>5. QED
    BY <2>2, <2>3, <2>4 DEF IcmpInv
<1>2. IcmpInv /\ [Next]_testVars => IcmpInv'
  BY IcmpStep DEF Next, testVars
<1>3. IcmpInv => IcmpNumbering
  BY DEF IcmpInv
<1>4. QED
  BY <1>1, <1>2, <1>3, PTL DEF Spec

(***************************************************************************)
(* The rows of the results.                                                *)
(***************************************************************************)
\* Every non-empty set of naturals has a least element.
LEMMA LeastNat ==
  ASSUME NEW T, T \subseteq Nat, T # {}
  PROVE  \E n \in T : \A m \in T : n <= m
<1> DEFINE Less == {ss \in Nat \X Nat : ss[1] < ss[2]}
<1>1. IsWellFoundedOn(Less, Nat)
  BY NatLessThanWellFounded DEF OpToRel
<1> HIDE DEF Less
<1>2. PICK n \in T : \A m \in T : ~(<<m, n>> \in Less)
  BY <1>1, WFMin
<1>3. ASSUME NEW m \in T PROVE n <= m
  <2>1. m \in Nat /\ n \in Nat /\ <<m, n>> \notin Less
    BY <1>2
  <2>2. m < n => <<m, n>> \in Less
    BY <2>1 DEF Less
  <2>3. QED
    BY <2>1, <2>2
<1>4. QED
  BY <1>3

\* A function on 1..n is a sequence of length n.
LEMMA LenOf ==
  ASSUME NEW X, NEW n \in Nat, NEW f \in [1..n -> X]
  PROVE  f \in Seq(X) /\ Len(f) = n /\ DOMAIN f = 1..n
<1>1. f \in Seq(X)
  BY SeqDef
<1>2. Len(f) \in Nat /\ DOMAIN f = 1..Len(f)
  BY <1>1, LenProperties
<1>3. DOMAIN f = 1..n
  OBVIOUS
<1>4. Len(f) = n
  BY <1>2, <1>3
<1>5. QED
  BY <1>1, <1>3, <1>4

\* A result as processUDP builds them.
ResultSet == [seq : Nat, ts : Nat, lost : BOOLEAN, dups : Seq(Nat)]

\* The copies of packet q are the sorted messages from a to before b.
CopiesAt(q, a, b) ==
  \A i \in 1..Len(rRcvd) : rRcvd[i].seq = q <=> a <= i /\ i < b

\* r tells the truth about packet q.
ResultIs(q, a, b, r) ==
  /\ a <= b /\ CopiesAt(q, a, b)
  /\ r.seq = q /\ r.lost = (a = b)
  /\ a = b => r.ts = Empty /\ r.dups = <<>>
  /\ a < b => /\ r.ts = rRcvd[a].ts
              /\ r.dups = [n \in 1..(b - a - 1) |-> rRcvd[a + n].ts]

\* The sorted messages are the recorded ones in another order.
ResSortInv ==
  /\ rInput \in Seq(Rcvd) /\ Len(rInput) <= MaxRcvdRows
  /\ rRcvd \in Seq(Rcvd) /\ Len(rRcvd) = Len(rInput)
  /\ \E p \in Bijection(1..Len(rInput), 1..Len(rInput)) :
       \A i \in 1..Len(rInput) : rRcvd[i] = rInput[p[i]]
  /\ \A i, j \in 1..Len(rRcvd) : i < j => ~Precedes(rRcvd[j], rRcvd[i])

\* resultIdx is the first message that no packet so far has taken, and every
\* result so far is true.
ResMatchInv ==
  /\ rSent \in Nat /\ rIdx \in 1..(Len(rRcvd) + 1)
  /\ rResults \in Seq(ResultSet) /\ Len(rResults) <= rSent
  /\ \A i \in 1..Len(rRcvd) : i < rIdx <=> rRcvd[i].seq < Len(rResults)
  /\ \A q \in 1..Len(rResults) : \E a, b \in 1..(Len(rRcvd) + 1) :
       ResultIs(q - 1, a, b, rResults[q])

ResInv ==
  /\ rPhase = "off" => ResIdle
  /\ rPhase # "off" => ResSortInv /\ ResMatchInv
  /\ rPhase \in {"rows", "done"} => Len(rResults) = rSent
  /\ rPhase = "done" =>
       rRows = <<4 + MaxDups>> \o [i \in DOMAIN rResults |-> Row(rResults[i])]

LEMMA ResRequestStep ==
  ASSUME ResInv, ResRequest
  PROVE  ResInv'
<1>1. PICK k \in 0..MaxRcvdRows : rInput' \in [1..k -> Rcvd]
  BY DEF ResRequest
<1>2. /\ rPhase' = "match" /\ rSent' \in 0..MaxSentRows
      /\ rIdx' = 1 /\ rResults' = <<>>
      /\ rRcvd' \in Sorted(rInput')
  BY DEF ResRequest, ResInv, ResIdle
<1>3. MaxSentRows \in Nat /\ MaxRcvdRows \in Nat
  BY ResAssumption
<1>4. /\ rInput' \in Seq(Rcvd) /\ Len(rInput') = k /\ DOMAIN rInput' = 1..k
      /\ k \in Nat
  BY <1>1, <1>3, LenOf
<1>5. PICK p \in Bijection(1..k, 1..k) : rRcvd' = [i \in 1..k |-> rInput'[p[i]]]
  BY <1>2, <1>4 DEF Sorted
<1>6. p \in [1..k -> 1..k]
  BY <1>5 DEF Bijection, Injection
<1>7. rRcvd' \in [1..k -> Rcvd]
  BY <1>1, <1>5, <1>6
<1>8. rRcvd' \in Seq(Rcvd) /\ Len(rRcvd') = k
  BY <1>4, <1>7, LenOf
<1>9. \A i, j \in 1..k : i < j => ~Precedes(rRcvd'[j], rRcvd'[i])
  BY <1>2, <1>4 DEF Sorted
<1>10. ResSortInv'
  <2>1. \A i \in 1..k : rRcvd'[i] = rInput'[p[i]]
    BY <1>5
  <2>2. k <= MaxRcvdRows
    BY <1>3
  <2>3. QED
    BY <1>4, <1>5, <1>8, <1>9, <2>1, <2>2 DEF ResSortInv, Precedes
<1>11. ResMatchInv'
  <2>1. rResults' \in Seq(ResultSet) /\ Len(rResults') = 0
    BY <1>2
  <2>2. \A i \in 1..k : rRcvd'[i].seq \in Nat
    BY <1>3, <1>7 DEF Rcvd
  <2>3. rIdx' \in 1..(Len(rRcvd') + 1) /\ rSent' \in Nat
    BY <1>2, <1>3, <1>4, <1>8
  <2>4. QED
    BY <1>2, <1>4, <1>8, <2>1, <2>2, <2>3 DEF ResMatchInv
<1>12. QED
  BY <1>2, <1>10, <1>11 DEF ResInv

\* What the sorted messages are made of.
LEMMA RcvdTypes ==
  ASSUME ResSortInv, NEW i \in 1..Len(rRcvd)
  PROVE  /\ Len(rRcvd) \in Nat
         /\ rRcvd[i].seq \in Nat /\ rRcvd[i].ts \in Nat
         /\ rRcvd[i].ts # Empty
<1>1. Len(rRcvd) \in Nat /\ rRcvd[i] \in Rcvd
  BY DEF ResSortInv
<1>2. rRcvd[i].seq \in 0..MaxSentRows /\ rRcvd[i].ts \in ResTimes
  BY <1>1 DEF Rcvd
<1>3. MaxSentRows \in Nat /\ ResTimes \subseteq Nat \ {Empty}
  BY ResAssumption
<1>4. rRcvd[i].ts \in Nat /\ rRcvd[i].ts # Empty
  BY <1>2, <1>3
<1>5. QED
  BY <1>1, <1>2, <1>3, <1>4

\* Numbers never fall, and among copies times never do.
LEMMA RcvdSorted ==
  ASSUME ResSortInv, NEW i \in 1..Len(rRcvd), NEW j \in 1..Len(rRcvd), i <= j
  PROVE  /\ rRcvd[i].seq <= rRcvd[j].seq
         /\ rRcvd[i].seq = rRcvd[j].seq => rRcvd[i].ts <= rRcvd[j].ts
<1>1. /\ rRcvd[i].seq \in Nat /\ rRcvd[i].ts \in Nat
      /\ rRcvd[j].seq \in Nat /\ rRcvd[j].ts \in Nat
  BY RcvdTypes
<1>2. CASE i = j
  BY <1>1, <1>2
<1>3. CASE i < j
  <2>1. ~Precedes(rRcvd[j], rRcvd[i])
    BY <1>3 DEF ResSortInv
  <2>2. QED
    BY <1>1, <2>1 DEF Precedes
<1>4. Len(rRcvd) \in Nat
  BY DEF ResSortInv
<1>5. QED
  BY <1>2, <1>3, <1>4

\* The inner loop stops behind the last copy.
LEMMA SkipCopiesIs ==
  ASSUME ResSortInv, NEW s \in Nat, NEW i \in 1..(Len(rRcvd) + 1)
  PROVE  LET j == SkipCopies(i, s) IN
           /\ j \in i..(Len(rRcvd) + 1)
           /\ \A k \in i..(j - 1) : rRcvd[k].seq = s
           /\ j = Len(rRcvd) + 1 \/ rRcvd[j].seq # s
<1> DEFINE N == Len(rRcvd)
           T == {j \in i..(N + 1) : j = N + 1 \/ rRcvd[j].seq # s}
<1>1. N \in Nat
  BY DEF ResSortInv
<1>2. T \subseteq Nat /\ N + 1 \in T
  BY <1>1
<1>3. PICK j \in T : \A m \in T : j <= m
  BY <1>2, LeastNat
<1>4. ASSUME NEW k \in i..(j - 1)
      PROVE  rRcvd[k].seq = s
  <2>1. k \in i..(N + 1) /\ ~(j <= k) /\ k # N + 1
    BY <1>1, <1>3
  <2>2. QED
    BY <1>3, <2>1
<1>5. \E m \in i..(N + 1) :
        /\ \A k \in i..(m - 1) : rRcvd[k].seq = s
        /\ m = N + 1 \/ rRcvd[m].seq # s
  BY <1>3, <1>4
<1>6. QED
  BY <1>5 DEF SkipCopies

\* A round appends one result, which is true, and moves resultIdx past the
\* copies of the packet.
LEMMA MatchIs ==
  ASSUME ResSortInv, ResMatchInv, Match(Len(rResults))
  PROVE  \E r \in ResultSet, a, b \in 1..(Len(rRcvd) + 1) :
           /\ rResults' = Append(rResults, r)
           /\ ResultIs(Len(rResults), a, b, r)
           /\ rIdx' = b
           /\ \A i \in 1..Len(rRcvd) :
                i < b <=> rRcvd[i].seq < Len(rResults) + 1
<1> DEFINE N == Len(rRcvd)
           s == Len(rResults)
<1>1. /\ N \in Nat /\ s \in Nat /\ rIdx \in 1..(N + 1)
      /\ \A i \in 1..N : i < rIdx <=> rRcvd[i].seq < s
  BY DEF ResSortInv, ResMatchInv
<1>2. \A i \in 1..N : rRcvd[i].seq \in Nat /\ rRcvd[i].ts \in Nat
  BY RcvdTypes
<1>3. \A i, j \in 1..N : i <= j => rRcvd[i].seq <= rRcvd[j].seq
  BY RcvdSorted
<1>4. CASE rIdx > N \/ s < rRcvd[rIdx].seq
  <2> DEFINE r == [seq |-> s, ts |-> Empty, lost |-> TRUE, dups |-> <<>>]
  <2>1. rResults' = Append(rResults, r) /\ rIdx' = rIdx
    BY <1>4 DEF Match
  <2>2. r \in ResultSet
    <3>1. <<>> \in Seq(Nat) /\ Empty \in Nat
      BY DEF Empty
    <3>2. QED
      BY <1>1, <3>1 DEF ResultSet
  <2>3. \A i \in 1..N : ~(i < rIdx) => rRcvd[i].seq > s
    <3>1. SUFFICES ASSUME NEW i \in 1..N, ~(i < rIdx)
                   PROVE  rRcvd[i].seq > s
      OBVIOUS
    <3>2. rIdx \in 1..N /\ rIdx <= i
      BY <1>1, <3>1
    <3>3. rRcvd[rIdx].seq > s /\ rRcvd[rIdx].seq <= rRcvd[i].seq
      BY <1>1, <1>2, <1>3, <1>4, <3>2
    <3>4. QED
      BY <1>1, <1>2, <3>2, <3>3
  <2>4. CopiesAt(s, rIdx, rIdx)
    BY <1>1, <1>2, <2>3 DEF CopiesAt
  <2>5. \A i \in 1..N : i < rIdx <=> rRcvd[i].seq < s + 1
    BY <1>1, <1>2, <2>3
  <2>6. ResultIs(s, rIdx, rIdx, r)
    <3>1. r.seq = s /\ r.ts = Empty /\ r.lost = TRUE /\ r.dups = <<>>
      OBVIOUS
    <3> HIDE DEF r
    <3>2. rIdx <= rIdx /\ ~(rIdx < rIdx)
      BY <1>1
    <3>3. r.lost = (rIdx = rIdx)
      BY <3>1
    <3>4. QED
      BY <2>4, <3>1, <3>2, <3>3 DEF ResultIs
  <2>7. QED
    BY <1>1, <2>1, <2>2, <2>5, <2>6
<1>5. CASE ~(rIdx > N \/ s < rRcvd[rIdx].seq)
  <2>1. rIdx \in 1..N /\ s = rRcvd[rIdx].seq
    <3>1. rIdx \in 1..N
      BY <1>1, <1>5
    <3>2. rRcvd[rIdx].seq \in Nat /\ ~(rRcvd[rIdx].seq < s)
      BY <1>1, <1>2, <3>1
    <3>3. QED
      BY <1>1, <1>5, <3>1, <3>2
  <2> DEFINE next == SkipCopies(rIdx + 1, s)
             dups == [n \in 1..(next - rIdx - 1) |-> rRcvd[rIdx + n].ts]
             r == [seq |-> s, ts |-> rRcvd[rIdx].ts, lost |-> FALSE, dups |-> dups]
  <2>2. rResults' = Append(rResults, r) /\ rIdx' = next
    BY <1>5, <2>1 DEF Match
  <2>3. rIdx + 1 \in 1..(N + 1)
    BY <1>1, <2>1
  <2>4. /\ next \in (rIdx + 1)..(N + 1)
        /\ \A k \in (rIdx + 1)..(next - 1) : rRcvd[k].seq = s
        /\ next = N + 1 \/ rRcvd[next].seq # s
    BY <1>1, <2>3, SkipCopiesIs
  <2> HIDE DEF next
  <2>5. next \in Nat /\ rIdx < next /\ next <= N + 1 /\ next \in 1..(N + 1)
    BY <1>1, <2>1, <2>4
  <2>6. r \in ResultSet
    <3>1. ASSUME NEW n \in 1..(next - rIdx - 1)
          PROVE  rRcvd[rIdx + n].ts \in Nat
      <4>1. rIdx + n \in 1..N
        BY <1>1, <2>1, <2>5
      <4>2. QED
        BY <1>2, <4>1
    <3>2. dups \in [1..(next - rIdx - 1) -> Nat] /\ next - rIdx - 1 \in Nat
      BY <1>1, <2>5, <3>1
    <3>3. dups \in Seq(Nat)
      BY <3>2, LenOf
    <3> HIDE DEF dups
    <3>4. QED
      BY <1>1, <1>2, <2>1, <3>3 DEF ResultSet
  <2>7. ASSUME NEW i \in 1..N
        PROVE  /\ i < rIdx => rRcvd[i].seq < s
               /\ rIdx <= i /\ i < next => rRcvd[i].seq = s
               /\ next <= i => rRcvd[i].seq > s
    <3>1. i < rIdx => rRcvd[i].seq < s
      BY <1>1
    <3>2. ASSUME rIdx <= i, i < next PROVE rRcvd[i].seq = s
      <4>1. i = rIdx \/ i \in (rIdx + 1)..(next - 1)
        BY <1>1, <2>5, <3>2
      <4>2. QED
        BY <2>1, <2>4, <4>1
    <3>3. ASSUME next <= i PROVE rRcvd[i].seq > s
      <4>1. next \in 1..N /\ next # N + 1 /\ ~(next < rIdx)
        BY <1>1, <2>5, <3>3
      <4>2. rRcvd[next].seq # s /\ ~(rRcvd[next].seq < s) /\ rRcvd[next].seq \in Nat
        BY <1>1, <1>2, <2>4, <4>1
      <4>3. rRcvd[next].seq <= rRcvd[i].seq /\ rRcvd[i].seq \in Nat
        BY <1>2, <1>3, <3>3, <4>1
      <4>4. QED
        BY <1>1, <4>2, <4>3
    <3>4. QED
      BY <3>1, <3>2, <3>3
  <2>8. CopiesAt(s, rIdx, next)
    BY <1>1, <1>2, <2>5, <2>7 DEF CopiesAt
  <2>9. \A i \in 1..N : i < next <=> rRcvd[i].seq < s + 1
    BY <1>1, <1>2, <2>5, <2>7
  <2>10. ResultIs(s, rIdx, next, r)
    <3>1. r.seq = s /\ r.ts = rRcvd[rIdx].ts /\ r.lost = FALSE /\ r.dups = dups
      OBVIOUS
    <3> HIDE DEF r
    <3>2. rIdx <= next /\ rIdx # next
      BY <1>1, <2>5
    <3>3. r.lost = (rIdx = next)
      BY <3>1, <3>2
    <3>4. QED
      BY <2>8, <3>1, <3>2, <3>3 DEF ResultIs
  <2>11. QED
    BY <1>1, <2>2, <2>5, <2>6, <2>9, <2>10
<1>6. QED
  BY <1>4, <1>5

LEMMA ResMatchStep ==
  ASSUME ResInv, ResMatch
  PROVE  ResInv'
<1>1. /\ rPhase = "match" /\ rSent' = rSent /\ rInput' = rInput
      /\ rRcvd' = rRcvd /\ rRows' = rRows
      /\ ResSortInv /\ ResMatchInv
  BY DEF ResMatch, ResInv
<1>2. ResSortInv'
  BY <1>1 DEF ResSortInv, Precedes
<1>3. CASE Len(rResults) < rSent
  <2>1. Match(Len(rResults)) /\ rPhase' = "match"
    BY <1>1, <1>3 DEF ResMatch
  <2>2. PICK r \in ResultSet, a \in 1..(Len(rRcvd) + 1), b \in 1..(Len(rRcvd) + 1) :
           /\ rResults' = Append(rResults, r)
           /\ ResultIs(Len(rResults), a, b, r)
           /\ rIdx' = b
           /\ \A i \in 1..Len(rRcvd) :
                i < b <=> rRcvd[i].seq < Len(rResults) + 1
    BY <1>1, <2>1, MatchIs
  <2>3. /\ rSent \in Nat /\ rResults \in Seq(ResultSet) /\ Len(rResults) \in Nat
        /\ rResults' \in Seq(ResultSet) /\ Len(rResults') = Len(rResults) + 1
        /\ rResults'[Len(rResults) + 1] = r
        /\ \A q \in 1..Len(rResults) : rResults'[q] = rResults[q]
    BY <1>1, <2>2, AppendProperties DEF ResMatchInv
  <2>4. Len(rResults') <= rSent
    BY <1>3, <2>3
  <2>5. ASSUME NEW q \in 1..Len(rResults')
        PROVE  \E c, d \in 1..(Len(rRcvd) + 1) : ResultIs(q - 1, c, d, rResults'[q])
    <3>1. CASE q = Len(rResults) + 1
      BY <2>2, <2>3, <3>1
    <3>2. CASE q \in 1..Len(rResults)
      BY <1>1, <2>3, <3>2 DEF ResMatchInv
    <3>3. QED
      BY <2>3, <3>1, <3>2
  <2>6. \A q, c, d, x : ResultIs(q, c, d, x)' <=> ResultIs(q, c, d, x)
    BY <1>1 DEF ResultIs, CopiesAt
  <2>7. ResMatchInv'
    BY <1>1, <2>2, <2>3, <2>4, <2>5, <2>6 DEF ResMatchInv
  <2>8. QED
    BY <1>2, <2>1, <2>7 DEF ResInv
<1>4. CASE ~(Len(rResults) < rSent)
  <2>1. rPhase' = "rows" /\ rIdx' = rIdx /\ rResults' = rResults
    BY <1>1, <1>4 DEF ResMatch
  <2>2. ResMatchInv'
    <3>1. \A q, c, d, x : ResultIs(q, c, d, x)' <=> ResultIs(q, c, d, x)
      BY <1>1 DEF ResultIs, CopiesAt
    <3>2. QED
      BY <1>1, <2>1, <3>1 DEF ResMatchInv
  <2>3. Len(rResults') = rSent'
    <3>1. rSent \in Nat /\ Len(rResults) \in Nat /\ Len(rResults) <= rSent
      BY <1>1 DEF ResMatchInv
    <3>2. QED
      BY <1>1, <1>4, <2>1, <3>1
  <2>4. QED
    BY <1>2, <2>1, <2>2, <2>3 DEF ResInv
<1>5. QED
  BY <1>3, <1>4

LEMMA ResRowsStep ==
  ASSUME ResInv, ResRows
  PROVE  ResInv'
<1>1. /\ rPhase = "rows" /\ rPhase' = "done"
      /\ UNCHANGED <<rSent, rInput, rRcvd, rIdx, rResults>>
      /\ ResSortInv /\ ResMatchInv /\ Len(rResults) = rSent
  BY DEF ResRows, ResInv
<1>2. ResSortInv'
  BY <1>1 DEF ResSortInv, Precedes
<1>3. ResMatchInv'
  <2>1. \A q, c, d, x : ResultIs(q, c, d, x)' <=> ResultIs(q, c, d, x)
    BY <1>1 DEF ResultIs, CopiesAt
  <2>2. QED
    BY <1>1, <2>1 DEF ResMatchInv
<1>4. rRows' = (<<4 + MaxDups>> \o [i \in DOMAIN rResults |-> Row(rResults[i])])'
  BY <1>1 DEF ResRows, Row, MaxDups
<1>5. QED
  BY <1>1, <1>2, <1>3, <1>4 DEF ResInv

\* The number of copies is bounded, so maxDups is what its loop computes.
LEMMA MaxDupsIs ==
  ASSUME ResSortInv, ResMatchInv
  PROVE  /\ MaxDups \in Nat
         /\ \A i \in DOMAIN rResults : Len(rResults[i].dups) <= MaxDups
<1> DEFINE Bounds(n) == \A i \in DOMAIN rResults : Len(rResults[i].dups) <= n
           T == {n \in Nat : Bounds(n)}
<1>1. /\ DOMAIN rResults = 1..Len(rResults) /\ Len(rRcvd) \in Nat
      /\ \A i \in DOMAIN rResults : Len(rResults[i].dups) \in Nat
  BY DEF ResMatchInv, ResSortInv, ResultSet
<1>2. MaxRcvdRows \in Nat /\ Len(rRcvd) <= MaxRcvdRows
  BY ResAssumption DEF ResSortInv
<1>3. Bounds(MaxRcvdRows)
  <2>1. SUFFICES ASSUME NEW i \in 1..Len(rResults)
                 PROVE  Len(rResults[i].dups) <= MaxRcvdRows
    BY <1>1
  <2>2. PICK a \in 1..(Len(rRcvd) + 1), b \in 1..(Len(rRcvd) + 1) :
          ResultIs(i - 1, a, b, rResults[i])
    BY DEF ResMatchInv
  <2>3. CASE a = b
    BY <1>2, <2>2, <2>3 DEF ResultIs
  <2>4. CASE a < b
    <3>1. b - a - 1 \in Nat /\ b - a - 1 <= Len(rRcvd)
      BY <1>1, <2>4
    <3>2. rResults[i].dups = [n \in 1..(b - a - 1) |-> rRcvd[a + n].ts]
      BY <2>2, <2>4 DEF ResultIs
    <3>3. Len(rResults[i].dups) = b - a - 1
      BY <3>1, <3>2
    <3>4. QED
      BY <1>1, <1>2, <3>1, <3>3
  <2>5. QED
    BY <1>1, <2>2, <2>3, <2>4 DEF ResultIs
<1>4. MaxRcvdRows \in T
  BY <1>2, <1>3
<1>5. PICK n \in T : \A m \in T : n <= m
  BY <1>4, LeastNat
<1>6. n \in 0..MaxRcvdRows /\ Bounds(n)
  BY <1>2, <1>4, <1>5
<1>7. n = 0 \/ \E i \in DOMAIN rResults : Len(rResults[i].dups) = n
  <2>1. SUFFICES ASSUME n # 0
                 PROVE  \E i \in DOMAIN rResults : Len(rResults[i].dups) = n
    OBVIOUS
  <2>2. n - 1 \in Nat /\ ~(n <= n - 1)
    BY <1>5, <2>1
  <2>3. ~Bounds(n - 1)
    BY <1>5, <2>2
  <2>4. PICK i \in DOMAIN rResults : ~(Len(rResults[i].dups) <= n - 1)
    BY <2>3
  <2>5. Len(rResults[i].dups) <= n /\ Len(rResults[i].dups) \in Nat
    BY <1>1, <1>6, <2>4
  <2>6. QED
    BY <1>6, <2>2, <2>4, <2>5
<1>8. /\ MaxDups \in 0..MaxRcvdRows
      /\ \A i \in DOMAIN rResults : Len(rResults[i].dups) <= MaxDups
  BY <1>6, <1>7 DEF MaxDups
<1>9. QED
  BY <1>2, <1>8

\* The cells of a row.
LEMMA RowIs ==
  ASSUME NEW r \in ResultSet, MaxDups \in Nat, Len(r.dups) <= MaxDups
  PROVE  LET row == Row(r)
             extra == SubSeq(row, 5, Len(row))
         IN /\ Len(row) = 4 + MaxDups
            /\ row[1] = r.seq /\ row[2] = r.ts /\ row[3] = r.lost
            /\ row[4] = Len(r.dups)
            /\ \A n \in 1..Len(r.dups) : extra[n] = r.dups[n]
<1> DEFINE head == <<r.seq, r.ts, r.lost, Len(r.dups)>>
           tail == [n \in 1..MaxDups |->
                      IF n <= Len(r.dups) THEN r.dups[n] ELSE Empty]
           row == Row(r)
           Cell == Nat \cup BOOLEAN
<1>1. r.seq \in Nat /\ r.ts \in Nat /\ r.lost \in BOOLEAN /\ r.dups \in Seq(Nat)
      /\ Len(r.dups) \in Nat
  BY DEF ResultSet
<1>2. /\ head \in Seq(Cell) /\ Len(head) = 4
      /\ head[1] = r.seq /\ head[2] = r.ts /\ head[3] = r.lost
      /\ head[4] = Len(r.dups)
  BY <1>1
<1>3. tail \in Seq(Cell) /\ Len(tail) = MaxDups
  <2>1. \A n \in 1..Len(r.dups) : r.dups[n] \in Nat
    BY <1>1
  <2>2. tail \in [1..MaxDups -> Cell]
    BY <1>1, <2>1 DEF Empty
  <2> HIDE DEF tail
  <2>3. QED
    BY <2>2, LenOf
<1>4. row = head \o tail
  BY DEF Row
<1>5. \A n \in 1..Len(r.dups) : tail[n] = r.dups[n]
  BY <1>1
<1> HIDE DEF head, tail, row, Cell
<1>6. /\ row \in Seq(Cell) /\ Len(row) = 4 + MaxDups
      /\ \A i \in 1..4 : row[i] = head[i]
      /\ \A n \in 1..MaxDups : row[4 + n] = tail[n]
  <2>1. /\ row \in Seq(Cell) /\ Len(row) = Len(head) + Len(tail)
        /\ \A i \in 1..(Len(head) + Len(tail)) :
             row[i] = IF i <= Len(head) THEN head[i] ELSE tail[i - Len(head)]
    <3>1. head \in Seq(Cell) /\ tail \in Seq(Cell) /\ row = head \o tail
      BY <1>2, <1>3, <1>4
    <3>2. QED
      BY <3>1, ConcatProperties, Zenon
  <2>2. \A i \in 1..4 : row[i] = head[i]
    BY <1>2, <1>3, <2>1
  <2>3. ASSUME NEW n \in 1..MaxDups PROVE row[4 + n] = tail[n]
    <3>1. 4 + n \in 1..(4 + MaxDups) /\ ~(4 + n <= 4) /\ (4 + n) - 4 = n
      OBVIOUS
    <3>2. QED
      BY <1>2, <1>3, <2>1, <3>1
  <2>4. QED
    BY <1>2, <1>3, <2>1, <2>2, <2>3
<1>7. ASSUME NEW n \in 1..Len(r.dups)
      PROVE  SubSeq(row, 5, Len(row))[n] = r.dups[n]
  <2>1. n \in 1..MaxDups /\ 4 + n = 5 + n - 1 /\ n \in 1..(Len(row) - 5 + 1)
    BY <1>1, <1>6
  <2>2. SubSeq(row, 5, Len(row))[n] = row[5 + n - 1]
    BY <1>6, <2>1
  <2>3. QED
    BY <1>5, <1>6, <2>1, <2>2
<1>8. /\ row[1] = r.seq /\ row[2] = r.ts /\ row[3] = r.lost
      /\ row[4] = Len(r.dups)
  BY <1>2, <1>6
<1>9. QED
  BY <1>6, <1>7, <1>8 DEF row

\* A set of recorded messages and the set of their places after the sorting are
\* of the same size.
LEMMA SameSize ==
  ASSUME NEW N \in Nat, NEW p \in Bijection(1..N, 1..N),
         NEW A \in SUBSET (1..N), NEW B \in SUBSET (1..N),
         \A i \in 1..N : i \in A <=> p[i] \in B
  PROVE  /\ IsFiniteSet(A) /\ IsFiniteSet(B)
         /\ Cardinality(A) \in Nat /\ Cardinality(B) = Cardinality(A)
<1> DEFINE f == [i \in A |-> p[i]]
<1>1. /\ p \in [1..N -> 1..N]
      /\ \A i, j \in 1..N : p[i] = p[j] => i = j
      /\ \A k \in 1..N : \E i \in 1..N : p[i] = k
  BY DEF Bijection, Injection, Surjection, IsInjective
<1>2. f \in [A -> B]
  BY <1>1
<1>3. \A i, j \in A : f[i] = f[j] => i = j
  BY <1>1
<1>4. \A k \in B : \E i \in A : f[i] = k
  <2>1. SUFFICES ASSUME NEW k \in B PROVE \E i \in A : p[i] = k
    OBVIOUS
  <2>2. PICK i \in 1..N : p[i] = k
    BY <1>1
  <2>3. QED
    BY <2>2
<1> HIDE DEF f
<1>5. f \in Bijection(A, B)
  BY <1>2, <1>3, <1>4 DEF Bijection, Injection, Surjection, IsInjective
<1>6. IsFiniteSet(A) /\ Cardinality(A) \in Nat
  <2>1. 1 \in Int /\ N \in Int /\ 1 <= N + 1
    OBVIOUS
  <2>2. QED
    BY <2>1, Packed
<1>7. IsFiniteSet(B) /\ Cardinality(B) = Cardinality(A)
  BY <1>5, <1>6, FS_Bijection DEF ExistsBijection
<1>8. QED
  BY <1>6, <1>7

\* B holds the distances from a of the elements of A behind a.
Shifted(a, d, A, B) ==
  /\ a \in Nat /\ d \in Nat /\ A \subseteq a..(a + d) /\ B \subseteq 1..d
  /\ \A n \in 1..d : n \in B <=> a + n \in A

LEMMA ShiftedSize ==
  ASSUME NEW a, NEW d, NEW A, NEW B, Shifted(a, d, A, B)
  PROVE  /\ Cardinality(B) \in Nat
         /\ a \in A => Cardinality(A) = Cardinality(B) + 1
         /\ a \notin A => Cardinality(A) = Cardinality(B)
<1>a. /\ a \in Nat /\ d \in Nat
      /\ A \in SUBSET (a..(a + d)) /\ B \in SUBSET (1..d)
      /\ \A n \in 1..d : n \in B <=> a + n \in A
  BY DEF Shifted
<1> DEFINE C == A \ {a}
           f == [n \in B |-> a + n]
<1>1. IsFiniteSet(B) /\ Cardinality(B) \in Nat
  <2>1. 1 \in Int /\ d \in Int /\ 1 <= d + 1
    BY <1>a
  <2>2. QED
    BY <1>a, <2>1, Packed
<1>2. f \in Bijection(B, C)
  <2>1. f \in [B -> C]
    <3>1. ASSUME NEW n \in B PROVE a + n \in C
      <4>1. n \in 1..d
        BY <1>a
      <4>2. a + n # a /\ a + n \in A
        BY <1>a, <4>1
      <4>3. QED
        BY <4>2
    <3>2. QED
      BY <3>1
  <2>2. \A m, n \in B : f[m] = f[n] => m = n
    BY <1>a
  <2>3. \A i \in C : \E n \in B : f[n] = i
    <3>1. SUFFICES ASSUME NEW i \in C PROVE \E n \in B : a + n = i
      OBVIOUS
    <3>2. i \in a..(a + d) /\ i # a
      BY <1>a
    <3>3. i - a \in 1..d /\ a + (i - a) = i
      BY <1>a, <3>2
    <3>4. i - a \in B
      BY <1>a, <3>3
    <3>5. QED
      BY <3>3, <3>4
  <2> HIDE DEF f, C
  <2>4. QED
    BY <2>1, <2>2, <2>3 DEF Bijection, Injection, Surjection, IsInjective
<1>3. IsFiniteSet(C) /\ Cardinality(C) = Cardinality(B)
  <2> HIDE DEF C, f
  <2>1. QED
    BY <1>1, <1>2, FS_Bijection DEF ExistsBijection
<1>4. CASE a \in A
  <2>1. A = C \cup {a} /\ a \notin C
    BY <1>4
  <2> HIDE DEF C
  <2>2. Cardinality(A) = Cardinality(C) + 1
    BY <1>3, <2>1, FS_AddElement
  <2>3. QED
    BY <1>1, <1>3, <1>4, <2>2
<1>5. CASE a \notin A
  <2>1. A = C
    BY <1>5
  <2> HIDE DEF C
  <2>2. QED
    BY <1>1, <1>3, <1>5, <2>1
<1>6. QED
  BY <1>4, <1>5

\* The row of packet q.
LEMMA RowIsTruthful ==
  ASSUME ResSortInv, ResMatchInv, NEW q \in 0..(Len(rResults) - 1)
  PROVE  /\ Len(Row(rResults[q + 1])) = 4 + MaxDups
         /\ TrueRow(Row(rResults[q + 1]), q)
<1> DEFINE N == Len(rRcvd)
           r == rResults[q + 1]
           row == Row(r)
           copies == {i \in DOMAIN rInput : rInput[i].seq = q}
           extra == SubSeq(row, 5, Len(row))
<1>1. /\ N \in Nat /\ Len(rInput) = N /\ DOMAIN rInput = 1..N
      /\ Len(rResults) \in Nat /\ DOMAIN rResults = 1..Len(rResults)
  BY DEF ResSortInv, ResMatchInv
<1>2. q \in Nat /\ q + 1 \in 1..Len(rResults) /\ q + 1 - 1 = q
  BY <1>1
<1>3. r \in ResultSet
  BY <1>2 DEF ResMatchInv
<1>4. MaxDups \in Nat /\ Len(r.dups) <= MaxDups
  BY <1>1, <1>2, MaxDupsIs
<1>5. /\ Len(row) = 4 + MaxDups
      /\ row[1] = r.seq /\ row[2] = r.ts /\ row[3] = r.lost
      /\ row[4] = Len(r.dups)
      /\ \A n \in 1..Len(r.dups) : extra[n] = r.dups[n]
  BY <1>3, <1>4, RowIs
<1>6. PICK p \in Bijection(1..N, 1..N) : \A i \in 1..N : rRcvd[i] = rInput[p[i]]
  BY <1>1 DEF ResSortInv
<1>7. /\ p \in [1..N -> 1..N]
      /\ \A k \in 1..N : \E i \in 1..N : p[i] = k
  BY DEF Bijection, Injection, Surjection
<1>8. PICK a \in 1..(N + 1), b \in 1..(N + 1) : ResultIs(q, a, b, r)
  BY <1>2 DEF ResMatchInv
<1>9. /\ a <= b /\ r.seq = q /\ r.lost = (a = b)
      /\ \A i \in 1..N : rRcvd[i].seq = q <=> a <= i /\ i < b
  BY <1>8 DEF ResultIs, CopiesAt
<1> HIDE DEF r, row, extra
<1>10. /\ copies \in SUBSET (1..N) /\ a..(b - 1) \in SUBSET (1..N)
       /\ \A i \in 1..N : i \in a..(b - 1) <=> p[i] \in copies
  <2>1. ASSUME NEW i \in 1..N
        PROVE  i \in a..(b - 1) <=> p[i] \in copies
    <3>1. rRcvd[i] = rInput[p[i]] /\ p[i] \in 1..N
      BY <1>6, <1>7
    <3>2. rRcvd[i].seq = q <=> p[i] \in copies
      BY <1>1, <3>1
    <3>3. i \in a..(b - 1) <=> a <= i /\ i < b
      BY <1>1
    <3>4. QED
      BY <1>9, <3>2, <3>3
  <2>2. QED
    BY <1>1, <2>1
<1>11. Cardinality(copies) = b - a /\ IsFiniteSet(copies)
  <2>1. IsFiniteSet(copies) /\ Cardinality(copies) = Cardinality(a..(b - 1))
    <3> DEFINE places == a..(b - 1)
    <3>1. /\ places \in SUBSET (1..N) /\ copies \in SUBSET (1..N)
          /\ \A i \in 1..N : i \in places <=> p[i] \in copies
      BY <1>10
    <3> HIDE DEF copies, places
    <3>2. IsFiniteSet(copies) /\ Cardinality(copies) = Cardinality(places)
      BY <1>1, <3>1, SameSize
    <3>3. QED
      BY <3>2 DEF places
  <2>2. a \in Int /\ b - 1 \in Int
    BY <1>1
  <2>3. Cardinality(a..(b - 1)) = IF a > b - 1 THEN 0 ELSE (b - 1) - a + 1
    BY <2>2, FS_Interval
  <2>4. QED
    BY <1>1, <1>9, <2>1, <2>2, <2>3
<1>12. copies = {} <=> a = b
  <2> HIDE DEF copies
  <2>1. copies = {} <=> Cardinality(copies) = 0
    BY <1>11, FS_EmptySet
  <2>2. QED
    BY <1>1, <1>11, <2>1
<1>13. Len(r.dups) = IF a = b THEN 0 ELSE b - a - 1
  <2>1. CASE a = b
    BY <1>8, <2>1 DEF ResultIs
  <2>2. CASE a < b
    <3>1. b - a - 1 \in Nat
      BY <1>1, <2>2
    <3>2. r.dups = [n \in 1..(b - a - 1) |-> rRcvd[a + n].ts]
      BY <1>8, <2>2 DEF ResultIs
    <3>3. Len(r.dups) = b - a - 1
      BY <3>1, <3>2
    <3>4. QED
      BY <1>1, <2>2, <3>3
  <2>3. QED
    BY <1>1, <1>9, <2>1, <2>2
<1>14. ASSUME a < b
       PROVE  /\ r.ts = rRcvd[a].ts
              /\ \A n \in 1..(b - a - 1) : extra[n] = rRcvd[a + n].ts
              /\ row[4] = b - a - 1
  <2>1. r.ts = rRcvd[a].ts /\ r.dups = [n \in 1..(b - a - 1) |-> rRcvd[a + n].ts]
    BY <1>8, <1>14 DEF ResultIs
  <2>2. Len(r.dups) = b - a - 1
    BY <1>1, <1>13, <1>14
  <2>3. QED
    BY <1>5, <2>1, <2>2
<1>15. row[1] = q /\ row[3] = (copies = {})
  <2> HIDE DEF copies
  <2>1. row[3] = (a = b)
    BY <1>5, <1>9
  <2>2. QED
    BY <1>5, <1>9, <1>12, <2>1
<1>16. row[4] = (IF copies = {} THEN 0 ELSE Cardinality(copies) - 1)
  <2> HIDE DEF copies
  <2>1. QED
    BY <1>1, <1>5, <1>11, <1>12, <1>13
<1>17. ASSUME copies # {}, NEW i \in copies
       PROVE  row[2] <= rInput[i].ts
  <2>1. a < b /\ a \in 1..N
    BY <1>1, <1>9, <1>12, <1>17
  <2>2. PICK k \in 1..N : p[k] = i
    BY <1>7, <1>10
  <2>3. k \in a..(b - 1) /\ rInput[i] = rRcvd[k]
    BY <1>6, <1>10, <2>2
  <2>4. a <= k /\ rRcvd[a].seq = q /\ rRcvd[k].seq = q
    BY <1>1, <1>9, <2>1, <2>3
  <2>5. rRcvd[a].ts <= rRcvd[k].ts
    BY <2>1, <2>2, <2>4, RcvdSorted
  <2>6. QED
    BY <1>5, <1>14, <2>1, <2>3, <2>5
<1>18. ASSUME copies # {}, NEW t \in ResTimes
       PROVE  Cardinality({i \in copies : rInput[i].ts = t}) =
                Cardinality({n \in 1..row[4] : extra[n] = t})
                  + (IF row[2] = t THEN 1 ELSE 0)
  <2> DEFINE A == {i \in a..(b - 1) : rRcvd[i].ts = t}
             B == {i \in copies : rInput[i].ts = t}
             C == {n \in 1..(b - a - 1) : rRcvd[a + n].ts = t}
  <2>1. a < b
    BY <1>1, <1>9, <1>12, <1>18
  <2>2. \A i \in 1..N : i \in A <=> p[i] \in B
    BY <1>6, <1>7, <1>10
  <2>3. A \in SUBSET (1..N) /\ B \in SUBSET (1..N)
    BY <1>10
  <2>4. Cardinality(B) = Cardinality(A)
    <3> HIDE DEF A, B
    <3>1. QED
      BY <1>1, <2>2, <2>3, SameSize
  <2>5. Cardinality(A) = Cardinality(C) + (IF rRcvd[a].ts = t THEN 1 ELSE 0)
    <3>1. a \in Nat /\ b \in Nat
      BY <1>1
    <3> DEFINE d == b - a - 1
    <3>2. d \in Nat /\ a + d = b - 1
      BY <2>1, <3>1
    <3>3. A \in SUBSET (a..(a + d)) /\ C \in SUBSET (1..d)
      BY <3>2
    <3>4. \A n \in 1..d : n \in C <=> a + n \in A
      <4>1. \A n \in 1..d : a + n \in a..(b - 1)
        BY <3>1
      <4>2. QED
        BY <4>1
    <3>5. a \in A <=> rRcvd[a].ts = t
      <4>1. a \in a..(b - 1)
        BY <2>1, <3>1
      <4>2. QED
        BY <4>1
    <3> HIDE DEF A, C, d
    <3>6. /\ Cardinality(C) \in Nat
          /\ a \in A => Cardinality(A) = Cardinality(C) + 1
          /\ a \notin A => Cardinality(A) = Cardinality(C)
      <4>1. Shifted(a, d, A, C)
        BY <3>1, <3>2, <3>3, <3>4 DEF Shifted
      <4>2. QED
        BY <4>1, ShiftedSize
    <3>7. QED
      BY <3>5, <3>6
  <2>6. C = {n \in 1..row[4] : extra[n] = t} /\ row[2] = rRcvd[a].ts
    BY <1>5, <1>14, <2>1
  <2>7. QED
    BY <2>4, <2>5, <2>6
<1>19. ASSUME NEW n \in 1..(row[4] - 1)
       PROVE  extra[n] <= extra[n + 1]
  <2>1. a < b
    BY <1>1, <1>5, <1>9, <1>13, <1>19
  <2>2. row[4] = b - a - 1
    BY <1>14, <2>1
  <2>3. /\ n \in 1..(b - a - 1) /\ n + 1 \in 1..(b - a - 1)
        /\ a + n \in 1..N /\ a + (n + 1) \in 1..N
        /\ a <= a + n /\ a + n < b /\ a <= a + (n + 1) /\ a + (n + 1) < b
        /\ a + n <= a + (n + 1)
    BY <1>1, <1>19, <2>1, <2>2
  <2>4. rRcvd[a + n].seq = q /\ rRcvd[a + (n + 1)].seq = q
    BY <1>9, <2>3
  <2>5. rRcvd[a + n].ts <= rRcvd[a + (n + 1)].ts
    BY <2>3, <2>4, RcvdSorted
  <2>6. QED
    BY <1>14, <2>1, <2>3, <2>5
<1>20. QED
  <2>1. TrueRow(row, q)
    BY <1>15, <1>16, <1>17, <1>18, <1>19 DEF TrueRow, extra
  <2>2. QED
    BY <1>5, <2>1 DEF row, r

\* The invariant is all that RowsTruthful needs.
LEMMA RowsFollow ==
  ASSUME ResInv
  PROVE  RowsTruthful
<1>1. SUFFICES ASSUME rPhase = "done" PROVE RowsTruthful
  BY DEF RowsTruthful
<1> DEFINE rows == [i \in DOMAIN rResults |-> Row(rResults[i])]
           head == <<4 + MaxDups>>
<1>2. /\ ResSortInv /\ ResMatchInv /\ Len(rResults) = rSent
      /\ rRows = head \o rows
  BY <1>1 DEF ResInv
<1>3. rSent \in Nat /\ DOMAIN rResults = 1..rSent
  BY <1>2 DEF ResMatchInv
<1>4. Len(head) = 1 /\ head[1] = 4 + MaxDups
  OBVIOUS
<1>5. /\ Len(rRows) = 1 + rSent /\ rRows[1] = 4 + MaxDups
      /\ \A q \in 0..(rSent - 1) : rRows[q + 2] = Row(rResults[q + 1])
  <2> DEFINE X == {4 + MaxDups} \cup {Row(rResults[i]) : i \in 1..rSent}
  <2>1. head \in Seq(X)
    <3>1. head \in [1..1 -> X]
      OBVIOUS
    <3> HIDE DEF head, X
    <3>2. QED
      BY <3>1, LenOf
  <2>2. rows \in [1..rSent -> X]
    BY <1>3
  <2>3. \A q \in 0..(rSent - 1) : rows[q + 1] = Row(rResults[q + 1])
    BY <1>3
  <2> HIDE DEF head, rows, X
  <2>4. rows \in Seq(X) /\ Len(rows) = rSent
    BY <1>3, <2>2, LenOf
  <2>5. /\ Len(rRows) = Len(head) + Len(rows)
        /\ \A i \in 1..(Len(head) + Len(rows)) :
             rRows[i] = IF i <= Len(head) THEN head[i] ELSE rows[i - Len(head)]
    BY <1>2, <2>1, <2>4, ConcatProperties, Zenon
  <2>6. ASSUME NEW q \in 0..(rSent - 1)
        PROVE  rRows[q + 2] = rows[q + 1]
    <3>1. q + 2 \in 1..(1 + rSent) /\ ~(q + 2 <= 1) /\ (q + 2) - 1 = q + 1
      BY <1>3
    <3>2. QED
      BY <1>4, <2>4, <2>5, <3>1
  <2>7. 1 \in 1..(1 + rSent) /\ 1 <= 1
    BY <1>3
  <2>8. QED
    BY <1>3, <1>4, <2>3, <2>4, <2>5, <2>6, <2>7
<1>6. ASSUME NEW q \in 0..(rSent - 1)
      PROVE  Len(rRows[q + 2]) = rRows[1] /\ TrueRow(rRows[q + 2], q)
  <2>1. q \in 0..(Len(rResults) - 1)
    BY <1>2
  <2>2. /\ Len(Row(rResults[q + 1])) = 4 + MaxDups
        /\ TrueRow(Row(rResults[q + 1]), q)
    BY <1>2, <2>1, RowIsTruthful
  <2>3. QED
    BY <1>5, <2>2
<1>7. QED
  BY <1>5, <1>6 DEF RowsTruthful

LEMMA ResStep ==
  ASSUME ResInv, [ResNext]_resVars
  PROVE  ResInv'
<1>1. CASE UNCHANGED resVars
  <2>1. /\ UNCHANGED <<rPhase, rSent, rInput, rRcvd, rIdx, rResults, rRows>>
    BY <1>1 DEF resVars
  <2>2. \A q, c, d, x : ResultIs(q, c, d, x)' <=> ResultIs(q, c, d, x)
    BY <2>1 DEF ResultIs, CopiesAt
  <2>3. ResSortInv => ResSortInv'
    BY <2>1 DEF ResSortInv, Precedes
  <2>4. ResMatchInv => ResMatchInv'
    BY <2>1, <2>2 DEF ResMatchInv
  <2>5. ResIdle => ResIdle'
    BY <2>1 DEF ResIdle
  <2>6. UNCHANGED (<<4 + MaxDups>> \o [i \in DOMAIN rResults |-> Row(rResults[i])])
    BY <2>1 DEF Row, MaxDups
  <2>7. QED
    BY <2>1, <2>3, <2>4, <2>5, <2>6 DEF ResInv
<1>2. QED
  BY <1>1, ResRequestStep, ResMatchStep, ResRowsStep DEF ResNext

\* In every test, for any number of packets sent and of messages received, in any
\* order, with any losses and copies: there is one row per packet, a packet is
\* lost exactly if none of its copies arrived, its time is that of the first
\* copy, and each other copy has its cell, in order of time.
THEOREM RowsAreTruthful == Spec => []RowsTruthful
<1>1. Init => ResInv
  BY DEF Init, ResIdle, ResInv
<1>2. ResInv /\ [Next]_testVars => ResInv'
  BY ResStep DEF Next, testVars
<1>3. ResInv => RowsTruthful
  BY RowsFollow
<1>4. QED
  BY <1>1, <1>2, <1>3, PTL DEF Spec
=============================================================================
