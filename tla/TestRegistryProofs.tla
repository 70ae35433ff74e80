------------------------- MODULE TestRegistryProofs -------------------------
(***************************************************************************)
(* Proofs about TestRegistry, for any number of tests, retrieval calls and *)
(* Abort calls.  Type correctness and isolation need no more than the      *)
(* assumptions on the constants; the rest needs the IDs to be unique.      *)
(***************************************************************************)
EXTENDS TestRegistry, TLAPS

Unregistered == {"idle", "sent", "rejected"}

\* Steps of a registered test that has not sent its result yet.
PreSend == {"setup", "running", "lookup", "send",
            "failFinish", "failCancel", "failSend"}

\* Steps of a registered test whose cancel function is still in the map.
PreFinish == {"setup", "running", "lookup", "send", "close", "finish",
              "failFinish"}

Received == {"ok", "err", "lost"}

\* The entries of the two maps belong to the tests that carry the ID.
MapInv ==
    /\ \A i \in Ids : resultC[i] # None =>
          IdOf[resultC[i]] = i /\ pc[resultC[i]] \notin Unregistered
    /\ \A i \in Ids : testCancel[i] # None =>
          IdOf[testCancel[i]] = i /\ pc[testCancel[i]] \in PreFinish

\* What the step a test has reached says about its entries and its channel.
TestInv ==
    \A t \in Tests :
        /\ pc[t] \notin Unregistered => IdOf[t] \in Ids
        /\ pc[t] \in Unregistered => buf[t] = "empty" /\ ~closed[t]
        /\ pc[t] \in PreSend =>
              resultC[IdOf[t]] = t /\ buf[t] = "empty" /\ ~closed[t]
        /\ pc[t] \in PreFinish => testCancel[IdOf[t]] = t
        /\ pc[t] \in {"send", "failSend", "close"} => chan[t] = t
        /\ pc[t] \notin Unregistered /\ KindOf[t] = "command" => chan[t] = t
        /\ pc[t] \in {"failFinish", "failCancel", "failSend"}
              => KindOf[t] = "command"
        /\ pc[t] \in {"cancel", "failCancel"} => cancelFn[t] = t
        /\ pc[t] \in {"failSend", "done"} => ctxDone[t]

\* What a retrieval call knows of the channel it holds.
ReadInv ==
    \A r \in Readers :
        /\ rpc[r] \in {"waiting", "delete", "files"} => rchan[r] # None
        /\ rpc[r] = "idle" => rchan[r] = None
        /\ rpc[r] \in {"idle", "waiting"} <=> rout[r] = "none"
        /\ rout[r] \in Received \cup {"already"} => rchan[r] # None
        /\ rpc[r] = "delete" => rout[r] \in Received \cup {"already"}
        /\ rpc[r] = "files" => rout[r] = "ok"
        /\ rchan[r] # None =>
              /\ IdOf[rchan[r]] = ReadId[r]
              /\ pc[rchan[r]] \notin Unregistered
              /\ rout[r] \in Received \cup {"already"} =>
                    Delivered(rchan[r]) /\ buf[rchan[r]] = "empty"
        /\ rpc[r] \in {"files", "done"}
           /\ rout[r] \in Received \cup {"already"}
              => resultC[ReadId[r]] = None

IInv == TypeOK /\ MapInv /\ TestInv /\ ReadInv /\ ResultConserved
-----------------------------------------------------------------------------
(***************************************************************************)
(* Type correctness.                                                       *)
(***************************************************************************)
\* A registered test has a proper ID and a waiting retrieval call holds a
\* channel, so their map and channel accesses are typed.
TypeInv ==
    /\ TypeOK
    /\ \A t \in Tests : pc[t] \notin Unregistered => IdOf[t] \in Ids
    /\ \A r \in Readers : rpc[r] = "waiting" => rchan[r] # None

\* Every step of the server keeps its maps, channels and call states typed.
LEMMA TypeStep == ASSUME TypeInv, [Next]_vars PROVE TypeInv'
<1> USE RegistryAssumption
<1> USE DEF TypeInv, Unregistered, TypeOK, Results, TestPC, ReadPC, Outcomes, AbortPC, Goto, Return
<1>1. CASE UNCHANGED vars
  BY <1>1 DEF vars, testVars, readVars, abortVars
<1>2. ASSUME NEW t \in Tests, Issue(t) \/ RunToEnd(t) \/ TestStep(t)
      PROVE  TypeInv'
  <2>1. CASE Issue(t)
    BY <2>1 DEF Issue, readVars, abortVars
  <2>2. CASE Reject(t)
    BY <2>2 DEF Reject, readVars, abortVars
  <2>3. CASE Register(t)
    BY <2>3 DEF Register, readVars, abortVars
  <2>4. CASE SetupFails(t)
    BY <2>4 DEF SetupFails, readVars, abortVars
  <2>5. CASE SetupSucceeds(t)
    BY <2>5 DEF SetupSucceeds, readVars, abortVars
  <2>6. CASE Conclude(t)
    BY <2>6 DEF Conclude, readVars, abortVars
  <2>7. CASE LookupChannel(t)
    BY <2>7 DEF LookupChannel, readVars, abortVars
  <2>8. CASE SendResult(t)
    BY <2>8 DEF SendResult, readVars, abortVars
  <2>9. CASE CloseChannel(t)
    BY <2>9 DEF CloseChannel, readVars, abortVars
  <2>10. CASE TakeCancel(t)
    BY <2>10 DEF TakeCancel, readVars, abortVars
  <2>11. CASE CallCancel(t)
    BY <2>11 DEF CallCancel, readVars, abortVars
  <2>12. QED
    BY <1>2, <2>1, <2>2, <2>3, <2>4, <2>5, <2>6, <2>7, <2>8, <2>9, <2>10,
       <2>11 DEF TestStep, RunToEnd, StopOnCancel
<1>3. ASSUME NEW r \in Readers, LookupResult(r) \/ ReadStep(r)
      PROVE  TypeInv'
  <2>1. CASE LookupResult(r)
    BY <2>1 DEF LookupResult, testVars, abortVars
  <2>2. CASE Receive(r)
    BY <2>2 DEF Receive, testVars, abortVars
  <2>3. CASE ReceiveShutdown(r)
    BY <2>3 DEF ReceiveShutdown, testVars, abortVars
  <2>4. CASE DeleteEntry(r)
    BY <2>4 DEF DeleteEntry, testVars, abortVars
  <2>5. CASE ReadFiles(r)
    BY <2>5 DEF ReadFiles, testVars, abortVars
  <2>6. QED
    BY <1>3, <2>1, <2>2, <2>3, <2>4, <2>5 DEF ReadStep
<1>4. ASSUME NEW a \in Aborters, IssueAbort(a) \/ AbortStep(a)
      PROVE  TypeInv'
  <2>1. CASE IssueAbort(a)
    BY <2>1 DEF IssueAbort, testVars, readVars
  <2>2. CASE LookupCancel(a)
    BY <2>2 DEF LookupCancel, testVars, readVars
  <2>3. CASE CancelTest(a)
    BY <2>3 DEF CancelTest, testVars, readVars
  <2>4. QED
    BY <1>4, <2>1, <2>2, <2>3 DEF AbortStep
<1>5. CASE Shutdown
  BY <1>5 DEF Shutdown, testVars, readVars, abortVars
<1>6. CASE Terminating
  BY <1>1, <1>6 DEF Terminating
<1>7. QED
  BY <1>1, <1>2, <1>3, <1>4, <1>5, <1>6 DEF Next

\* The type invariant of the registry holds whatever the IDs are.
THEOREM TypeCorrect == Spec => []TypeOK
<1>1. Init => TypeInv
  <2> SUFFICES ASSUME Init PROVE TypeInv
    OBVIOUS
  <2>1. TypeOK
    BY DEF Init, TypeOK, Results, TestPC, ReadPC, Outcomes, AbortPC
  <2>2. \A t \in Tests : pc[t] \in Unregistered
    BY DEF Init, Unregistered
  <2>3. \A r \in Readers : rpc[r] # "waiting"
    BY DEF Init
  <2>4. QED
    BY <2>1, <2>2, <2>3 DEF TypeInv
<1>2. TypeInv /\ [Next]_vars => TypeInv'
  BY TypeStep
<1>3. TypeInv => TypeOK
  BY DEF TypeInv
<1>4. QED
  BY <1>1, <1>2, <1>3, PTL DEF Spec

-----------------------------------------------------------------------------
(***************************************************************************)
(* The inductive invariant for unique IDs: one lemma per group of actions, *)
(* one step per conjunct.                                                  *)
(***************************************************************************)
\* The steps that touch no result: issuing, rejecting, setting up, running.
LEMMA EarlySteps ==
    ASSUME UniqueIds, IInv, NEW t \in Tests,
           \/ Issue(t) \/ Reject(t) \/ SetupFails(t) \/ SetupSucceeds(t)
           \/ Conclude(t) \/ LookupChannel(t)
    PROVE  MapInv' /\ TestInv' /\ ReadInv' /\ ResultConserved'
<1> USE RegistryAssumption
<1> USE DEF IInv, TypeOK, Goto, readVars, abortVars, Unregistered, PreSend,
            PreFinish, Results, TestPC
<1>1. /\ UNCHANGED <<resultC, testCancel, buf, closed, rpc, rchan, rout>>
      /\ \A u \in Tests : u # t => pc'[u] = pc[u]
      /\ \A u \in Tests : ctxDone[u] => ctxDone'[u]
      /\ pc[t] \in Unregistered <=> pc'[t] \in Unregistered
      /\ pc[t] \in PreSend <=> pc'[t] \in PreSend
      /\ pc[t] \in PreFinish <=> pc'[t] \in PreFinish
      /\ pc'[t] \notin {"close", "finish", "cancel", "done"}
      /\ pc[t] \notin {"close", "finish", "cancel", "done"}
  BY DEF Issue, Reject, SetupFails, SetupSucceeds, Conclude, LookupChannel
<1>2. MapInv'
  BY <1>1 DEF MapInv
<1>3. TestInv'
  <2>1. CASE LookupChannel(t)
    BY <1>1, <2>1 DEF LookupChannel, TestInv
  <2>2. CASE ~LookupChannel(t)
    BY <1>1, <2>2
       DEF Issue, Reject, SetupFails, SetupSucceeds, Conclude, TestInv
  <2>3. QED
    BY <2>1, <2>2
<1>4. ReadInv'
  BY <1>1 DEF ReadInv, Received, Delivered
<1>5. ResultConserved'
  BY <1>1 DEF ResultConserved, Delivered, Got
<1>6. QED
  BY <1>2, <1>3, <1>4, <1>5

\* Claiming an ID: nobody else has it, and nothing of the test exists yet.
LEMMA RegisterStep ==
    ASSUME UniqueIds, IInv, NEW t \in Tests, Register(t)
    PROVE  MapInv' /\ TestInv' /\ ReadInv' /\ ResultConserved'
<1> USE RegistryAssumption
<1> USE DEF IInv, TypeOK, Goto, readVars, abortVars, Unregistered, PreSend,
            PreFinish, Results, TestPC
<1>1. /\ UNCHANGED <<buf, closed, ctxDone, cancelFn, rpc, rchan, rout>>
      /\ pc' = [pc EXCEPT ![t] = "setup"]
      /\ pc[t] = "sent"
      /\ IdOf[t] \in Ids
      /\ resultC' = [resultC EXCEPT ![IdOf[t]] = t]
      /\ testCancel' = [testCancel EXCEPT ![IdOf[t]] = t]
      /\ chan' = [chan EXCEPT ![t] =
                     IF KindOf[t] = "command" THEN t ELSE None]
  BY DEF Register
<1>2. \A u \in Tests : pc[u] \notin Unregistered => IdOf[u] # IdOf[t]
  BY <1>1 DEF UniqueIds, TestInv
<1>3. \A r \in Readers : rchan[r] # t
  BY <1>1 DEF ReadInv
<1>4. MapInv'
  BY <1>1 DEF MapInv
<1>5. TestInv'
  BY <1>1, <1>2 DEF TestInv
<1>6. ReadInv'
  BY <1>1, <1>2, <1>3 DEF ReadInv, Received, Delivered
<1>7. ResultConserved'
  <2>1. \A u \in Tests : Delivered(u)' <=> Delivered(u)
    BY <1>1 DEF Delivered
  <2>2. \A u \in Tests, q \in Readers : Got(q, u)' <=> Got(q, u)
    BY <1>1 DEF Got
  <2>3. \A u \in Tests : Delivered(u) => resultC'[IdOf[u]] = resultC[IdOf[u]]
    BY <1>1, <1>2 DEF Delivered, TestInv
  <2>4. QED
    BY <1>1, <2>1, <2>2, <2>3 DEF ResultConserved
<1>8. QED
  BY <1>4, <1>5, <1>6, <1>7

\* Sending: the test's own channel is empty, open and registered, so the
\* result is conserved; no retrieval call has seen anything of it.
LEMMA SendStep ==
    ASSUME UniqueIds, IInv, NEW t \in Tests, SendResult(t)
    PROVE  MapInv' /\ TestInv' /\ ReadInv' /\ ResultConserved'
<1> USE RegistryAssumption
<1> USE DEF IInv, TypeOK, Goto, readVars, abortVars, Unregistered, PreSend,
            PreFinish, Results, TestPC
<1>1. /\ UNCHANGED <<resultC, testCancel, closed, ctxDone, chan, cancelFn,
                     rpc, rchan, rout>>
      /\ pc[t] \in {"send", "failSend"}
      /\ \/ /\ pc[t] = "send"
            /\ pc' = [pc EXCEPT ![t] =
                         IF KindOf[t] = "command" THEN "finish" ELSE "close"]
         \/ pc[t] = "failSend" /\ pc' = [pc EXCEPT ![t] = "done"]
      /\ buf' = [buf EXCEPT ![chan[t]] = res[t]]
  BY DEF SendResult
<1>2. /\ chan[t] = t
      /\ resultC[IdOf[t]] = t
      /\ \A r \in Readers : rchan[r] = t =>
            rout[r] \notin Received \cup {"already"}
  BY <1>1 DEF TestInv, ReadInv, Delivered
<1>3. MapInv'
  BY <1>1, <1>2 DEF MapInv
<1>4. TestInv'
  BY <1>1, <1>2 DEF TestInv
<1>5. ReadInv'
  BY <1>1, <1>2 DEF ReadInv, Received, Delivered
<1>6. ResultConserved'
  BY <1>1, <1>2 DEF ResultConserved, Delivered, Got, Received
<1>7. QED
  BY <1>3, <1>4, <1>5, <1>6

\* Closing, and the two halves of finishTest.
LEMMA LateSteps ==
    ASSUME UniqueIds, IInv, NEW t \in Tests,
           CloseChannel(t) \/ TakeCancel(t) \/ CallCancel(t)
    PROVE  MapInv' /\ TestInv' /\ ReadInv' /\ ResultConserved'
<1> USE RegistryAssumption
<1> USE DEF IInv, TypeOK, Goto, readVars, abortVars, Unregistered, PreSend,
            PreFinish, Results, TestPC
<1>1. /\ UNCHANGED <<resultC, buf, chan, rpc, rchan, rout>>
      /\ \A u \in Tests : u # t => pc'[u] = pc[u]
      /\ \A u \in Tests : ctxDone[u] => ctxDone'[u]
      /\ pc[t] \notin Unregistered /\ pc'[t] \notin Unregistered
      /\ pc[t] \in PreSend <=> pc'[t] \in PreSend
      /\ Delivered(t) <=> Delivered(t)'
      /\ \A u \in Tests : u # t => (Delivered(u) <=> Delivered(u)')
  BY DEF CloseChannel, TakeCancel, CallCancel, Delivered
<1>2. IdOf[t] \in Ids
  BY <1>1 DEF TestInv
<1>3. MapInv'
  <2>1. CASE CloseChannel(t)
    BY <1>1, <2>1 DEF CloseChannel, MapInv
  <2>2. CASE TakeCancel(t)
    BY <1>1, <1>2, <2>2 DEF TakeCancel, MapInv, TestInv
  <2>3. CASE CallCancel(t)
    BY <1>1, <2>3 DEF CallCancel, MapInv, TestInv
  <2>4. QED
    BY <2>1, <2>2, <2>3
<1>4. TestInv'
  <2>1. CASE CloseChannel(t)
    BY <1>1, <2>1 DEF CloseChannel, TestInv
  <2>2. CASE TakeCancel(t)
    <3>1. /\ UNCHANGED <<closed, ctxDone>>
          /\ testCancel' = [testCancel EXCEPT ![IdOf[t]] = None]
          /\ cancelFn' = [cancelFn EXCEPT ![t] = testCancel[IdOf[t]]]
          /\ pc[t] \in {"finish", "failFinish"}
          /\ pc[t] = "finish" => pc'[t] = "cancel"
          /\ pc[t] = "failFinish" => pc'[t] = "failCancel"
      BY <2>2 DEF TakeCancel
    <3>2. cancelFn'[t] = t
      BY <3>1 DEF TestInv
    <3>3. \A u \in Tests : u # t /\ pc[u] \notin Unregistered =>
             testCancel'[IdOf[u]] = testCancel[IdOf[u]]
      BY <1>2, <3>1 DEF TestInv, UniqueIds
    <3>4. QED
      BY <1>1, <3>1, <3>2, <3>3 DEF TestInv
  <2>3. CASE CallCancel(t)
    <3>1. /\ UNCHANGED <<closed, testCancel, cancelFn>>
          /\ pc[t] \in {"cancel", "failCancel"}
          /\ pc[t] = "cancel" => pc'[t] = "done"
          /\ pc[t] = "failCancel" => pc'[t] = "failSend"
      BY <2>3 DEF CallCancel
    <3>2. ctxDone'[t]
      BY <2>3, <3>1 DEF CallCancel, TestInv
    <3>3. QED
      BY <1>1, <3>1, <3>2 DEF TestInv
  <2>4. QED
    BY <2>1, <2>2, <2>3
<1>5. ReadInv'
  BY <1>1 DEF ReadInv, Received
<1>6. ResultConserved'
  BY <1>1 DEF ResultConserved, Got
<1>7. QED
  BY <1>3, <1>4, <1>5, <1>6

\* A retrieval call looks its channel up, gives up, or reads the files.
LEMMA QuietReadSteps ==
    ASSUME UniqueIds, IInv, NEW r \in Readers,
           LookupResult(r) \/ ReceiveShutdown(r) \/ ReadFiles(r)
    PROVE  MapInv' /\ TestInv' /\ ReadInv' /\ ResultConserved'
<1> USE RegistryAssumption
<1> USE DEF IInv, TypeOK, Return, testVars, abortVars, ReadPC, Outcomes
<1>1. /\ UNCHANGED <<resultC, testCancel, buf, closed, ctxDone, pc, chan,
                     cancelFn>>
      /\ \A q \in Readers : q # r =>
            rpc'[q] = rpc[q] /\ rchan'[q] = rchan[q] /\ rout'[q] = rout[q]
  BY DEF LookupResult, ReceiveShutdown, ReadFiles
<1>2. MapInv' /\ TestInv'
  BY <1>1 DEF MapInv, TestInv
<1>3. ReadInv'
  <2>1. CASE LookupResult(r)
    BY <1>1, <2>1 DEF LookupResult, ReadInv, MapInv, Received, Delivered
  <2>2. CASE ReceiveShutdown(r)
    BY <1>1, <2>2 DEF ReceiveShutdown, ReadInv, Received, Delivered
  <2>3. CASE ReadFiles(r)
    BY <1>1, <2>3 DEF ReadFiles, ReadInv, Received, Delivered
  <2>4. QED
    BY <2>1, <2>2, <2>3
<1>4. \A t \in Tests, q \in Readers : Got(q, t)' <=> Got(q, t)
  <2>1. CASE LookupResult(r)
    BY <1>1, <2>1 DEF LookupResult, ReadInv, Got
  <2>2. CASE ReceiveShutdown(r)
    BY <1>1, <2>2 DEF ReceiveShutdown, ReadInv, Got
  <2>3. CASE ReadFiles(r)
    BY <1>1, <2>3 DEF ReadFiles, ReadInv, Got
  <2>4. QED
    BY <2>1, <2>2, <2>3
<1>5. ResultConserved'
  BY <1>1, <1>4 DEF ResultConserved, Delivered
<1>6. QED
  BY <1>2, <1>3, <1>5

\* Receiving: the slot passes its one value to this call and to no other.
LEMMA ReceiveStep ==
    ASSUME UniqueIds, IInv, NEW r \in Readers, Receive(r)
    PROVE  MapInv' /\ TestInv' /\ ReadInv' /\ ResultConserved'
<1> USE RegistryAssumption
<1> USE DEF IInv, TypeOK, testVars, abortVars, ReadPC, Outcomes, Results
<1> DEFINE c == rchan[r]
<1>1. /\ UNCHANGED <<resultC, testCancel, closed, ctxDone, pc, chan,
                     cancelFn, rchan>>
      /\ rpc[r] = "waiting" /\ rout[r] = "none"
      /\ rpc' = [rpc EXCEPT ![r] = "delete"]
      /\ c \in Tests
  BY DEF Receive, ReadInv
<1>2. /\ Delivered(c)
      /\ \/ /\ buf[c] # "empty"
            /\ rout' = [rout EXCEPT ![r] = buf[c]]
            /\ buf' = [buf EXCEPT ![c] = "empty"]
         \/ /\ buf[c] = "empty"
            /\ rout' = [rout EXCEPT ![r] = "already"]
            /\ UNCHANGED buf
  BY <1>1 DEF Receive, TestInv, Delivered, TestPC, Unregistered, PreSend
<1>3. MapInv'
  BY <1>1 DEF MapInv
<1>4. TestInv'
  BY <1>1, <1>2 DEF TestInv, Delivered, PreSend, Unregistered
<1>5. ReadInv'
  BY <1>1, <1>2 DEF ReadInv, Received, Delivered
<1>6. ResultConserved'
  <2>1. CASE buf[c] = "empty"
    <3>1. \A t \in Tests, q \in Readers : Got(q, t)' <=> Got(q, t)
      BY <1>1, <1>2, <2>1 DEF Got
    <3>2. QED
      BY <1>1, <1>2, <2>1, <3>1 DEF ResultConserved, Delivered
  <2>2. CASE buf[c] # "empty"
    <3>1. \A t \in Tests, q \in Readers :
             Got(q, t)' <=> Got(q, t) \/ (q = r /\ t = c)
      BY <1>1, <1>2, <2>2 DEF Got
    <3>2. \A q \in Readers : ~Got(q, c)
      BY <1>1, <1>2, <2>2 DEF ResultConserved
    <3>3. QED
      BY <1>1, <1>2, <2>2, <3>1, <3>2 DEF ResultConserved, Delivered
  <2>3. QED
    BY <2>1, <2>2
<1>7. QED
  BY <1>3, <1>4, <1>5, <1>6

\* Deleting: the entry belongs to the test whose result has been taken.
LEMMA DeleteStep ==
    ASSUME UniqueIds, IInv, NEW r \in Readers, DeleteEntry(r)
    PROVE  MapInv' /\ TestInv' /\ ReadInv' /\ ResultConserved'
<1> USE RegistryAssumption
<1> USE DEF IInv, TypeOK, testVars, abortVars, ReadPC, Outcomes, Results
<1> DEFINE c == rchan[r]
<1>1. /\ UNCHANGED <<testCancel, buf, closed, ctxDone, pc, chan, cancelFn,
                     rchan, rout>>
      /\ resultC' = [resultC EXCEPT ![ReadId[r]] = None]
      /\ rpc[r] = "delete"
      /\ rpc' = [rpc EXCEPT ![r] =
                    IF KindOf[c] = "command" /\ rout[r] = "ok"
                      THEN "files" ELSE "done"]
      /\ ReadId[r] \in Ids
  BY DEF DeleteEntry
<1>2. /\ c \in Tests
      /\ IdOf[c] = ReadId[r]
      /\ Delivered(c)
      /\ buf[c] = "empty"
      /\ rout[r] \in Received \cup {"already"}
  BY <1>1 DEF ReadInv
<1>3. \A t \in Tests : t # c /\ pc[t] \notin Unregistered =>
         IdOf[t] # ReadId[r]
  BY <1>2, IdOf[c] # EmptyId DEF UniqueIds
<1>4. MapInv'
  BY <1>1 DEF MapInv
<1>5. TestInv'
  BY <1>1, <1>2, <1>3 DEF TestInv, Delivered, PreSend, Unregistered
<1>6. ReadInv'
  BY <1>1, <1>2 DEF ReadInv, Received, Delivered
<1>7. ResultConserved'
  <2>1. \A t \in Tests : Delivered(t)' <=> Delivered(t)
    BY <1>1 DEF Delivered
  <2>2. \A t \in Tests, q \in Readers : Got(q, t)' <=> Got(q, t)
    BY <1>1 DEF Got
  <2>3. \A t \in Tests : Delivered(t) /\ t # c =>
           resultC'[IdOf[t]] = resultC[IdOf[t]]
    BY <1>1, <1>3 DEF Delivered, Unregistered, TestInv
  <2>4. QED
    BY <1>1, <1>2, <2>1, <2>2, <2>3 DEF ResultConserved
<1>8. QED
  BY <1>4, <1>5, <1>6, <1>7

\* Abort only ever cancels contexts, and the end of the server only sets a
\* flag: neither touches a result.
LEMMA OtherSteps ==
    ASSUME UniqueIds, IInv,
           \/ \E a \in Aborters : IssueAbort(a) \/ AbortStep(a)
           \/ Shutdown
           \/ UNCHANGED vars
    PROVE  MapInv' /\ TestInv' /\ ReadInv' /\ ResultConserved'
<1> USE RegistryAssumption
<1> USE DEF IInv, TypeOK
<1>1. /\ UNCHANGED <<resultC, testCancel, buf, closed, pc, chan, cancelFn,
                     rpc, rchan, rout>>
      /\ \A u \in Tests : ctxDone[u] => ctxDone'[u]
  BY DEF IssueAbort, AbortStep, LookupCancel, CancelTest, Shutdown, vars,
         testVars, readVars, abortVars
<1>2. MapInv' /\ TestInv'
  BY <1>1 DEF MapInv, TestInv
<1>3. ReadInv'
  BY <1>1 DEF ReadInv, Received, Delivered
<1>4. ResultConserved'
  BY <1>1 DEF ResultConserved, Delivered, Got
<1>5. QED
  BY <1>2, <1>3, <1>4

\* With unique IDs every step keeps the inductive invariant.
LEMMA InvStep == ASSUME UniqueIds, IInv, [Next]_vars PROVE IInv'
<1>1. TypeOK'
  BY TypeStep DEF IInv, TypeInv, TestInv, ReadInv
<1>2. ASSUME NEW t \in Tests, Issue(t) \/ RunToEnd(t) \/ TestStep(t)
      PROVE  MapInv' /\ TestInv' /\ ReadInv' /\ ResultConserved'
  BY <1>2, EarlySteps, RegisterStep, SendStep, LateSteps
     DEF TestStep, RunToEnd, StopOnCancel
<1>3. ASSUME NEW r \in Readers, LookupResult(r) \/ ReadStep(r)
      PROVE  MapInv' /\ TestInv' /\ ReadInv' /\ ResultConserved'
  BY <1>3, QuietReadSteps, ReceiveStep, DeleteStep DEF ReadStep
<1>4. CASE \/ \E a \in Aborters : IssueAbort(a) \/ AbortStep(a)
           \/ Shutdown
           \/ UNCHANGED vars
  BY <1>1, <1>4, OtherSteps DEF IInv
<1>5. QED
  BY <1>1, <1>2, <1>3, <1>4 DEF IInv, Next, Terminating

LEMMA InvInit == Init => IInv
<1> SUFFICES ASSUME Init PROVE IInv
  OBVIOUS
<1>1. TypeOK
  BY DEF Init, TypeOK, Results, TestPC, ReadPC, Outcomes, AbortPC
<1>2. MapInv
  BY DEF Init, MapInv
<1>3. TestInv
  BY DEF Init, TestInv, Unregistered, PreSend, PreFinish
<1>4. ReadInv
  BY DEF Init, ReadInv, Received
<1>5. ResultConserved
  BY DEF Init, ResultConserved, Delivered, Got
<1>6. QED
  BY <1>1, <1>2, <1>3, <1>4, <1>5 DEF IInv

\* The inductive invariant holds in every reachable state.
LEMMA Invariant == ASSUME UniqueIds PROVE Spec => []IInv
<1>1. IInv /\ [Next]_vars => IInv'
  BY InvStep
<1>2. QED
  BY <1>1, InvInit, PTL DEF Spec

\* With unique IDs a delivered result is neither lost nor handed out twice.
THEOREM ResultsAreConserved ==
    ASSUME UniqueIds PROVE Spec => []ResultConserved
<1>1. IInv => ResultConserved
  BY DEF IInv
<1>2. QED
  BY <1>1, Invariant, PTL

\* With unique IDs no test ever blocks, or panics, on its result channel.
THEOREM DeliveriesNeverBlock ==
    ASSUME UniqueIds PROVE Spec => []DeliveryNeverBlocks
<1>1. IInv => DeliveryNeverBlocks
  BY RegistryAssumption
     DEF IInv, TestInv, PreSend, DeliveryNeverBlocks, SendReady
<1>2. QED
  BY <1>1, Invariant, PTL

\* With unique IDs a test that has ended holds no context and no map entry
\* by which Abort could reach it.
LEMMA ContextsAreReleased ==
    ASSUME UniqueIds PROVE Spec => []ContextReleased
<1>1. IInv => ContextReleased
  BY RegistryAssumption
     DEF IInv, TypeOK, MapInv, TestInv, PreFinish, Unregistered,
         ContextReleased
<1>2. QED
  BY <1>1, Invariant, PTL

\* With unique IDs a retrieval call that found a result leaves no entry.
LEMMA EntriesAreDropped ==
    ASSUME UniqueIds PROVE Spec => []EntryDropped
<1>1. IInv => EntryDropped
  BY DEF IInv, ReadInv, Received, EntryDropped
<1>2. QED
  BY <1>1, Invariant, PTL

\* With unique IDs neither a test that has ended nor a retrieved result leaves
\* anything behind in the server's maps, on the error paths either.
THEOREM NothingIsLeftBehind ==
    ASSUME UniqueIds PROVE Spec => []NothingLeftBehind
<1>1. ContextReleased /\ EntryDropped => NothingLeftBehind
  BY DEF NothingLeftBehind
<1>2. QED
  BY <1>1, ContextsAreReleased, EntriesAreDropped, PTL

-----------------------------------------------------------------------------
(***************************************************************************)
(* Isolation: the contexts that are cancelled are the aborted ones.  The   *)
(* IDs may be anything here, so the invariant is about the tests that have *)
(* their ID to themselves until they conclude.                             *)
(***************************************************************************)
Live == {"setup", "running"}

\* What a map, a test or a retrieval call holds belongs to a registered test
\* with the ID it was found under.
Holds(x, i) == x # None => IdOf[x] = i /\ pc[x] \notin Unregistered

HoldInv ==
    /\ \A i \in Ids : Holds(resultC[i], i) /\ Holds(testCancel[i], i)
    /\ \A t \in Tests : /\ Holds(chan[t], IdOf[t]) /\ Holds(cancelFn[t], IdOf[t])
                        /\ pc[t] \in Unregistered => buf[t] = "empty" /\ ~closed[t]
    /\ \A r \in Readers : Holds(rchan[r], ReadId[r])
    /\ \A a \in Aborters : acancel[a] # None => IdOf[acancel[a]] = AbortId[a]

Found == {"already", "ok", "err", "lost"}

\* What a retrieval call returns once it has the channel.
FoundInv ==
    \A r \in Readers :
        /\ rpc[r] \in {"idle", "waiting"} => rout[r] = "none"
        /\ rpc[r] \in {"delete", "files"} => rout[r] \in Found
        /\ rout[r] \in Found => rchan[r] # None

\* An ID gets free only by a retrieval.
FreeInv ==
    \A t \in Tests :
        pc[t] \notin Unregistered =>
            \/ resultC[IdOf[t]] # None
            \/ \E r \in Readers : Dropped(r, IdOf[t])

\* A test that does not reuse an ID is alone with it while it runs: no other test
\* is registered, and nothing has been sent or received on its channel.
Alone(t) ==
    /\ \A u \in Tests : u # t /\ IdOf[u] = IdOf[t] => pc[u] \in Unregistered
    /\ resultC[IdOf[t]] = t
    /\ buf[t] = "empty" /\ ~closed[t]
    /\ \A r \in Readers : rchan[r] = t => rout[r] \notin Found

AloneInv == \A t \in Tests : pc[t] \in Live /\ ~IdReused(t) => Alone(t)

AbortedBy(t, a) == AbortId[a] = IdOf[t] /\ apc[a] = "done"

\* A test that has not concluded and whose context is cancelled was aborted, or
\* reuses an ID; an Abort call holds a cancel function when it calls one.
AbortInv ==
    /\ \A t \in Tests :
          ctxDone[t] /\ pc[t] \in {"idle", "sent", "setup", "running"} =>
              (\E a \in Aborters : AbortedBy(t, a)) \/ IdReused(t)
    /\ \A a \in Aborters : apc[a] = "cancel" => acancel[a] # None

IsolInv ==
    TypeInv /\ HoldInv /\ FoundInv /\ FreeInv /\ AloneInv /\ AbortInv

\* A retrieval that has happened stays so.
LEMMA DroppedStays ==
    ASSUME TypeInv, [Next]_vars, NEW r \in Readers, NEW i, Dropped(r, i)
    PROVE  Dropped(r, i)' /\ rchan'[r] = rchan[r]
<1> USE DEF TypeInv, TypeOK, Dropped, ReadPC, Outcomes
<1>1. ASSUME NEW t \in Tests, Issue(t) \/ RunToEnd(t) \/ TestStep(t)
      PROVE  UNCHANGED readVars
  BY <1>1 DEF TestStep, RunToEnd, StopOnCancel, Issue, Reject, Register,
     SetupFails, SetupSucceeds, Conclude, LookupChannel, SendResult,
     CloseChannel, TakeCancel, CallCancel
<1>2. ASSUME NEW q \in Readers, LookupResult(q) \/ ReadStep(q)
      PROVE  Dropped(r, i)' /\ rchan'[r] = rchan[r]
  <2>1. CASE q # r
    BY <1>2, <2>1 DEF ReadStep, LookupResult, Receive, ReceiveShutdown,
       DeleteEntry, ReadFiles, Return
  <2>2. CASE q = r
    BY <1>2, <2>2 DEF ReadStep, LookupResult, Receive, ReceiveShutdown,
       DeleteEntry, ReadFiles, Return
  <2>3. QED
    BY <2>1, <2>2
<1>3. CASE \/ \E a \in Aborters : IssueAbort(a) \/ AbortStep(a)
           \/ Shutdown \/ UNCHANGED vars
  BY <1>3 DEF AbortStep, IssueAbort, LookupCancel, CancelTest, Shutdown, vars,
     readVars
<1>4. QED
  BY <1>1, <1>2, <1>3 DEF Next, Terminating, readVars

LEMMA ReusedStays ==
    ASSUME TypeInv, [Next]_vars, NEW t \in Tests, IdReused(t)
    PROVE  IdReused(t)'
<1>1. PICK r \in Readers : Dropped(r, IdOf[t]) /\ rchan[r] # t
  BY DEF IdReused
<1>2. Dropped(r, IdOf[t])' /\ rchan'[r] = rchan[r]
  BY <1>1, DroppedStays
<1>3. QED
  BY <1>1, <1>2 DEF IdReused, Dropped

\* A registered test stays registered.
LEMMA RegisteredStays ==
    ASSUME TypeInv, [Next]_vars, NEW t \in Tests, pc[t] \notin Unregistered
    PROVE  pc'[t] \notin Unregistered
<1> USE DEF TypeInv, TypeOK, Unregistered, Goto
<1>1. ASSUME NEW u \in Tests, Issue(u) \/ RunToEnd(u) \/ TestStep(u)
      PROVE  pc'[t] \notin Unregistered
  BY <1>1 DEF TestStep, RunToEnd, StopOnCancel, Issue, Reject, Register,
     SetupFails, SetupSucceeds, Conclude, LookupChannel, SendResult,
     CloseChannel, TakeCancel, CallCancel
<1>2. ASSUME NEW q \in Readers, LookupResult(q) \/ ReadStep(q)
      PROVE  UNCHANGED pc
  BY <1>2 DEF ReadStep, LookupResult, Receive, ReceiveShutdown, DeleteEntry,
     ReadFiles, testVars
<1>3. CASE \/ \E a \in Aborters : IssueAbort(a) \/ AbortStep(a)
           \/ Shutdown \/ UNCHANGED vars
  BY <1>3 DEF AbortStep, IssueAbort, LookupCancel, CancelTest, Shutdown, vars,
     testVars
<1>4. QED
  BY <1>1, <1>2, <1>3 DEF Next, Terminating

\* Whoever finds a test finds it under its ID.
LEMMA HoldStep == ASSUME IsolInv, [Next]_vars PROVE HoldInv'
<1> USE RegistryAssumption
<1> TypeOK /\ HoldInv
  BY DEF IsolInv, TypeInv
<1>0. /\ \A t \in Tests : pc[t] \notin Unregistered => pc'[t] \notin Unregistered
      /\ \A t \in Tests : pc[t] \notin Unregistered => IdOf[t] \in Ids
  BY RegisteredStays DEF IsolInv, TypeInv
<1>1. \A x \in Tests \cup {None}, i \in Ids \cup {EmptyId} :
         Holds(x, i) => Holds(x, i)'
  BY <1>0 DEF Holds
<1> USE DEF HoldInv, TypeOK, Goto
<1>2. ASSUME NEW t \in Tests, Issue(t) \/ RunToEnd(t) \/ TestStep(t)
      PROVE  HoldInv'
  <2>1. CASE Register(t)
    <3>1. Holds(t, IdOf[t])' /\ Holds(None, IdOf[t])'
      BY <2>1 DEF Register, Holds, Unregistered
    <3>2. /\ UNCHANGED <<buf, closed, cancelFn, rchan, acancel>>
          /\ resultC' = [resultC EXCEPT ![IdOf[t]] = t]
          /\ testCancel' = [testCancel EXCEPT ![IdOf[t]] = t]
          /\ chan'[t] \in {t, None}
          /\ \A u \in Tests : u # t => chan'[u] = chan[u]
          /\ \A u \in Tests : pc'[u] \in Unregistered => pc[u] \in Unregistered
      BY <1>0, <2>1 DEF Register, readVars, abortVars
    <3>3. \A i \in Ids : Holds(resultC[i], i)' /\ Holds(testCancel[i], i)'
      BY <1>1, <3>1, <3>2
    <3>4. \A u \in Tests : Holds(chan[u], IdOf[u])' /\ Holds(cancelFn[u], IdOf[u])'
      BY <1>1, <3>1, <3>2
    <3>5. QED
      BY <1>1, <3>2, <3>3, <3>4
  <2>2. CASE LookupChannel(t)
    <3>1. /\ UNCHANGED <<resultC, testCancel, buf, closed, cancelFn, rchan, acancel>>
          /\ chan' = [chan EXCEPT ![t] = resultC[IdOf[t]]]
          /\ IdOf[t] \in Ids
      BY <1>0, <2>2 DEF LookupChannel, readVars, abortVars, Unregistered
    <3>2. Holds(resultC[IdOf[t]], IdOf[t])'
      BY <1>1, <3>1
    <3>3. \A u \in Tests : Holds(chan[u], IdOf[u])'
      BY <1>1, <3>1, <3>2
    <3>4. QED
      BY <1>0, <1>1, <3>1, <3>3
  <2>3. CASE TakeCancel(t)
    <3>1. /\ UNCHANGED <<resultC, buf, closed, chan, rchan, acancel>>
          /\ cancelFn' = [cancelFn EXCEPT ![t] = testCancel[IdOf[t]]]
          /\ testCancel' = [testCancel EXCEPT ![IdOf[t]] = None]
          /\ IdOf[t] \in Ids
      BY <1>0, <2>3 DEF TakeCancel, readVars, abortVars, Unregistered
    <3>2. Holds(testCancel[IdOf[t]], IdOf[t]) /\ testCancel[IdOf[t]] \in Tests \cup {None}
      BY <3>1
    <3>3. \A u \in Tests : Holds(cancelFn[u], IdOf[u])'
      BY <1>1, <3>1, <3>2 DEF Holds
    <3>4. \A i \in Ids : Holds(testCancel[i], i)'
      BY <1>1, <3>1 DEF Holds
    <3>5. QED
      BY <1>0, <1>1, <3>1, <3>3, <3>4
  <2>4. CASE SendResult(t)
    <3>1. /\ UNCHANGED <<resultC, testCancel, closed, chan, cancelFn, rchan, acancel>>
          /\ buf' = [buf EXCEPT ![chan[t]] = res[t]]
          /\ chan[t] \in Tests
      BY <2>4 DEF SendResult, SendReady, readVars, abortVars
    <3>2. pc[chan[t]] \notin Unregistered
      BY <3>1 DEF Holds
    <3>3. \A u \in Tests : pc'[u] \in Unregistered => buf'[u] = "empty" /\ ~closed'[u]
      BY <1>0, <3>1, <3>2
    <3>4. \A u \in Tests : Holds(chan[u], IdOf[u])' /\ Holds(cancelFn[u], IdOf[u])'
      BY <1>1, <3>1
    <3>5. \A i \in Ids : Holds(resultC[i], i)' /\ Holds(testCancel[i], i)'
      BY <1>1, <3>1
    <3>6. \A r \in Readers : Holds(rchan[r], ReadId[r])'
      BY <1>1, <3>1
    <3>7. QED
      BY <3>1, <3>3, <3>4, <3>5, <3>6
  <2>5. CASE CloseChannel(t)
    <3>1. /\ UNCHANGED <<resultC, testCancel, buf, chan, cancelFn, rchan, acancel>>
          /\ closed' = [closed EXCEPT ![chan[t]] = TRUE]
          /\ chan[t] \in Tests \cup {None}
      BY <2>5 DEF CloseChannel, readVars, abortVars
    <3>2. chan[t] # None => pc[chan[t]] \notin Unregistered
      BY <3>1 DEF Holds
    <3>3. \A u \in Tests : pc'[u] \in Unregistered => buf'[u] = "empty" /\ ~closed'[u]
      BY <1>0, <3>1, <3>2
    <3>4. \A u \in Tests : Holds(chan[u], IdOf[u])' /\ Holds(cancelFn[u], IdOf[u])'
      BY <1>1, <3>1
    <3>5. \A i \in Ids : Holds(resultC[i], i)' /\ Holds(testCancel[i], i)'
      BY <1>1, <3>1
    <3>6. \A r \in Readers : Holds(rchan[r], ReadId[r])'
      BY <1>1, <3>1
    <3>7. QED
      BY <3>1, <3>3, <3>4, <3>5, <3>6
  <2>6. CASE \/ Issue(t) \/ Reject(t) \/ SetupFails(t) \/ SetupSucceeds(t)
             \/ Conclude(t) \/ CallCancel(t)
    <3>1. UNCHANGED <<resultC, testCancel, buf, closed, chan, cancelFn, rchan, acancel>>
      BY <2>6 DEF Issue, Reject, SetupFails, SetupSucceeds, Conclude, CallCancel,
         readVars, abortVars
    <3>2. \A u \in Tests : pc'[u] \in Unregistered => pc[u] \in Unregistered
      BY <1>0
    <3>3. \A u \in Tests : Holds(chan[u], IdOf[u])' /\ Holds(cancelFn[u], IdOf[u])'
      BY <1>1, <3>1
    <3>4. QED
      BY <1>1, <3>1, <3>2, <3>3
  <2>7. QED
    BY <1>2, <2>1, <2>2, <2>3, <2>4, <2>5, <2>6
       DEF TestStep, RunToEnd, StopOnCancel
<1>3. ASSUME NEW r \in Readers, LookupResult(r) \/ ReadStep(r)
      PROVE  HoldInv'
  <2>1. UNCHANGED <<testCancel, closed, chan, cancelFn, pc, acancel>>
    BY <1>3 DEF ReadStep, LookupResult, Receive, ReceiveShutdown, DeleteEntry,
       ReadFiles, testVars, abortVars
  <2>2. \A i \in Ids : Holds(resultC[i], i)'
    BY <1>1, <1>3 DEF ReadStep, LookupResult, Receive, ReceiveShutdown, DeleteEntry,
       ReadFiles, Holds
  <2>3. \A q \in Readers : Holds(rchan[q], ReadId[q])'
    BY <1>1, <1>3 DEF ReadStep, LookupResult, Receive, ReceiveShutdown, DeleteEntry,
       ReadFiles, Holds
  <2>4. \A t \in Tests : buf'[t] = "empty" \/ buf'[t] = buf[t]
    BY <1>3 DEF ReadStep, LookupResult, Receive, ReceiveShutdown, DeleteEntry,
       ReadFiles
  <2>5. QED
    BY <1>0, <1>1, <2>1, <2>2, <2>3, <2>4
<1>4. ASSUME NEW a \in Aborters, IssueAbort(a) \/ AbortStep(a)
      PROVE  HoldInv'
  <2>1. UNCHANGED <<resultC, testCancel, buf, closed, chan, cancelFn, pc, rchan>>
    BY <1>4 DEF AbortStep, IssueAbort, LookupCancel, CancelTest, testVars, readVars
  <2>2. \A b \in Aborters : acancel'[b] # None => IdOf[acancel'[b]] = AbortId[b]
    BY <1>4 DEF AbortStep, IssueAbort, LookupCancel, CancelTest, Holds
  <2>3. QED
    BY <1>0, <1>1, <2>1, <2>2
<1>5. CASE Shutdown \/ UNCHANGED vars
  <2>1. UNCHANGED <<resultC, testCancel, buf, closed, chan, cancelFn, pc, rchan,
                    acancel>>
    BY <1>5 DEF Shutdown, vars, testVars, readVars, abortVars
  <2>2. QED
    BY <1>0, <1>1, <2>1
<1>6. QED
  BY <1>2, <1>3, <1>4, <1>5 DEF Next, Terminating

LEMMA FoundStep == ASSUME IsolInv, [Next]_vars PROVE FoundInv'
<1> USE DEF TypeInv, TypeOK, FoundInv, Found, IsolInv, Results, ReadPC, Outcomes
<1>1. ASSUME NEW r \in Readers, LookupResult(r) \/ ReadStep(r)
      PROVE  FoundInv'
  <2>1. \A q \in Readers : q # r =>
           rpc'[q] = rpc[q] /\ rchan'[q] = rchan[q] /\ rout'[q] = rout[q]
    BY <1>1 DEF ReadStep, LookupResult, Receive, ReceiveShutdown, DeleteEntry,
       ReadFiles, Return
  <2>2. CASE LookupResult(r)
    BY <2>1, <2>2 DEF LookupResult, Return
  <2>3. CASE Receive(r)
    BY <2>1, <2>3 DEF Receive
  <2>4. CASE ReceiveShutdown(r)
    BY <2>1, <2>4 DEF ReceiveShutdown, Return
  <2>5. CASE DeleteEntry(r)
    BY <2>1, <2>5 DEF DeleteEntry
  <2>6. CASE ReadFiles(r)
    BY <2>1, <2>6 DEF ReadFiles, Return
  <2>7. QED
    BY <1>1, <2>2, <2>3, <2>4, <2>5, <2>6 DEF ReadStep
<1>2. ASSUME NEW t \in Tests, Issue(t) \/ RunToEnd(t) \/ TestStep(t)
      PROVE  UNCHANGED readVars
  BY <1>2 DEF TestStep, RunToEnd, StopOnCancel, Issue, Reject, Register,
     SetupFails, SetupSucceeds, Conclude, LookupChannel, SendResult,
     CloseChannel, TakeCancel, CallCancel
<1>3. CASE \/ \E a \in Aborters : IssueAbort(a) \/ AbortStep(a)
           \/ Shutdown \/ UNCHANGED vars
  BY <1>3 DEF AbortStep, IssueAbort, LookupCancel, CancelTest, Shutdown, vars,
     readVars
<1>4. QED
  BY <1>1, <1>2, <1>3 DEF Next, Terminating, readVars

\* Deleting an entry is what frees its ID.
LEMMA FreeStep == ASSUME IsolInv, [Next]_vars PROVE FreeInv'
<1> USE RegistryAssumption
<1> USE DEF TypeInv, TypeOK, IsolInv
<1>1. SUFFICES ASSUME NEW t \in Tests, pc'[t] \notin Unregistered,
                      resultC'[IdOf[t]] = None
               PROVE  \E r \in Readers : Dropped(r, IdOf[t])'
  BY DEF FreeInv
<1>2. CASE \E u \in Tests : Register(u)
  <2>1. PICK u \in Tests : Register(u)
    BY <1>2
  <2>2. IdOf[u] \in Ids /\ u # t /\ IdOf[u] # IdOf[t] /\ pc[t] \notin Unregistered
    BY <1>1, <2>1 DEF Register, Goto
  <2>3. resultC[IdOf[t]] = None
    BY <1>1, <2>1, <2>2 DEF Register
  <2>4. PICK r \in Readers : Dropped(r, IdOf[t])
    BY <2>2, <2>3 DEF FreeInv
  <2>5. QED
    BY <2>4, DroppedStays
<1>3. CASE \A u \in Tests : ~Register(u)
  <2>1. pc[t] \notin Unregistered
    <3>1. ASSUME NEW u \in Tests, Issue(u) \/ RunToEnd(u) \/ TestStep(u)
          PROVE  pc[t] \notin Unregistered
      BY <1>1, <1>3, <3>1 DEF TestStep, RunToEnd, StopOnCancel, Issue, Reject,
         SetupFails, SetupSucceeds, Conclude, LookupChannel, SendResult,
         CloseChannel, TakeCancel, CallCancel, Goto, Unregistered
    <3>2. ASSUME NEW q \in Readers, LookupResult(q) \/ ReadStep(q)
          PROVE  UNCHANGED pc
      BY <3>2 DEF ReadStep, LookupResult, Receive, ReceiveShutdown, DeleteEntry,
         ReadFiles, testVars
    <3>3. CASE \/ \E a \in Aborters : IssueAbort(a) \/ AbortStep(a)
               \/ Shutdown \/ UNCHANGED vars
      BY <1>1, <3>3 DEF AbortStep, IssueAbort, LookupCancel, CancelTest, Shutdown,
         vars, testVars
    <3>4. QED
      BY <1>1, <3>1, <3>2, <3>3 DEF Next, Terminating
  <2>2. CASE resultC[IdOf[t]] = None
    <3>1. PICK r \in Readers : Dropped(r, IdOf[t])
      BY <2>1, <2>2 DEF FreeInv
    <3>2. QED
      BY <3>1, DroppedStays
  <2>3. CASE resultC[IdOf[t]] # None
    <3>1. \E r \in Readers : DeleteEntry(r) /\ ReadId[r] = IdOf[t]
      <4>1. ASSUME NEW u \in Tests, Issue(u) \/ RunToEnd(u) \/ TestStep(u)
            PROVE  UNCHANGED resultC
        BY <1>3, <4>1 DEF TestStep, RunToEnd, StopOnCancel, Issue, Reject,
           SetupFails, SetupSucceeds, Conclude, LookupChannel, SendResult,
           CloseChannel, TakeCancel, CallCancel
      <4>2. ASSUME NEW q \in Readers, LookupResult(q) \/ ReadStep(q)
            PROVE  DeleteEntry(q) \/ UNCHANGED resultC
        BY <4>2 DEF ReadStep, LookupResult, Receive, ReceiveShutdown, ReadFiles
      <4>3. ASSUME NEW q \in Readers, DeleteEntry(q) PROVE ReadId[q] = IdOf[t]
        BY <1>1, <2>1, <2>3, <4>3 DEF DeleteEntry
      <4>4. CASE \/ \E a \in Aborters : IssueAbort(a) \/ AbortStep(a)
                 \/ Shutdown \/ UNCHANGED vars
        BY <1>1, <2>3, <4>4 DEF AbortStep, IssueAbort, LookupCancel, CancelTest,
           Shutdown, vars
      <4>5. QED
        BY <1>1, <2>3, <4>1, <4>2, <4>3, <4>4 DEF Next, Terminating
    <3>2. PICK r \in Readers : DeleteEntry(r) /\ ReadId[r] = IdOf[t]
      BY <3>1
    <3>3. Dropped(r, IdOf[t])'
      BY <3>2 DEF DeleteEntry, Dropped, FoundInv, Found
    <3>4. QED
      BY <3>3
  <2>4. QED
    BY <2>2, <2>3
<1>4. QED
  BY <1>2, <1>3

\* A test that has its ID to itself keeps it to itself.
LEMMA AloneStep == ASSUME IsolInv, [Next]_vars PROVE AloneInv'
<1> USE RegistryAssumption
<1>1. SUFFICES ASSUME NEW t \in Tests, pc'[t] \in Live, ~IdReused(t)'
               PROVE  Alone(t)'
  BY DEF AloneInv
<1>2. TypeOK /\ HoldInv /\ FoundInv /\ FreeInv /\ ~IdReused(t)
  BY <1>1, ReusedStays DEF IsolInv, TypeInv
<1>3. pc[t] \in Live => Alone(t)
  BY <1>2 DEF IsolInv, AloneInv
<1> USE DEF TypeOK, Goto, Live, Unregistered
<1>4. CASE Register(t)
  <2>1. /\ pc[t] = "sent" /\ resultC[IdOf[t]] = None /\ IdOf[t] \in Ids
        /\ resultC' = [resultC EXCEPT ![IdOf[t]] = t]
        /\ pc' = [pc EXCEPT ![t] = "setup"]
        /\ UNCHANGED <<buf, closed, rchan, rout>>
    BY <1>2, <1>4 DEF Register, readVars
  <2>2. \A r \in Readers : rchan[r] # t
    BY <1>2, <2>1 DEF HoldInv, Holds
  <2>3. \A r \in Readers : ~Dropped(r, IdOf[t])
    BY <1>2, <2>2 DEF IdReused
  <2>4. \A u \in Tests : u # t /\ IdOf[u] = IdOf[t] => pc[u] \in Unregistered
    BY <1>2, <2>1, <2>3 DEF FreeInv
  <2>5. buf[t] = "empty" /\ ~closed[t]
    BY <1>2, <2>1 DEF HoldInv
  <2>6. QED
    BY <1>2, <2>1, <2>2, <2>4, <2>5 DEF Alone
<1>5. ASSUME NEW u \in Tests, u # t \/ ~Register(t),
             Issue(u) \/ RunToEnd(u) \/ TestStep(u)
      PROVE  Alone(t)'
  <2>0. UNCHANGED <<rchan, rout>>
    BY <1>5 DEF TestStep, RunToEnd, StopOnCancel, Issue, Reject, Register,
       SetupFails, SetupSucceeds, Conclude, LookupChannel, SendResult,
       CloseChannel, TakeCancel, CallCancel, readVars
  <2>1. pc[t] \in Live
    BY <1>1, <1>2, <1>5 DEF TestStep, RunToEnd, StopOnCancel, Issue, Reject,
       Register, SetupFails, SetupSucceeds, Conclude, LookupChannel, SendResult,
       CloseChannel, TakeCancel, CallCancel
  <2>2. Alone(t)
    BY <1>3, <2>1
  <2>3. CASE Register(u)
    <3>1. u # t
      BY <1>5, <2>1, <2>3 DEF Register
    <3>2. IdOf[u] # IdOf[t]
      BY <2>2, <2>3, <3>1 DEF Alone, Register
    <3>3. QED
      BY <1>2, <2>0, <2>2, <2>3, <3>1, <3>2 DEF Alone, Register
  <2>4. CASE ~Register(u)
    <3>1. UNCHANGED resultC
      BY <1>5, <2>4 DEF TestStep, RunToEnd, StopOnCancel, Issue, Reject,
         SetupFails, SetupSucceeds, Conclude, LookupChannel, SendResult,
         CloseChannel, TakeCancel, CallCancel
    <3>2. \A v \in Tests : v # t /\ IdOf[v] = IdOf[t] => pc'[v] \in Unregistered
      <4>1. \A v \in Tests : pc[v] \in Unregistered => pc'[v] \in Unregistered
        BY <1>2, <1>5, <2>4 DEF TestStep, RunToEnd, StopOnCancel, Issue, Reject,
           SetupFails, SetupSucceeds, Conclude, LookupChannel, SendResult,
           CloseChannel, TakeCancel, CallCancel
      <4>2. QED
        BY <2>2, <4>1 DEF Alone
    <3>3. CASE SendResult(u) \/ CloseChannel(u)
      <4>1. u # t
        BY <2>1, <3>3 DEF SendResult, CloseChannel
      <4>2. pc[u] \notin Unregistered
        BY <3>3 DEF SendResult, CloseChannel
      <4>3. chan[u] # t
        BY <1>2, <2>2, <4>1, <4>2 DEF HoldInv, Holds, Alone
      <4>4. buf'[t] = buf[t] /\ closed'[t] = closed[t]
        BY <1>2, <3>3, <4>3 DEF SendResult, CloseChannel
      <4>5. QED
        BY <2>0, <2>2, <3>1, <3>2, <4>4 DEF Alone
    <3>4. CASE ~SendResult(u) /\ ~CloseChannel(u)
      <4>1. UNCHANGED <<buf, closed>>
        BY <1>5, <2>4, <3>4 DEF TestStep, RunToEnd, StopOnCancel, Issue, Reject,
           SetupFails, SetupSucceeds, Conclude, LookupChannel, TakeCancel, CallCancel
      <4>2. QED
        BY <2>0, <2>2, <3>1, <3>2, <4>1 DEF Alone
    <3>5. QED
      BY <3>3, <3>4
  <2>5. QED
    BY <2>3, <2>4
<1>6. ASSUME NEW r \in Readers, LookupResult(r) \/ ReadStep(r)
      PROVE  Alone(t)'
  <2>0. UNCHANGED <<pc, closed>>
    BY <1>6 DEF ReadStep, LookupResult, Receive, ReceiveShutdown, DeleteEntry,
       ReadFiles, testVars
  <2>1. Alone(t)
    BY <1>1, <1>3, <2>0
  <2>2. IdOf[t] \in Ids
    BY <1>1, <2>0 DEF IsolInv, TypeInv
  <2>3. CASE LookupResult(r)
    BY <1>2, <2>0, <2>1, <2>3
       DEF LookupResult, Return, Alone, Found, FoundInv, ReadPC, Outcomes
  <2>4. CASE Receive(r)
    <3>1. rchan[r] # t
      BY <2>1, <2>4 DEF Receive, Alone
    <3>2. UNCHANGED <<resultC, rchan>> /\ buf'[t] = buf[t]
      BY <1>2, <2>4, <3>1 DEF Receive
    <3>3. \A q \in Readers : q # r => rout'[q] = rout[q]
      BY <1>2, <2>4 DEF Receive
    <3>4. QED
      BY <2>0, <2>1, <3>1, <3>2, <3>3 DEF Alone
  <2>5. CASE ReceiveShutdown(r)
    BY <1>2, <2>0, <2>1, <2>5 DEF ReceiveShutdown, Return, Alone, Found
  <2>6. CASE DeleteEntry(r)
    <3>1. /\ UNCHANGED <<buf, rchan, rout>> /\ rpc[r] = "delete"
          /\ rpc'[r] \in {"files", "done"}
          /\ resultC' = [resultC EXCEPT ![ReadId[r]] = None]
      BY <1>2, <2>6 DEF DeleteEntry
    <3>2. rout[r] \in Found
      BY <1>2, <3>1 DEF FoundInv
    <3>3. ReadId[r] # IdOf[t]
      <4>1. SUFFICES ASSUME ReadId[r] = IdOf[t] PROVE FALSE
        OBVIOUS
      <4>2. rchan[r] # t
        BY <2>1, <3>2 DEF Alone
      <4>3. Dropped(r, IdOf[t])' /\ rchan'[r] # t
        BY <3>1, <3>2, <4>1, <4>2 DEF Dropped, Found
      <4>4. QED
        BY <1>1, <4>3 DEF IdReused
    <3>4. QED
      BY <1>2, <2>0, <2>1, <2>2, <3>1, <3>3 DEF Alone
  <2>7. CASE ReadFiles(r)
    <3>1. rchan[r] # t
      BY <1>2, <2>1, <2>7 DEF ReadFiles, FoundInv, Alone
    <3>2. /\ UNCHANGED <<resultC, buf, rchan>>
          /\ \A q \in Readers : q # r => rout'[q] = rout[q]
      BY <1>2, <2>7 DEF ReadFiles, Return
    <3>3. QED
      BY <2>0, <2>1, <3>1, <3>2 DEF Alone
  <2>8. QED
    BY <1>6, <2>3, <2>4, <2>5, <2>6, <2>7 DEF ReadStep
<1>7. CASE \/ \E a \in Aborters : IssueAbort(a) \/ AbortStep(a)
           \/ Shutdown \/ UNCHANGED vars
  <2>1. UNCHANGED <<resultC, buf, closed, pc, rchan, rout>>
    BY <1>7 DEF AbortStep, IssueAbort, LookupCancel, CancelTest, Shutdown, vars,
       testVars, readVars
  <2>2. QED
    BY <1>1, <1>3, <2>1 DEF Alone
<1>8. QED
  BY <1>4, <1>5, <1>6, <1>7 DEF Next, Terminating

\* Only an Abort call cancels a test that still runs and does not reuse an ID.
LEMMA AbortInvStep == ASSUME IsolInv, [Next]_vars PROVE AbortInv'
<1> USE RegistryAssumption
<1> DEFINE Early == {"idle", "sent", "setup", "running"}
<1>1. /\ TypeOK /\ HoldInv /\ AbortInv /\ AloneInv
      /\ \A t \in Tests : IdReused(t) => IdReused(t)'
  BY ReusedStays DEF IsolInv, TypeInv
<1> USE DEF TypeOK, Goto, TestPC, AbortPC
<1>2. ASSUME NEW u \in Tests, Issue(u) \/ RunToEnd(u) \/ TestStep(u)
      PROVE  AbortInv'
  <2>1. UNCHANGED <<apc, acancel>>
    BY <1>2 DEF TestStep, RunToEnd, StopOnCancel, Issue, Reject, Register,
       SetupFails, SetupSucceeds, Conclude, LookupChannel, SendResult,
       CloseChannel, TakeCancel, CallCancel, abortVars
  <2>2. ASSUME NEW t \in Tests, pc'[t] \in Early, ctxDone'[t], ~IdReused(t)
        PROVE  pc[t] \in Early /\ ctxDone[t]
    <3>1. CASE CallCancel(u)
      <4>1. /\ pc[u] \in {"cancel", "failCancel"} /\ pc'[u] \in {"done", "failSend"}
            /\ \A v \in Tests : v # u => pc'[v] = pc[v]
            /\ ctxDone' = [v \in Tests |-> ctxDone[v] \/ v = cancelFn[u]]
        BY <1>1, <3>1 DEF CallCancel
      <4>2. u # t /\ pc[t] \in Early
        BY <2>2, <4>1
      <4>3. cancelFn[u] # t
        <5>1. SUFFICES ASSUME cancelFn[u] = t PROVE FALSE
          OBVIOUS
        <5>2. IdOf[t] = IdOf[u] /\ pc[t] \notin Unregistered
          BY <1>1, <5>1 DEF HoldInv, Holds
        <5>3. Alone(t)
          BY <1>1, <2>2, <4>2, <5>2 DEF AloneInv, Live, Unregistered
        <5>4. QED
          BY <4>1, <4>2, <5>2, <5>3 DEF Alone, Unregistered
      <4>4. QED
        BY <2>2, <4>1, <4>2, <4>3
    <3>2. CASE ~CallCancel(u)
      BY <1>1, <1>2, <2>2, <3>2 DEF TestStep, RunToEnd, StopOnCancel, Issue, Reject,
         Register, SetupFails, SetupSucceeds, Conclude, LookupChannel,
         SendResult, CloseChannel, TakeCancel
    <3>3. QED
      BY <3>1, <3>2
  <2>3. \A t \in Tests : pc'[t] \in Early /\ ctxDone'[t] =>
           IdReused(t)' \/ \E a \in Aborters : AbortedBy(t, a)
    BY <1>1, <2>2 DEF AbortInv
  <2>4. QED
    BY <1>1, <2>1, <2>3 DEF AbortInv, AbortedBy
<1>3. ASSUME NEW r \in Readers, LookupResult(r) \/ ReadStep(r)
      PROVE  AbortInv'
  <2>1. UNCHANGED <<pc, ctxDone, apc, acancel>>
    BY <1>3 DEF ReadStep, LookupResult, Receive, ReceiveShutdown, DeleteEntry,
       ReadFiles, testVars, abortVars
  <2>2. QED
    BY <1>1, <2>1 DEF AbortInv, AbortedBy
<1>4. ASSUME NEW a \in Aborters, IssueAbort(a) \/ AbortStep(a)
      PROVE  AbortInv'
  <2>1. /\ UNCHANGED pc
        /\ \A b \in Aborters : apc[b] = "done" => apc'[b] = "done"
        /\ \A b \in Aborters : apc'[b] = "cancel" => acancel'[b] # None
    BY <1>1, <1>4 DEF AbortStep, IssueAbort, LookupCancel, CancelTest, testVars,
       AbortInv
  <2>2. ASSUME NEW t \in Tests, ctxDone'[t], ~ctxDone[t]
        PROVE  AbortedBy(t, a)'
    BY <1>1, <1>4, <2>2 DEF AbortStep, IssueAbort, LookupCancel, CancelTest,
       AbortedBy, HoldInv
  <2>3. \A t \in Tests, b \in Aborters : AbortedBy(t, b) => AbortedBy(t, b)'
    BY <2>1 DEF AbortedBy
  <2>4. QED
    BY <1>1, <2>1, <2>2, <2>3 DEF AbortInv
<1>5. CASE Shutdown \/ UNCHANGED vars
  <2>1. UNCHANGED <<pc, ctxDone, apc, acancel>>
    BY <1>5 DEF Shutdown, vars, testVars, abortVars
  <2>2. QED
    BY <1>1, <2>1 DEF AbortInv, AbortedBy
<1>6. QED
  BY <1>2, <1>3, <1>4, <1>5 DEF Next, Terminating

\* Whatever the IDs are, a running test is cancelled by an Abort call for its ID,
\* or by the end of the server, and by nothing else, unless it reuses the ID of a
\* test whose result has been retrieved: a start call that races for an ID and
\* loses cancels its own context only.
THEOREM TestsAreIsolated == Spec => []OnlyAbortCancels
<1>1. Init => IsolInv
  <2> SUFFICES ASSUME Init PROVE IsolInv
    OBVIOUS
  <2>1. TypeInv
    BY DEF Init, TypeInv, TypeOK, Results, TestPC, ReadPC, Outcomes, AbortPC,
       Unregistered
  <2>2. HoldInv
    BY DEF Init, HoldInv, Holds
  <2>3. FoundInv /\ FreeInv
    BY DEF Init, FoundInv, Found, FreeInv, Unregistered
  <2>4. AloneInv /\ AbortInv
    BY DEF Init, AloneInv, Live, AbortInv
  <2>5. QED
    BY <2>1, <2>2, <2>3, <2>4 DEF IsolInv
<1>2. IsolInv /\ [Next]_vars => IsolInv'
  <2>1. ASSUME IsolInv, [Next]_vars PROVE IsolInv'
    <3>1. TypeInv'
      BY <2>1, TypeStep DEF IsolInv
    <3>2. QED
      BY <2>1, <3>1, HoldStep, FoundStep, FreeStep, AloneStep, AbortInvStep
         DEF IsolInv
  <2>2. QED
    BY <2>1
<1>3. IsolInv => OnlyAbortCancels
  BY DEF IsolInv, AbortInv, AbortedBy, OnlyAbortCancels
<1>4. QED
  BY <1>1, <1>2, <1>3, PTL DEF Spec

-----------------------------------------------------------------------------
(***************************************************************************)
(* Refinement: the registry implements the safety part of ResultMailbox.   *)
(***************************************************************************)
\* A step that changes neither what a test has delivered, nor its channel's
\* slot, nor who got the value, is invisible to the mailbox.
LEMMA Stutter ==
    ASSUME \A t \in Tests : /\ buf'[t] = buf[t]
                            /\ Delivered(t)' <=> Delivered(t)
                            /\ pc'[t] \in Unregistered <=>
                                   pc[t] \in Unregistered,
           \A t \in Tests, r \in Readers : Got(r, t)' <=> Got(r, t)
    PROVE  UNCHANGED Mailbox!vars
<1>1. \A t \in Tests : Stage(t)' = Stage(t)
  BY DEF Stage, Unregistered
<1>2. \A t \in Tests :
         {r \in Readers : Got(r, t)'} = {r \in Readers : Got(r, t)}
  OBVIOUS
<1>3. QED
  BY <1>1, <1>2 DEF Mailbox!vars

\* A step that changes one test's stage changes that entry of the mapped
\* function and no other.
LEMMA StageChange ==
    ASSUME NEW t \in Tests, NEW s, Stage(t)' = s,
           \A u \in Tests : u # t => Stage(u)' = Stage(u)
    PROVE  [u \in Tests |-> Stage(u)]' =
             [[u \in Tests |-> Stage(u)] EXCEPT ![t] = s]
OBVIOUS

\* Registering is Accept.
LEMMA RegisterAccepts ==
    ASSUME IInv, NEW t \in Tests, Register(t) PROVE Mailbox!Accept(t)
<1> USE DEF IInv, TypeOK, Goto, readVars, Unregistered, TestPC
<1>1. /\ pc[t] = "sent"
      /\ pc' = [pc EXCEPT ![t] = "setup"]
      /\ UNCHANGED <<buf, rchan, rout>>
      /\ buf[t] = "empty"
  BY DEF Register, TestInv
<1>2. Stage(t) = "none" /\ Stage(t)' = "owed"
  BY <1>1 DEF Stage, Delivered
<1>3. \A u \in Tests : u # t => Stage(u)' = Stage(u)
  BY <1>1 DEF Stage, Delivered
<1>4. \A u \in Tests, r \in Readers : Got(r, u)' <=> Got(r, u)
  BY <1>1 DEF Got
<1>5. QED
  BY <1>2, <1>3, <1>4, StageChange DEF Mailbox!Accept

\* Sending is Deliver.
LEMMA SendDelivers ==
    ASSUME IInv, NEW t \in Tests, SendResult(t) PROVE Mailbox!Deliver(t)
<1> USE DEF IInv, TypeOK, Goto, readVars, Unregistered, PreSend, TestPC,
            Results
<1>0. pc[t] \in {"send", "failSend"} /\ chan[t] = t
  BY DEF SendResult, TestInv
<1>1. /\ pc'[t] \in {"close", "finish", "done"}
      /\ \A u \in Tests : u # t => pc'[u] = pc[u]
      /\ UNCHANGED <<rchan, rout>>
      /\ buf[t] = "empty"
      /\ buf' = [buf EXCEPT ![t] = res[t]]
  BY <1>0 DEF SendResult, SendReady
<1>2. Stage(t) = "owed" /\ Stage(t)' = "ready"
  BY <1>0, <1>1 DEF Stage, Delivered
<1>3. \A u \in Tests : u # t => Stage(u)' = Stage(u)
  BY <1>1 DEF Stage, Delivered
<1>4. \A u \in Tests, r \in Readers : Got(r, u)' <=> Got(r, u)
  BY <1>1 DEF Got
<1>5. QED
  BY <1>2, <1>3, <1>4, StageChange DEF Mailbox!Deliver

\* Receiving a value is Take; finding the channel closed is invisible.
LEMMA ReceiveTakes ==
    ASSUME IInv, NEW r \in Readers, Receive(r)
    PROVE  (\E t \in Tests : Mailbox!Take(r, t)) \/ UNCHANGED Mailbox!vars
<1> USE DEF IInv, TypeOK, testVars, Results
<1> DEFINE c == rchan[r]
<1>1. /\ UNCHANGED <<pc, rchan>>
      /\ rout[r] = "none"
      /\ c \in Tests
      /\ pc[c] \notin Unregistered
  BY DEF Receive, ReadInv
<1>2. CASE buf[c] = "empty"
  <2>1. UNCHANGED buf /\ rout' = [rout EXCEPT ![r] = "already"]
    BY <1>2 DEF Receive
  <2>2. \A t \in Tests, q \in Readers : Got(q, t)' <=> Got(q, t)
    BY <1>1, <2>1 DEF Got
  <2>3. QED
    BY <1>1, <2>1, <2>2, Stutter DEF Delivered
<1>3. CASE buf[c] # "empty"
  <2>1. /\ rout' = [rout EXCEPT ![r] = buf[c]]
        /\ buf' = [buf EXCEPT ![c] = "empty"]
    BY <1>3 DEF Receive
  <2>2. Delivered(c)
    BY <1>1, <1>3 DEF TestInv, Delivered, TestPC, Unregistered, PreSend
  <2>3. Stage(c) = "ready" /\ Stage(c)' = "taken"
    BY <1>1, <1>3, <2>1, <2>2 DEF Stage, Delivered, Unregistered
  <2>4. \A u \in Tests : u # c => Stage(u)' = Stage(u)
    BY <1>1, <2>1 DEF Stage, Delivered
  <2>5. \A u \in Tests, q \in Readers :
           Got(q, u)' <=> Got(q, u) \/ (q = r /\ u = c)
    BY <1>1, <1>3, <2>1 DEF Got
  <2>6. \A q \in Readers : ~Got(q, c)
    BY <1>1, <1>3, <2>2 DEF ResultConserved
  <2>7. {q \in Readers : Got(q, c)'} = {r}
    BY <1>1, <2>5, <2>6
  <2>8. \A u \in Tests : u # c =>
           {q \in Readers : Got(q, u)'} = {q \in Readers : Got(q, u)}
    BY <2>5
  <2>9. Mailbox!Take(r, c)
    <3>1. [u \in Tests |-> Stage(u)]' =
            [[u \in Tests |-> Stage(u)] EXCEPT ![c] = "taken"]
      BY <1>1, <2>3, <2>4, StageChange
    <3>2. [u \in Tests |-> {q \in Readers : Got(q, u)}]' =
            [[u \in Tests |-> {q \in Readers : Got(q, u)}]
                EXCEPT ![c] = {r}]
      BY <1>1, <2>7, <2>8
    <3>3. QED
      BY <1>1, <2>3, <3>1, <3>2 DEF Mailbox!Take
  <2>10. QED
    BY <1>1, <2>9
<1>4. QED
  BY <1>2, <1>3

\* Every other step is invisible.
LEMMA OthersStutter ==
    ASSUME UniqueIds, IInv, [Next]_vars,
           \A t \in Tests : ~Register(t) /\ ~SendResult(t),
           \A r \in Readers : ~Receive(r)
    PROVE  UNCHANGED Mailbox!vars
<1> USE RegistryAssumption
<1> USE DEF IInv, TypeOK, Goto, Return, testVars, readVars, abortVars,
            Unregistered, TestPC, ReadPC, Outcomes
<1>1. ASSUME NEW t \in Tests, Issue(t) \/ RunToEnd(t) \/ TestStep(t)
      PROVE  UNCHANGED Mailbox!vars
  <2>1. /\ UNCHANGED <<buf, rchan, rout>>
        /\ \A u \in Tests : /\ Delivered(u)' <=> Delivered(u)
                            /\ pc'[u] \in Unregistered <=>
                                   pc[u] \in Unregistered
    BY <1>1 DEF TestStep, RunToEnd, StopOnCancel, Issue, Reject, SetupFails,
       SetupSucceeds, Conclude, LookupChannel, CloseChannel, TakeCancel,
       CallCancel, Delivered
  <2>2. QED
    BY <2>1, Stutter DEF Got
<1>2. ASSUME NEW r \in Readers, LookupResult(r) \/ ReadStep(r)
      PROVE  UNCHANGED Mailbox!vars
  <2>1. UNCHANGED <<buf, pc>>
    BY <1>2 DEF ReadStep, LookupResult, ReceiveShutdown, DeleteEntry,
       ReadFiles
  <2>2. \A t \in Tests, q \in Readers : Got(q, t)' <=> Got(q, t)
    <3>1. CASE LookupResult(r)
      BY <3>1 DEF LookupResult, ReadInv, Got
    <3>2. CASE ReceiveShutdown(r)
      BY <3>2 DEF ReceiveShutdown, ReadInv, Got
    <3>3. CASE DeleteEntry(r)
      BY <3>3 DEF DeleteEntry, Got
    <3>4. CASE ReadFiles(r)
      BY <3>4 DEF ReadFiles, ReadInv, Got
    <3>5. QED
      BY <1>2, <3>1, <3>2, <3>3, <3>4 DEF ReadStep
  <2>3. QED
    BY <2>1, <2>2, Stutter DEF Delivered
<1>3. CASE \/ \E a \in Aborters : IssueAbort(a) \/ AbortStep(a)
           \/ Shutdown
           \/ UNCHANGED vars
  <2>1. UNCHANGED <<buf, pc, rchan, rout>>
    BY <1>3 DEF IssueAbort, AbortStep, LookupCancel, CancelTest, Shutdown,
       vars
  <2>2. QED
    BY <2>1, Stutter DEF Got, Delivered
<1>4. QED
  BY <1>1, <1>2, <1>3 DEF Next, Terminating

\* With unique IDs the registry implements the mailbox: a result is owed by
\* an accepted test, gets ready once, and goes to one retrieval call.
THEOREM RegistryImplementsMailbox ==
    ASSUME UniqueIds PROVE Spec => ImplementsMailbox
<1>1. Init => Mailbox!Init
  <2> SUFFICES ASSUME Init PROVE Mailbox!Init
    OBVIOUS
  <2>0. \A t \in Tests : pc[t] = "idle" /\ buf[t] = "empty"
    BY DEF Init
  <2>1. \A t \in Tests : Stage(t) = "none"
    BY <2>0 DEF Stage, Delivered
  <2>2. \A t \in Tests : {r \in Readers : Got(r, t)} = {}
    BY DEF Init, Got
  <2>3. QED
    BY <2>1, <2>2 DEF Mailbox!Init
<1>2. IInv /\ [Next]_vars => [Mailbox!Next]_Mailbox!vars
  <2> SUFFICES ASSUME IInv, [Next]_vars
               PROVE  Mailbox!Next \/ UNCHANGED Mailbox!vars
    OBVIOUS
  <2>1. CASE \E t \in Tests : Register(t) \/ SendResult(t)
    BY <2>1, RegisterAccepts, SendDelivers DEF Mailbox!Next
  <2>2. CASE \E r \in Readers : Receive(r)
    BY <2>2, ReceiveTakes DEF Mailbox!Next
  <2>3. QED
    BY <2>1, <2>2, OthersStutter
<1>3. QED
  BY <1>1, <1>2, Invariant, PTL DEF Spec, ImplementsMailbox, Mailbox!Spec

=============================================================================
