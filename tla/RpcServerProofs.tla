-------------------------- MODULE RpcServerProofs --------------------------
(***************************************************************************)
(* Proof that Stop waits for everything, for any finite set of clients.    *)
(* The inductive invariant says what the wait group counts.                *)
(***************************************************************************)
EXTENDS RpcServer, FiniteSetTheorems, TLAPS

\* The goroutines of connections, from their start to wg.Done.
Counted == {c \in Clients : state[c] \in {"serving", "served", "deleted"}}

LoopCount == (IF loop = "exited" THEN 0 ELSE 1)
             + (IF loop = "insert" THEN 1 ELSE 0)

CounterExact == wg = Cardinality(Counted) + LoopCount

\* The connection in the accept loop's hands.
LoopInv ==
    /\ loop \in {"add", "insert"} => \E c \in Clients : conn = {c}
    /\ loop \in {"accept", "exited"} => conn = {}
    /\ conn = {c \in Clients : state[c] = "accepted"}

ConnsInv ==
    /\ conns = {c \in Clients : state[c] \in {"serving", "served"}}
    /\ calls \subseteq {c \in Clients : state[c] = "serving"}

StopInv ==
    /\ stop # "no" => ~listening
    /\ ~listening => \A c \in Clients : state[c] # "dialled"
    /\ stop = "returned" => wg = 0

IInv == RpcTypeOK /\ CounterExact /\ LoopInv /\ ConnsInv /\ StopInv

\* The counted connections are finitely many.
LEMMA CountedFinite == IsFiniteSet(Counted) /\ Cardinality(Counted) \in Nat
BY ClientsAssumption, FS_Subset, FS_CardinalityType DEF Counted

\* A counter of zero means that no goroutine is left.
LEMMA ZeroMeansNone ==
    ASSUME IInv, wg = 0 PROVE loop = "exited" /\ Counted = {}
<1>1. Cardinality(Counted) = 0 /\ loop = "exited"
  BY CountedFinite DEF IInv, CounterExact, LoopCount
<1>2. QED
  BY <1>1, CountedFinite, FS_EmptySet

\* Steps that start or end no goroutine.
LEMMA QuietSteps ==
    ASSUME IInv,
           \/ UNCHANGED rpcVars
           \/ CancelCtx \/ CloseListener \/ CloseConns \/ StopReturns
           \/ \E c \in Clients :
                 \/ Dial(c) \/ Call(c) \/ CallReturns(c) \/ Disconnect(c)
                 \/ Accept(c) \/ ServeReturns(c) \/ DeleteConn(c)
    PROVE  IInv'
<1> USE DEF IInv
<1>1. RpcTypeOK'
  <2> USE DEF RpcTypeOK
  <2>1. CASE UNCHANGED rpcVars \/ CancelCtx \/ StopReturns
    BY <2>1 DEF rpcVars, CancelCtx, StopReturns
  <2>2. CASE CloseListener
    BY <2>2 DEF CloseListener, States
  <2>3. CASE CloseConns
    BY <2>3 DEF CloseConns
  <2>4. ASSUME NEW c \in Clients, Dial(c) \/ Accept(c) PROVE RpcTypeOK'
    BY <2>4 DEF Dial, Accept, States
  <2>5. ASSUME NEW c \in Clients, Call(c) \/ CallReturns(c) PROVE RpcTypeOK'
    BY <2>5 DEF Call, CallReturns
  <2>6. ASSUME NEW c \in Clients, Disconnect(c) PROVE RpcTypeOK'
    BY <2>6 DEF Disconnect
  <2>7. ASSUME NEW c \in Clients, ServeReturns(c) \/ DeleteConn(c)
        PROVE  RpcTypeOK'
    BY <2>7 DEF ServeReturns, DeleteConn, States
  <2>8. QED
    BY <2>1, <2>2, <2>3, <2>4, <2>5, <2>6, <2>7
<1>2. /\ wg' = wg
      /\ LoopCount' = LoopCount
      /\ Counted' = Counted
  BY DEF RpcTypeOK, States, LoopCount, Counted, rpcVars, CancelCtx,
         CloseListener, CloseConns, StopReturns, Dial, Call, CallReturns, Disconnect, Accept,
         ServeReturns, DeleteConn
<1>3. CounterExact'
  BY <1>2 DEF CounterExact
<1>4. LoopInv'
  BY DEF LoopInv, RpcTypeOK, States, rpcVars, CancelCtx, CloseListener,
         CloseConns, StopReturns, Dial, Call, CallReturns, Disconnect, Accept,
         ServeReturns, DeleteConn
<1>5. ConnsInv'
  BY DEF ConnsInv, RpcTypeOK, States, rpcVars, CancelCtx, CloseListener,
         CloseConns, StopReturns, Dial, Call, CallReturns, Disconnect, Accept,
         ServeReturns, DeleteConn
<1>6. StopInv'
  BY DEF StopInv, RpcTypeOK, States, rpcVars, CancelCtx, CloseListener,
         CloseConns, StopReturns, Dial, Call, CallReturns, Disconnect, Accept,
         ServeReturns, DeleteConn
<1>7. QED
  BY <1>1, <1>3, <1>4, <1>5, <1>6

\* The loop counts a connection, starts its goroutine, or ends.
LEMMA LoopSteps ==
    ASSUME IInv, AddConn \/ InsertConn \/ AcceptFails PROVE IInv'
<1> USE DEF IInv
<1>1. wg # 0
  BY ZeroMeansNone DEF AddConn, InsertConn, AcceptFails
<1>2. CASE AddConn
  <2>1. Counted' = Counted /\ LoopCount' = LoopCount + 1
    BY <1>2 DEF AddConn, Counted, LoopCount
  <2>2. CounterExact'
    BY <1>2, <2>1, CountedFinite DEF AddConn, CounterExact, LoopCount
  <2>3. QED
    BY <1>1, <1>2, <2>2 DEF AddConn, RpcTypeOK, LoopInv, ConnsInv, StopInv
<1>3. CASE InsertConn
  <2>1. PICK c \in Clients : conn = {c} /\ state[c] = "accepted"
    BY <1>3 DEF InsertConn, LoopInv
  <2>2. state' = [state EXCEPT ![c] = "serving"]
    BY <1>3, <2>1 DEF InsertConn, RpcTypeOK
  <2>3. c \notin Counted /\ Counted' = Counted \cup {c}
    BY <2>1, <2>2 DEF Counted, RpcTypeOK
  <2>4. Cardinality(Counted') = Cardinality(Counted) + 1
    BY <2>3, CountedFinite, FS_AddElement
  <2>5. CounterExact'
    BY <1>3, <2>4, CountedFinite DEF InsertConn, CounterExact, LoopCount
  <2>6. RpcTypeOK'
    BY <1>3, <2>1, <2>2 DEF InsertConn, RpcTypeOK, States
  <2>7. LoopInv'
    BY <1>3, <2>1, <2>2 DEF InsertConn, LoopInv, RpcTypeOK
  <2>8. ConnsInv'
    BY <1>3, <2>1, <2>2 DEF InsertConn, ConnsInv, RpcTypeOK
  <2>9. StopInv'
    BY <1>1, <1>3, <2>1, <2>2 DEF InsertConn, StopInv, RpcTypeOK
  <2>10. QED
    BY <2>5, <2>6, <2>7, <2>8, <2>9
<1>4. CASE AcceptFails
  <2>1. Counted' = Counted /\ LoopCount = 1 /\ LoopCount' = 0
    BY <1>4 DEF AcceptFails, Counted, LoopCount
  <2>2. CounterExact' /\ wg' \in Nat
    BY <1>4, <2>1, CountedFinite DEF AcceptFails, CounterExact
  <2>3. QED
    BY <1>1, <1>4, <2>2 DEF AcceptFails, RpcTypeOK, LoopInv, ConnsInv, StopInv
<1>5. QED
  BY <1>2, <1>3, <1>4

\* A connection's goroutine ends.
LEMMA DoneStep == ASSUME IInv, NEW c \in Clients, ConnDone(c) PROVE IInv'
<1> USE DEF IInv
<1>1. c \in Counted /\ Counted' = Counted \ {c}
  BY DEF ConnDone, Counted, RpcTypeOK
<1>2. Cardinality(Counted') = Cardinality(Counted) - 1
  BY <1>1, CountedFinite, FS_RemoveElement
<1>3. Cardinality(Counted') \in Nat
  BY <1>1, CountedFinite, FS_RemoveElement, FS_CardinalityType
<1>4. CounterExact' /\ wg' \in Nat
  BY <1>2, <1>3, CountedFinite DEF ConnDone, CounterExact, LoopCount
<1>5. wg # 0
  BY <1>1, ZeroMeansNone
<1>6. RpcTypeOK'
  BY <1>4 DEF ConnDone, RpcTypeOK, States
<1>7. LoopInv' /\ ConnsInv' /\ StopInv'
  BY <1>5 DEF ConnDone, RpcTypeOK, LoopInv, ConnsInv, StopInv
<1>8. QED
  BY <1>4, <1>6, <1>7

\* When Stop returns the accept loop and every connection have ended, for
\* any number of clients and however their steps interleave.
THEOREM StopIsAlwaysComplete == RpcSpec => []StopIsComplete
<1>1. RpcInit => IInv
  <2> SUFFICES ASSUME RpcInit PROVE IInv
    OBVIOUS
  <2>1. Counted = {} /\ LoopCount = 1
    BY DEF RpcInit, Counted, LoopCount
  <2>2. CounterExact
    BY <2>1, FS_EmptySet DEF RpcInit, CounterExact
  <2>3. RpcTypeOK
    BY DEF RpcInit, RpcTypeOK, States
  <2>4. LoopInv /\ ConnsInv /\ StopInv
    BY DEF RpcInit, LoopInv, ConnsInv, StopInv
  <2>5. QED
    BY <2>2, <2>3, <2>4 DEF IInv
<1>2. IInv /\ [RpcNext]_rpcVars => IInv'
  BY QuietSteps, LoopSteps, DoneStep DEF RpcNext, ServerStep, Stopped
<1>3. IInv => StopIsComplete
  <2> SUFFICES ASSUME IInv, stop = "returned" PROVE StopIsComplete
    BY DEF StopIsComplete
  <2>1. loop = "exited" /\ Counted = {}
    BY ZeroMeansNone DEF IInv, StopInv
  <2>2. \A c \in Clients : state[c] \in {"none", "refused", "gone"}
    BY <2>1 DEF IInv, RpcTypeOK, States, Counted, LoopInv, StopInv
  <2>3. conns = {} /\ calls = {}
    BY <2>2 DEF IInv, ConnsInv
  <2>4. QED
    BY <2>1, <2>2, <2>3 DEF StopIsComplete
<1>4. QED
  BY <1>1, <1>2, <1>3, PTL DEF RpcSpec
=============================================================================
