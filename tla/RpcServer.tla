----------------------------- MODULE RpcServer -----------------------------
(***************************************************************************)
(* The RPC front of a NetScalpel server (pkg/server.go): RunServer's       *)
(* accept loop, the goroutine that serves each connection, and Stop.  They *)
(* share the set conns, under connsLock, and the wait group wg, which      *)
(* counts the accept loop and the connections.                             *)
(*                                                                         *)
(* net/rpc's ServeConn returns once the connection is closed and the calls *)
(* that were pending on it have returned.                                  *)
(***************************************************************************)
EXTENDS Naturals, FiniteSets

CONSTANT Clients    \* the connections clients may make, one per client

ASSUME ClientsAssumption == IsFiniteSet(Clients)

VARIABLES
    listening,  \* is the TCP listener open
    conns,      \* connections registered for Stop
    wg,         \* the wait group's counter
    loop,       \* next step of the accept loop
    conn,       \* the connection the loop has accepted, as a set
    state,      \* connection -> how far its service has come
    open,       \* connection -> is its socket open
    calls,      \* connections with a call pending on the server
    srvDone,    \* has the server's context been cancelled
    stop,       \* next step of Stop
    late        \* history: connections registered after Stop closed the set

rpcVars == <<listening, conns, wg, loop, conn, state, open, calls, srvDone,
             stop, late>>

States == {"none", "dialled", "refused", "accepted", "serving", "served",
           "deleted", "gone"}

RpcTypeOK ==
    /\ listening \in BOOLEAN
    /\ conns \subseteq Clients
    /\ wg \in Nat
    /\ loop \in {"accept", "add", "insert", "exited"}
    /\ conn \subseteq Clients
    /\ state \in [Clients -> States]
    /\ open \in [Clients -> BOOLEAN]
    /\ calls \subseteq Clients
    /\ srvDone \in BOOLEAN
    /\ stop \in {"no", "closing", "waiting", "returned"}
    /\ late \subseteq Clients

\* RunServer has opened the listener and counted the accept loop.
RpcInit ==
    /\ listening = TRUE
    /\ conns = {}
    /\ wg = 1
    /\ loop = "accept"
    /\ conn = {}
    /\ state = [c \in Clients |-> "none"]
    /\ open = [c \in Clients |-> FALSE]
    /\ calls = {}
    /\ srvDone = FALSE
    /\ stop = "no"
    /\ late = {}

-----------------------------------------------------------------------------
(***************************************************************************)
(* Clients.                                                                *)
(***************************************************************************)
\* The kernel completes the connection before Accept hands it out.
Dial(c) ==
    /\ state[c] = "none"
    /\ listening
    /\ state' = [state EXCEPT ![c] = "dialled"]
    /\ open' = [open EXCEPT ![c] = TRUE]
    /\ UNCHANGED <<listening, conns, wg, loop, conn, calls, srvDone, stop,
                   late>>

\* A request that the server answers later, such as a result retrieval.
Call(c) ==
    /\ state[c] = "serving"
    /\ open[c]
    /\ c \notin calls
    /\ calls' = calls \cup {c}
    /\ UNCHANGED <<listening, conns, wg, loop, conn, state, open, srvDone,
                   stop, late>>

\* The test delivers its result, or the server's context ends the wait.
CallReturns(c) ==
    /\ c \in calls
    /\ calls' = calls \ {c}
    /\ UNCHANGED <<listening, conns, wg, loop, conn, state, open, srvDone,
                   stop, late>>

\* The client closes its end.
Disconnect(c) ==
    /\ open[c]
    /\ open' = [open EXCEPT ![c] = FALSE]
    /\ UNCHANGED <<listening, conns, wg, loop, conn, state, calls, srvDone,
                   stop, late>>

-----------------------------------------------------------------------------
(***************************************************************************)
(* The accept loop.                                                        *)
(***************************************************************************)
\* The listener hands out a connection.
Accept(c) ==
    /\ loop = "accept"
    /\ listening
    /\ state[c] = "dialled"
    /\ state' = [state EXCEPT ![c] = "accepted"]
    /\ conn' = {c}
    /\ loop' = "add"
    /\ UNCHANGED <<listening, conns, wg, open, calls, srvDone, stop, late>>

\* Mutant of AddConn: the connection's goroutine counts itself.
AddConnLater ==
    /\ loop = "add"
    /\ loop' = "insert"
    /\ UNCHANGED <<listening, conns, wg, conn, state, open, calls, srvDone,
                   stop, late>>

\* s.wg.Add(1)
AddConn ==
    /\ loop = "add"
    /\ wg' = wg + 1
    /\ loop' = "insert"
    /\ UNCHANGED <<listening, conns, conn, state, open, calls, srvDone, stop,
                   late>>

\* Under connsLock: register the connection; then start its goroutine.
InsertConn ==
    /\ loop = "insert"
    /\ conns' = conns \cup conn
    /\ late' = IF stop \in {"no", "closing"} THEN late ELSE late \cup conn
    /\ state' = [c \in Clients |-> IF c \in conn THEN "serving" ELSE state[c]]
    /\ conn' = {}
    /\ loop' = "accept"
    /\ UNCHANGED <<listening, wg, open, calls, srvDone, stop>>

\* Accept fails, because Stop has closed the listener or for any other
\* reason (such as no file descriptors): the loop ends for good.
AcceptFails ==
    /\ loop = "accept"
    /\ loop' = "exited"
    /\ wg' = wg - 1
    /\ UNCHANGED <<listening, conns, conn, state, open, calls, srvDone, stop,
                   late>>

-----------------------------------------------------------------------------
(***************************************************************************)
(* A connection's goroutine.                                               *)
(***************************************************************************)
\* The connection has failed and no call is pending on it.
ServeReturns(c) ==
    /\ state[c] = "serving"
    /\ ~open[c]
    /\ c \notin calls
    /\ state' = [state EXCEPT ![c] = "served"]
    /\ UNCHANGED <<listening, conns, wg, loop, conn, open, calls, srvDone,
                   stop, late>>

\* Under connsLock.
DeleteConn(c) ==
    /\ state[c] = "served"
    /\ conns' = conns \ {c}
    /\ state' = [state EXCEPT ![c] = "deleted"]
    /\ UNCHANGED <<listening, wg, loop, conn, open, calls, srvDone, stop,
                   late>>

\* s.wg.Done()
ConnDone(c) ==
    /\ state[c] = "deleted"
    /\ wg' = wg - 1
    /\ state' = [state EXCEPT ![c] = "gone"]
    /\ UNCHANGED <<listening, conns, loop, conn, open, calls, srvDone, stop,
                   late>>

-----------------------------------------------------------------------------
(***************************************************************************)
(* The end: main cancels the context and calls Stop.                       *)
(***************************************************************************)
\* The signal handler of main.
CancelCtx ==
    /\ ~srvDone
    /\ srvDone' = TRUE
    /\ UNCHANGED <<listening, conns, wg, loop, conn, state, open, calls, stop,
                   late>>

\* Closing the listener also drops what waits to be accepted.
CloseListener ==
    /\ srvDone
    /\ stop = "no"
    /\ listening' = FALSE
    /\ state' = [c \in Clients |-> IF state[c] = "dialled" THEN "refused"
                                                           ELSE state[c]]
    /\ open' = [c \in Clients |-> open[c] /\ state[c] # "dialled"]
    /\ stop' = "closing"
    /\ UNCHANGED <<conns, wg, loop, conn, calls, srvDone, late>>

\* Mutant of CloseConns: the connections are left open.
CloseConnsSkipped ==
    /\ stop = "closing"
    /\ stop' = "waiting"
    /\ UNCHANGED <<listening, conns, wg, loop, conn, state, open, calls,
                   srvDone, late>>

\* Under connsLock: close every registered connection.
CloseConns ==
    /\ stop = "closing"
    /\ open' = [c \in Clients |-> open[c] /\ c \notin conns]
    /\ stop' = "waiting"
    /\ UNCHANGED <<listening, conns, wg, loop, conn, state, calls, srvDone,
                   late>>

\* s.wg.Wait()
StopReturns ==
    /\ stop = "waiting"
    /\ wg = 0
    /\ stop' = "returned"
    /\ UNCHANGED <<listening, conns, wg, loop, conn, state, open, calls,
                   srvDone, late>>

\* Stop has returned and the process exits.
Stopped ==
    /\ stop = "returned"
    /\ UNCHANGED rpcVars

-----------------------------------------------------------------------------
ServerStep ==
    \/ AddConn
    \/ InsertConn
    \/ \E c \in Clients : \/ CallReturns(c) \/ ServeReturns(c)
                          \/ DeleteConn(c) \/ ConnDone(c)

RpcNext ==
    \/ ServerStep
    \/ AcceptFails
    \/ CancelCtx
    \/ CloseListener
    \/ CloseConns
    \/ StopReturns
    \/ Stopped
    \/ \E c \in Clients : Dial(c) \/ Call(c) \/ Disconnect(c) \/ Accept(c)

RpcSpec == RpcInit /\ [][RpcNext]_rpcVars

\* The goroutines of the server run; after the signal, so does main.  A call
\* returns because the context ends it or the test it waits for is bounded.
\* Clients owe nothing: they may stay connected for as long as they like.
RpcFairness ==
    /\ WF_rpcVars(AddConn)
    /\ WF_rpcVars(InsertConn)
    /\ WF_rpcVars(AcceptFails /\ ~listening)
    /\ \A c \in Clients : /\ WF_rpcVars(CallReturns(c))
                          /\ WF_rpcVars(ServeReturns(c))
                          /\ WF_rpcVars(DeleteConn(c))
                          /\ WF_rpcVars(ConnDone(c))
    /\ WF_rpcVars(CloseListener)
    /\ WF_rpcVars(CloseConns)
    /\ WF_rpcVars(StopReturns)

RpcFairSpec == RpcSpec /\ RpcFairness

-----------------------------------------------------------------------------
\* When Stop has returned nothing runs any more: the accept loop has ended
\* and every accepted connection is closed, answered and forgotten.
StopIsComplete ==
    stop = "returned" =>
        /\ loop = "exited"
        /\ \A c \in Clients : state[c] \in {"none", "refused", "gone"}
        /\ conns = {}
        /\ calls = {}

\* Stop comes back, unless it waits for the client of a connection that was
\* registered only after Stop had closed the registered ones.
StopWaitsOnlyForLate ==
    stop = "closing" ~>
        \/ stop = "returned"
        \/ \E c \in late : open[c]

\* Stop comes back whatever the clients do: it closes their connections
\* instead of waiting for them to disconnect.
StopComesBack == stop = "closing" ~> stop = "returned"
=============================================================================
