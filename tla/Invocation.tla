----------------------------- MODULE Invocation -----------------------------
(***************************************************************************)
(* The client side of scalpel-exp: Client.Run and the two halves of a      *)
(* procedure invocation (scheduleProcedureInvocation,                      *)
(* finishProcedureInvocation in cmd/scalpel-exp/client.go) with the        *)
(* Executor that runs, aborts and gathers the measurements and the         *)
(* manifest (info.json) that tells what became of them.                    *)
(*                                                                         *)
(* The main goroutine, one goroutine per measurement, the server, the user *)
(* who cancels and the network that may take the control connection away   *)
(* run concurrently.  The server is reduced to the state of each test;     *)
(* TestRegistry models it in full.                                         *)
(***************************************************************************)
EXTENDS Naturals, Sequences

CONSTANTS
    Clients,    \* the measurements of one invocation
    Local,      \* those that are local commands, without the server
    Rounds      \* invocations of one run

ASSUME InvocationAssumption ==
    /\ Local \subseteq Clients
    /\ Rounds \in Nat \ {0}

VARIABLES
    pc,         \* next step of the main goroutine
    round,      \* invocations started
    ret,        \* what Client.Run returned
    past,       \* the info.json files of the finished invocations
    cancelled,  \* is the context cancelled
    conn,       \* the control connection
    planned,    \* e.Clients
    started,    \* e.Started
    status,     \* e.Manifest.Status
    errs,       \* e.Manifest.Errors, by phase
    err,        \* is there a scheduleErr or a resultErr
    safe,       \* remoteAfterSafe
    after,      \* was Manifest.Server.After recorded
    disk,       \* info.json
    rec,        \* the records' Status
    gather,     \* the records' GatherStatus
    go,         \* the goroutines launched by the executor
    ranOK,      \* history: clients whose Run returned nil
    abort,      \* Abort calls, by client
    test        \* the test behind a client

runVars == <<round, ret, past>>
planVars == <<planned, started>>
manifestVars == <<status, errs, err, safe, after, disk>>
clientVars == <<rec, gather, go, ranOK, abort>>
vars == <<pc, runVars, cancelled, conn, planVars, manifestVars, clientVars,
          test>>

Statuses == {"scheduled", "running", "ran", "failed", "cancelled", "complete"}
Phases == {"schedule", "manifest", "log_setup", "run", "abort", "gather",
           "server_log", "manifest_final"}

NoFile == [status |-> "none"]

\* info.json: its content, and whether ExecutionEnd is set.
Files == [status : Statuses, planned : SUBSET Clients, errs : SUBSET Phases,
          rec : [Clients -> Statuses \cup {"none"}],
          gather : [Clients -> {"not_gathered", "failed", "complete"}],
          final : BOOLEAN]

TypeOK ==
    /\ pc \in {"dial", "dialled", "metadata", "reconnect", "plan", "initial",
               "setup", "wait", "abort", "gather", "log", "finalize", "after",
               "write", "close", "returned"}
    /\ round \in 1 .. Rounds
    /\ ret \in {"none", "nil", "error"}
    /\ past \in Seq(Files \cup {NoFile})
    /\ cancelled \in BOOLEAN
    /\ conn \in {"open", "closed"}
    /\ planned \subseteq Clients
    /\ started \in BOOLEAN
    /\ status \in Statuses \cup {"none"}
    /\ errs \subseteq Phases
    /\ err \in BOOLEAN
    /\ safe \in BOOLEAN
    /\ after \in BOOLEAN
    /\ disk \in Files \cup {NoFile}
    /\ rec \in [Clients -> Statuses \cup {"none"}]
    /\ gather \in [Clients -> {"not_gathered", "failed", "complete"}]
    /\ go \in [Clients -> {"idle", "launched", "running", "asked", "testing",
                           "done"}]
    /\ ranOK \subseteq Clients
    /\ abort \in [Clients -> {"none", "missed", "ok", "failed"}]
    /\ test \in [Clients -> {"none", "requested", "refused", "running",
                             "ended", "local"}]

Init ==
    /\ pc = "dial"
    /\ round = 1
    /\ ret = "none"
    /\ past = <<>>
    /\ cancelled = FALSE
    /\ conn = "closed"
    /\ planned = {}
    /\ started = FALSE
    /\ status = "none"
    /\ errs = {}
    /\ err = FALSE
    /\ safe = TRUE
    /\ after = FALSE
    /\ disk = NoFile
    /\ rec = [c \in Clients |-> "none"]
    /\ gather = [c \in Clients |-> "not_gathered"]
    /\ go = [c \in Clients |-> "idle"]
    /\ ranOK = {}
    /\ abort = [c \in Clients |-> "none"]
    /\ test = [c \in Clients |-> "none"]

Remote == Clients \ Local

-----------------------------------------------------------------------------
(***************************************************************************)
(* Client.Run, and scheduleProcedureInvocation.                            *)
(***************************************************************************)
\* Client.Run returns an error.
ReturnError ==
    /\ pc' = "returned"
    /\ ret' = "error"
    /\ conn' = "closed"
    /\ past' = Append(past, disk)
    /\ UNCHANGED round

\* The head of the loop: dial the server unless cancelled.
Dial ==
    /\ pc = "dial"
    /\ \/ ReturnError
       \/ /\ ~cancelled
          /\ pc' = "dialled"
          /\ conn' = "open"
          /\ UNCHANGED runVars
    /\ UNCHANGED <<cancelled, planVars, manifestVars, clientVars, test>>

CheckDialled ==
    /\ pc = "dialled"
    /\ \/ /\ cancelled
          /\ ReturnError
       \/ /\ ~cancelled
          /\ pc' = "metadata"
          /\ UNCHANGED <<runVars, conn>>
    /\ UNCHANGED <<cancelled, planVars, manifestVars, clientVars, test>>

\* BoundedCall: an answer (or an error) while the connection lasts, or the
\* context ends or two seconds pass and the connection is closed.
BoundedCall(answered, interrupted, timedOut) ==
    \/ answered /\ UNCHANGED conn
    \/ cancelled /\ interrupted /\ conn' \in {conn, "closed"}
    \/ timedOut /\ conn' = "closed"

\* FetchMetadata before the invocation; only a timeout asks for a new
\* connection.
FetchMetadata ==
    /\ pc = "metadata"
    /\ BoundedCall(pc' = "plan", pc' = "plan", pc' = "reconnect")
    /\ UNCHANGED <<runVars, cancelled, planVars, manifestVars, clientVars,
                   test>>

Reconnect ==
    /\ pc = "reconnect"
    /\ \/ /\ cancelled      \* not even tried
          /\ pc' = "plan"
          /\ UNCHANGED <<runVars, conn>>
       \/ /\ ~cancelled
          /\ pc' = "plan"
          /\ conn' = "open"
          /\ UNCHANGED runVars
       \/ ReturnError
    /\ UNCHANGED <<cancelled, planVars, manifestVars, clientVars, test>>

\* The result directory, the manifest, and the procedure's schedule.  A
\* procedure that fails may have scheduled some measurements already.
Plan ==
    /\ pc = "plan"
    /\ status' = "scheduled"
    /\ \/ /\ planned' = Clients
          /\ pc' = "initial"
          /\ UNCHANGED <<errs, err>>
       \/ /\ planned' \in SUBSET Clients
          /\ errs' = errs \cup {"schedule"}
          /\ err' = TRUE
          /\ pc' = "setup"
    /\ rec' = [c \in Clients |-> IF c \in planned' THEN "scheduled" ELSE "none"]
    /\ UNCHANGED <<runVars, cancelled, conn, started, safe, after, disk, gather,
                   go, ranOK, abort, test>>

\* There is no directory to put the results in: nothing is finished either.
NoResultPath ==
    /\ pc = "plan"
    /\ ReturnError
    /\ UNCHANGED <<cancelled, planVars, manifestVars, clientVars, test>>

\* What WriteInfo renames to info.json.
Snapshot(final) ==
    [status |-> status, planned |-> planned, errs |-> errs, rec |-> rec,
     gather |-> gather, final |-> final]

Start ==
    /\ started' = TRUE
    /\ go' = [c \in Clients |-> "launched"]

\* Mutant of WriteInitial: measurements start without a manifest.
WriteInitialAnyway ==
    /\ pc = "initial"
    /\ pc' = "setup"
    /\ \/ /\ disk' = Snapshot(FALSE)
          /\ UNCHANGED <<errs, err>>
       \/ /\ errs' = errs \cup {"manifest"}
          /\ err' = TRUE
          /\ UNCHANGED disk
    /\ status' = "running"
    /\ Start
    /\ UNCHANGED <<runVars, cancelled, conn, planned, safe, after, rec, gather,
                   ranOK, abort, test>>

\* The first WriteInfo; only if it succeeds are the measurements started.
WriteInitial ==
    /\ pc = "initial"
    /\ pc' = "setup"
    /\ \/ /\ disk' = Snapshot(FALSE)
          /\ status' = "running"
          /\ Start
          /\ UNCHANGED <<errs, err>>
       \/ /\ errs' = errs \cup {"manifest"}
          /\ err' = TRUE
          /\ UNCHANGED <<disk, status, started, go>>
    /\ UNCHANGED <<runVars, cancelled, conn, planned, safe, after, rec, gather,
                   ranOK, abort, test>>
-----------------------------------------------------------------------------
(***************************************************************************)
(* The measurements: launch of executor.go and Run of the clients.         *)
(***************************************************************************)
BeginRun(c) ==
    /\ go[c] = "launched"
    /\ go' = [go EXCEPT ![c] = "running"]
    /\ rec' = [rec EXCEPT ![c] = "running"]
    /\ UNCHANGED <<pc, runVars, cancelled, conn, planVars, manifestVars, gather,
                   ranOK, abort, test>>

\* A local command creates its directory and runs.
RunLocally(c) ==
    /\ c \in Local
    /\ go[c] = "running"
    /\ go' = [go EXCEPT ![c] = "testing"]
    /\ test' = [test EXCEPT ![c] = "local"]
    /\ UNCHANGED <<pc, runVars, cancelled, conn, planVars, manifestVars, rec,
                   gather, ranOK, abort>>

\* RequestServer or RunCommand is sent, and answered.
Request(c) ==
    /\ c \in Remote
    /\ go[c] = "running"
    /\ conn = "open"
    /\ go' = [go EXCEPT ![c] = "asked"]
    /\ test' = [test EXCEPT ![c] = "requested"]
    /\ UNCHANGED <<pc, runVars, cancelled, conn, planVars, manifestVars, rec,
                   gather, ranOK, abort>>

Answered(c) ==
    /\ go[c] = "asked"
    /\ conn = "open"
    /\ test[c] \in {"running", "ended"}
    /\ go' = [go EXCEPT ![c] = "testing"]
    /\ UNCHANGED <<pc, runVars, cancelled, conn, planVars, manifestVars, rec,
                   gather, ranOK, abort, test>>

\* Why Run may fail: no connection or no directory; an error, a cancellation
\* or a lost connection while the server is asked; anything after that.
RunCanFail(c) ==
    \/ go[c] = "running" /\ (c \in Local \/ conn = "closed")
    \/ go[c] = "asked"
         /\ (cancelled \/ conn = "closed" \/ test[c] = "refused")
    \/ go[c] = "testing"

RunFails(c) ==
    /\ RunCanFail(c)
    /\ go' = [go EXCEPT ![c] = "done"]
    /\ rec' = [rec EXCEPT ![c] = IF cancelled THEN "cancelled" ELSE "failed"]
    /\ UNCHANGED <<pc, runVars, cancelled, conn, planVars, manifestVars, gather,
                   ranOK, abort, test>>

RunSucceeds(c) ==
    /\ go[c] = "testing"
    /\ go' = [go EXCEPT ![c] = "done"]
    /\ rec' = [rec EXCEPT ![c] = "ran"]
    /\ ranOK' = ranOK \cup {c}
    /\ UNCHANGED <<pc, runVars, cancelled, conn, planVars, manifestVars, gather,
                   abort, test>>

\* The server starts the test or refuses it, and the test ends.
ServerAccepts(c) ==
    /\ test[c] = "requested"
    /\ \E answer \in {"running", "refused"} :
          test' = [test EXCEPT ![c] = answer]
    /\ UNCHANGED <<pc, runVars, cancelled, conn, planVars, manifestVars,
                   clientVars>>

ServerEnds(c) ==
    /\ test[c] = "running"
    /\ test' = [test EXCEPT ![c] = "ended"]
    /\ UNCHANGED <<pc, runVars, cancelled, conn, planVars, manifestVars,
                   clientVars>>

-----------------------------------------------------------------------------
(***************************************************************************)
(* finishProcedureInvocation.                                              *)
(***************************************************************************)
\* setupSlog for the result directory, which may fail without consequence
\* for the measurements.  Without measurements there is nothing to wait for.
Setup ==
    /\ pc = "setup"
    /\ pc' = IF started THEN "wait" ELSE "finalize"
    /\ \/ /\ errs' = errs \cup {"log_setup"}
          /\ err' = TRUE
       \/ UNCHANGED <<errs, err>>
    /\ UNCHANGED <<runVars, cancelled, conn, planVars, status, safe, after,
                   disk, clientVars, test>>

\* Mutant of AllRan: a cancelled invocation does not join its goroutines.
AllRanUnlessCancelled == cancelled \/ \A c \in Clients : go[c] = "done"

\* What e.G.Wait waits for.
AllRan == \A c \in Clients : go[c] = "done"

\* e.G.Wait, and what follows it: on a cancellation the tests are aborted
\* and nothing is gathered.
Wait ==
    /\ pc = "wait"
    /\ AllRan
    /\ LET runErr == ranOK # Clients
       IN  /\ errs' = IF runErr THEN errs \cup {"run"} ELSE errs
           /\ err' = (err \/ runErr \/ cancelled)
    /\ pc' = IF cancelled THEN "abort" ELSE "gather"
    /\ UNCHANGED <<runVars, cancelled, conn, planVars, status, safe, after,
                   disk, clientVars, test>>

\* One Abort call of AbortServerTests: it finds a test or not, and reports
\* success either way; without an answer in time it fails.
AbortCall(c) ==
    /\ pc = "abort"
    /\ abort[c] = "none"
    /\ \/ /\ c \in Local
          /\ abort' = [abort EXCEPT ![c] = "ok"]
       \/ /\ c \in Remote /\ conn = "open"
          /\ abort' = [abort EXCEPT ![c] =
                         IF test[c] = "requested" THEN "missed" ELSE "ok"]
       \/ /\ c \in Remote
          /\ abort' = [abort EXCEPT ![c] = "failed"]
    /\ UNCHANGED <<pc, runVars, cancelled, conn, planVars, manifestVars, rec,
                   gather, go, ranOK, test>>

\* AbortServerTests has joined its calls.
AbortDone ==
    /\ pc = "abort"
    /\ \A c \in Clients : abort[c] # "none"
    /\ errs' = IF \E c \in Clients : abort[c] = "failed"
                 THEN errs \cup {"abort"} ELSE errs
    /\ pc' = "finalize"
    /\ UNCHANGED <<runVars, cancelled, conn, planVars, status, err, safe, after,
                   disk, clientVars, test>>

\* Mutant of GatherSucceeds: a result makes a failed run complete.
GatherSucceedsAlways(c) ==
    /\ pc = "gather"
    /\ gather[c] = "not_gathered"
    /\ test[c] = "local" \/ (test[c] = "ended" /\ conn = "open")
    /\ gather' = [gather EXCEPT ![c] = "complete"]
    /\ rec' = [rec EXCEPT ![c] = "complete"]
    /\ UNCHANGED <<pc, runVars, cancelled, conn, planVars, manifestVars, go,
                   ranOK, abort, test>>

\* Gather of one client brings the result and writes it.
GatherSucceeds(c) ==
    /\ pc = "gather"
    /\ gather[c] = "not_gathered"
    /\ test[c] = "local" \/ (test[c] = "ended" /\ conn = "open")
    /\ gather' = [gather EXCEPT ![c] = "complete"]
    /\ rec' = [rec EXCEPT ![c] = IF @ = "ran" THEN "complete" ELSE @]
    /\ UNCHANGED <<pc, runVars, cancelled, conn, planVars, manifestVars, go,
                   ranOK, abort, test>>

\* Mutant of GatherCanFail: the call does not watch the context.
GatherCanFailNotOnCancel(c) ==
    \/ test[c] \in {"none", "refused", "ended", "local"}
    \/ c \in Remote /\ conn = "closed"

\* Why Gather may fail: there is no result, it is an error, or it cannot be
\* written; the connection is lost; the user cancels.
GatherCanFail(c) ==
    \/ test[c] \in {"none", "refused", "ended", "local"}
    \/ c \in Remote /\ (conn = "closed" \/ cancelled)

GatherFails(c) ==
    /\ pc = "gather"
    /\ gather[c] = "not_gathered"
    /\ GatherCanFail(c)
    /\ gather' = [gather EXCEPT ![c] = "failed"]
    /\ rec' = [rec EXCEPT ![c] = IF @ = "cancelled" THEN @ ELSE "failed"]
    /\ UNCHANGED <<pc, runVars, cancelled, conn, planVars, manifestVars, go,
                   ranOK, abort, test>>

\* Mutant of GatherDone: the error is not returned.
GatherDoneNoError ==
    /\ pc = "gather"
    /\ \A c \in Clients : gather[c] # "not_gathered"
    /\ LET failed == \E c \in Clients : gather[c] = "failed"
       IN  /\ errs' = IF failed THEN errs \cup {"gather"} ELSE errs
           /\ safe' = ~failed
    /\ pc' = "log"
    /\ UNCHANGED <<runVars, cancelled, conn, planVars, status, err, after, disk,
                   clientVars, test>>

\* GatherResults has joined all its goroutines.
GatherDone ==
    /\ pc = "gather"
    /\ \A c \in Clients : gather[c] # "not_gathered"
    /\ LET failed == \E c \in Clients : gather[c] = "failed"
       IN  /\ errs' = IF failed THEN errs \cup {"gather"} ELSE errs
           /\ err' = (err \/ failed)
           /\ safe' = ~failed
    /\ pc' = "log"
    /\ UNCHANGED <<runVars, cancelled, conn, planVars, status, after, disk,
                   clientVars, test>>

\* writeServerLog: the log arrives and is written, or the invocation fails.
WriteServerLog ==
    /\ pc = "log"
    /\ pc' = "finalize"
    /\ LET failed == /\ errs' = errs \cup {"server_log"}
                     /\ err' = TRUE
       IN  BoundedCall(\/ conn = "open" /\ UNCHANGED <<errs, err>>
                       \/ failed,
                       failed, failed)
    /\ UNCHANGED <<runVars, cancelled, planVars, status, safe, after, disk,
                   clientVars, test>>

\* Executor.Finalize.
Finalize ==
    /\ pc = "finalize"
    /\ status' = IF cancelled THEN "cancelled"
                 ELSE IF errs # {} \/ \E c \in planned : rec[c] # "complete"
                 THEN "failed" ELSE "complete"
    /\ rec' = IF cancelled
                THEN [c \in Clients |->
                        IF rec[c] \in {"scheduled", "ran", "running"}
                          THEN "cancelled" ELSE rec[c]]
                ELSE rec
    /\ pc' = "after"
    /\ UNCHANGED <<runVars, cancelled, conn, planVars, errs, err, safe, after,
                   disk, gather, go, ranOK, abort, test>>

\* The AFTER snapshot of the server's load, unless its tests may still run.
FetchAfter ==
    /\ pc = "after"
    /\ pc' = "write"
    /\ \/ /\ cancelled \/ ~safe
          /\ UNCHANGED <<conn, after>>
       \/ /\ ~cancelled /\ safe
          /\ BoundedCall(after' \in {conn = "open", FALSE},
                         UNCHANGED after, UNCHANGED after)
    /\ UNCHANGED <<runVars, cancelled, planVars, status, errs, err, safe, disk,
                   clientVars, test>>

\* Mutant of WriteFinal: the failure is only logged.
WriteFinalLogged ==
    /\ pc = "write"
    /\ pc' = "close"
    /\ disk' \in {Snapshot(TRUE), disk}
    /\ UNCHANGED <<runVars, cancelled, conn, planVars, status, errs, err, safe,
                   after, clientVars, test>>

\* The final WriteInfo replaces info.json or leaves the first one.
WriteFinal ==
    /\ pc = "write"
    /\ pc' = "close"
    /\ \/ /\ disk' = Snapshot(TRUE)
          /\ UNCHANGED <<status, errs, err>>
       \/ /\ errs' = errs \cup {"manifest_final"}
          /\ status' = IF status = "cancelled" THEN status ELSE "failed"
          /\ err' = TRUE
          /\ UNCHANGED disk
    /\ UNCHANGED <<runVars, cancelled, conn, planVars, safe, after, clientVars,
                   test>>

\* A new Executor for the next invocation.
NewExecutor ==
    /\ planned' = {}
    /\ started' = FALSE
    /\ status' = "none"
    /\ errs' = {}
    /\ err' = FALSE
    /\ safe' = TRUE
    /\ after' = FALSE
    /\ disk' = NoFile
    /\ rec' = [c \in Clients |-> "none"]
    /\ gather' = [c \in Clients |-> "not_gathered"]
    /\ go' = [c \in Clients |-> "idle"]
    /\ ranOK' = {}
    /\ abort' = [c \in Clients |-> "none"]
    /\ test' = [c \in Clients |-> "none"]

\* The condition of Client.Run's loop.
MoreRounds == round < Rounds

\* The connection is closed, and Client.Run goes on to the next invocation.
Close ==
    /\ pc = "close"
    /\ \/ /\ err
          /\ ReturnError
          /\ UNCHANGED <<planVars, manifestVars, clientVars, test>>
       \/ /\ ~err
          /\ conn' = "closed"
          /\ past' = Append(past, disk)
          /\ \/ /\ ~MoreRounds
                /\ pc' = "returned"
                /\ ret' = "nil"
                /\ UNCHANGED <<round, planVars, manifestVars, clientVars, test>>
             \/ /\ MoreRounds
                /\ pc' = "dial"
                /\ round' = round + 1
                /\ UNCHANGED ret
                /\ NewExecutor
    /\ UNCHANGED cancelled

-----------------------------------------------------------------------------
\* Ctrl-C.
Cancel ==
    /\ ~cancelled
    /\ pc # "returned"
    /\ cancelled' = TRUE
    /\ UNCHANGED <<pc, runVars, conn, planVars, manifestVars, clientVars, test>>

\* The control connection breaks.
ConnLost ==
    /\ conn = "open"
    /\ conn' = "closed"
    /\ UNCHANGED <<pc, runVars, cancelled, planVars, manifestVars, clientVars,
                   test>>

MainStep ==
    \/ Dial \/ CheckDialled \/ FetchMetadata \/ Reconnect \/ Plan
    \/ NoResultPath \/ WriteInitial \/ Setup \/ Wait \/ AbortDone \/ GatherDone
    \/ WriteServerLog \/ Finalize \/ FetchAfter \/ WriteFinal \/ Close

ClientStep(c) ==
    \/ BeginRun(c) \/ RunLocally(c) \/ Request(c) \/ Answered(c)
    \/ RunFails(c) \/ RunSucceeds(c)
    \/ AbortCall(c) \/ GatherSucceeds(c) \/ GatherFails(c)

ServerStep(c) == ServerAccepts(c) \/ ServerEnds(c)

Returned == pc = "returned"

Next ==
    \/ MainStep
    \/ \E c \in Clients : ClientStep(c) \/ ServerStep(c)
    \/ Cancel
    \/ ConnLost
    \/ Returned /\ UNCHANGED vars

Spec == Init /\ [][Next]_vars

\* Goroutines and timers run; the server need never answer.
GoSpec == Spec /\ WF_vars(MainStep) /\ \A c \in Clients : WF_vars(ClientStep(c))

\* The server answers and its tests end.
ServerAnswers == \A c \in Clients : WF_vars(ServerStep(c))

-----------------------------------------------------------------------------
(***************************************************************************)
(* Properties.                                                             *)
(***************************************************************************)
\* Start comes after the first WriteInfo: whatever crashes or fails later, a
\* measurement that was launched is named in an info.json.
LaunchedIsOnDisk ==
    \A c \in Clients : go[c] # "idle" => disk # NoFile /\ c \in disk.planned

\* WriteInfo and Finalize hold no lock: they only run before Start or after
\* every goroutine of the executor has been joined.  Likewise the AFTER snapshot
\* of the server's load is taken when no test of the invocation runs there any
\* more (remoteAfterSafe).
SnapshotsAreQuiet ==
    /\ pc \in {"plan", "initial", "finalize", "after", "write"} =>
         \A c \in Clients : go[c] \in {"idle", "done"}
    /\ after => \A c \in Clients : test[c] \notin {"requested", "running"}

\* A record in info.json is complete only if its Run succeeded and its result
\* was gathered (GatherResults upgrades "ran" and nothing else), and the final
\* manifest leaves no record of a started invocation undecided, wherever the
\* cancellation fell.
RecordsTruthful ==
    disk # NoFile =>
        /\ \A c \in Clients :
              disk.rec[c] = "complete" =>
                  c \in ranOK /\ disk.gather[c] = "complete"
        /\ started /\ disk.final =>
              \A c \in Clients :
                  disk.rec[c] \in {"complete", "failed", "cancelled"}

\* The manifest and the error agree: an invocation without an error leaves a
\* final manifest of complete records, and one with an error never leaves a
\* manifest that says "complete".  (A cancellation after the gathering makes
\* the status "cancelled" although nothing is missing and no error returned.)
AllComplete(file) ==
    /\ file # NoFile
    /\ file.final
    /\ file.errs = {}
    /\ \A c \in Clients : file.rec[c] = "complete"

VerdictAgrees ==
    /\ pc = "close" /\ ~err =>
         AllComplete(disk) /\ disk.status \in {"complete", "cancelled"}
    /\ pc = "close" /\ err => disk.status # "complete"
    /\ ret = "nil" =>
         \A k \in 1 .. Len(past) :
            /\ AllComplete(past[k])
            /\ k < Len(past) => past[k].status = "complete"

\* The next invocation starts only when every test of this one has ended on
\* the server: measurements of two rounds never share the path.
RoundsDoNotOverlap ==
    pc = "close" /\ ~err =>
        \A c \in Clients : test[c] \notin {"requested", "running"}

\* A cancelled invocation has asked the server to cancel its running tests.
CancelledIsAborted ==
    pc = "close" /\ status = "cancelled" =>
        \A c \in Remote : test[c] = "running" => abort[c] # "none"

\* After Ctrl-C Client.Run returns, even if the server never answers.  Without
\* it, it returns if the server answers and its tests end, also when the
\* connection is lost.
RunReturns ==
    /\ cancelled ~> Returned
    /\ ServerAnswers => <>Returned
=============================================================================
