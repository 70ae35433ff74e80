---------------------------- MODULE TestRegistry ----------------------------
(***************************************************************************)
(* The per-test state of a NetScalpel server (pkg/server.go): resultC, the *)
(* one-slot channel through which a test hands over its result, and        *)
(* testCancel, the cancel function of the test's context, both keyed by    *)
(* the test ID and guarded by resultLock.                                  *)
(*                                                                         *)
(* net/rpc runs every request in a goroutine of its own, so the start      *)
(* calls (RequestServer, RunCommand), the goroutines they leave behind,    *)
(* the retrieval calls (RequestServerResult, RequestRunCommandResult), the *)
(* Abort calls and the cancellation of the server's context interleave     *)
(* freely.  A critical section of resultLock is one step: nothing inside   *)
(* one blocks.  Everything between two critical sections is a step of its  *)
(* own.                                                                    *)
(*                                                                         *)
(* A test is named by the call that starts it; the channel and the context *)
(* that call makes have the test's name.  An ID is an argument of a call:  *)
(* two tests may carry the same one.                                       *)
(***************************************************************************)
CONSTANTS
    Tests,      \* start calls, and the tests they create
    Readers,    \* result retrieval calls
    Aborters,   \* Abort calls
    Ids,        \* test IDs
    EmptyId,    \* the ID ""
    None,       \* absent map entry, nil channel, nil cancel function
    IdOf,       \* the ID argument of a start call
    KindOf,     \* "server": RequestServer, "command": RunCommand
    ReadId,     \* the ID argument of a retrieval call
    AbortId     \* the ID argument of an Abort call

ASSUME RegistryAssumption ==
    /\ EmptyId \notin Ids
    /\ None \notin Tests
    /\ IdOf \in [Tests -> Ids \cup {EmptyId}]
    /\ KindOf \in [Tests -> {"server", "command"}]
    /\ ReadId \in [Readers -> Ids]
    /\ AbortId \in [Aborters -> Ids]

VARIABLES
    resultC,     \* ID -> channel registered under it
    testCancel,  \* ID -> test whose cancel function is registered
    buf,         \* channel -> its slot: "empty", or the result in it
    closed,      \* channel -> has it been closed
    ctxDone,     \* test -> has its own context been cancelled
    down,        \* has the server's context been cancelled
    pc,          \* test -> next step of its call or goroutine
    res,         \* test -> the result it will deliver
    chan,        \* test -> the channel held by its delivery code
    cancelFn,    \* test -> the cancel function taken by finishTest
    rpc,         \* retrieval call -> next step
    rchan,       \* retrieval call -> the channel it looked up
    rout,        \* retrieval call -> what it returns
    apc,         \* Abort call -> next step
    acancel      \* Abort call -> the cancel function it looked up

testVars  == <<pc, res, chan, cancelFn>>
readVars  == <<rpc, rchan, rout>>
abortVars == <<apc, acancel>>
vars == <<resultC, testCancel, buf, closed, ctxDone, down,
          testVars, readVars, abortVars>>

Results == {"ok", "err"}

TestPC == {"idle", "sent", "rejected", "setup", "running", "lookup", "send",
           "close", "finish", "cancel", "failFinish", "failCancel",
           "failSend", "done"}

ReadPC == {"idle", "waiting", "delete", "files", "done"}

Outcomes == {"none", "missing", "already", "shutdown", "ok", "err", "lost"}

AbortPC == {"idle", "sent", "cancel", "done"}

TypeOK ==
    /\ resultC \in [Ids -> Tests \cup {None}]
    /\ testCancel \in [Ids -> Tests \cup {None}]
    /\ buf \in [Tests -> Results \cup {"empty"}]
    /\ closed \in [Tests -> BOOLEAN]
    /\ ctxDone \in [Tests -> BOOLEAN]
    /\ down \in BOOLEAN
    /\ pc \in [Tests -> TestPC]
    /\ res \in [Tests -> Results]
    /\ chan \in [Tests -> Tests \cup {None}]
    /\ cancelFn \in [Tests -> Tests \cup {None}]
    /\ rpc \in [Readers -> ReadPC]
    /\ rchan \in [Readers -> Tests \cup {None}]
    /\ rout \in [Readers -> Outcomes]
    /\ apc \in [Aborters -> AbortPC]
    /\ acancel \in [Aborters -> Tests \cup {None}]

Init ==
    /\ resultC = [i \in Ids |-> None]
    /\ testCancel = [i \in Ids |-> None]
    /\ buf = [t \in Tests |-> "empty"]
    /\ closed = [t \in Tests |-> FALSE]
    /\ ctxDone = [t \in Tests |-> FALSE]
    /\ down = FALSE
    /\ pc = [t \in Tests |-> "idle"]
    /\ res = [t \in Tests |-> "err"]
    /\ chan = [t \in Tests |-> None]
    /\ cancelFn = [t \in Tests |-> None]
    /\ rpc = [r \in Readers |-> "idle"]
    /\ rchan = [r \in Readers |-> None]
    /\ rout = [r \in Readers |-> "none"]
    /\ apc = [a \in Aborters |-> "idle"]
    /\ acancel = [a \in Aborters |-> None]

-----------------------------------------------------------------------------
(***************************************************************************)
(* Start calls and test goroutines.                                        *)
(***************************************************************************)
Goto(t, label) == pc' = [pc EXCEPT ![t] = label]

\* The client writes the request (callCtx, then net/rpc's Go).  A client
\* aborts a test only after it has issued its start call or given it up.
Issue(t) ==
    /\ pc[t] = "idle"
    /\ \A a \in Aborters : AbortId[a] = IdOf[t] => apc[a] = "idle"
    /\ Goto(t, "sent")
    /\ UNCHANGED <<resultC, testCancel, buf, closed, ctxDone, down, res, chan,
                   cancelFn, readVars, abortVars>>

\* Mutant of Reject: cancel the context registered under the ID instead of
\* the one made for the rejected test.
RejectCancelsOwner(t) ==
    /\ pc[t] = "sent"
    /\ \/ /\ IdOf[t] = EmptyId
          /\ UNCHANGED ctxDone
       \/ /\ IdOf[t] # EmptyId
          /\ resultC[IdOf[t]] # None
          /\ ctxDone' = [u \in Tests |->
                            ctxDone[u] \/ u = testCancel[IdOf[t]]]
    /\ Goto(t, "rejected")
    /\ UNCHANGED <<resultC, testCancel, buf, closed, down, res, chan,
                   cancelFn, readVars, abortVars>>

\* The ID is empty, or taken: the call returns an error.  In the second case
\* the context made for the test is cancelled.
Reject(t) ==
    /\ pc[t] = "sent"
    /\ \/ /\ IdOf[t] = EmptyId
          /\ UNCHANGED ctxDone
       \/ /\ IdOf[t] # EmptyId
          /\ resultC[IdOf[t]] # None
          /\ ctxDone' = [ctxDone EXCEPT ![t] = TRUE]
    /\ Goto(t, "rejected")
    /\ UNCHANGED <<resultC, testCancel, buf, closed, down, res, chan,
                   cancelFn, readVars, abortVars>>

\* The critical section that claims the ID.  RunCommand keeps the channel in
\* a local variable; RequestServer's delivery will look it up again.
Register(t) ==
    /\ pc[t] = "sent"
    /\ IdOf[t] # EmptyId
    /\ resultC[IdOf[t]] = None
    /\ resultC' = [resultC EXCEPT ![IdOf[t]] = t]
    /\ testCancel' = [testCancel EXCEPT ![IdOf[t]] = t]
    /\ chan' = [chan EXCEPT ![t] = IF KindOf[t] = "command" THEN t ELSE None]
    /\ Goto(t, "setup")
    /\ UNCHANGED <<buf, closed, ctxDone, down, res, cancelFn, readVars,
                   abortVars>>

\* Mutant of SetupFails: RunCommand returns without finishTest.
SetupFailsLeaking(t) ==
    /\ pc[t] = "setup"
    /\ res' = [res EXCEPT ![t] = "err"]
    /\ Goto(t, IF KindOf[t] = "command" THEN "failSend" ELSE "lookup")
    /\ UNCHANGED <<resultC, testCancel, buf, closed, ctxDone, down, chan,
                   cancelFn, readVars, abortVars>>

\* Mutant of SetupFails: RequestServer releases the context and returns the
\* error without delivering it as the test's result.
SetupFailsSilently(t) ==
    /\ pc[t] = "setup"
    /\ res' = [res EXCEPT ![t] = "err"]
    /\ Goto(t, IF KindOf[t] = "command" THEN "failFinish" ELSE "finish")
    /\ UNCHANGED <<resultC, testCancel, buf, closed, ctxDone, down, chan,
                   cancelFn, readVars, abortVars>>

\* The socket cannot be opened (failTest), or the command's parameters are
\* unknown or its result directory cannot be made.  RunCommand releases the
\* context before it sends the error, RequestServer afterwards.
SetupFails(t) ==
    /\ pc[t] = "setup"
    /\ res' = [res EXCEPT ![t] = "err"]
    /\ Goto(t, IF KindOf[t] = "command" THEN "failFinish" ELSE "lookup")
    /\ UNCHANGED <<resultC, testCancel, buf, closed, ctxDone, down, chan,
                   cancelFn, readVars, abortVars>>

\* The call returns to the client and leaves a goroutine behind.
SetupSucceeds(t) ==
    /\ pc[t] = "setup"
    /\ Goto(t, "running")
    /\ UNCHANGED <<resultC, testCancel, buf, closed, ctxDone, down, res, chan,
                   cancelFn, readVars, abortVars>>

\* Mutant of Cancelled: the handler is given the server's context in place
\* of the test's own.
CancelledByServerOnly(t) == down

\* The context of test t, a child of the server's, has ended.
Cancelled(t) == ctxDone[t] \/ down

\* What the goroutine does once its measurement is over: the handlers of
\* RequestServer run the deferred deliverResult, a command sends at once.
Conclude(t) ==
    /\ pc[t] = "running"
    /\ \E x \in Results : res' = [res EXCEPT ![t] = x]
    /\ Goto(t, IF KindOf[t] = "command" THEN "send" ELSE "lookup")
    /\ UNCHANGED <<resultC, testCancel, buf, closed, ctxDone, down, chan,
                   cancelFn, readVars, abortVars>>

\* The measurement comes to its own end: the first contact fails, StartAt is
\* in the past, the sender or the receiver stops, the command exits.
RunToEnd(t) == ~Cancelled(t) /\ Conclude(t)

\* The measurement notices that its context has ended.  Some modes then
\* report what they measured so far, others an error.
StopOnCancel(t) == Cancelled(t) /\ Conclude(t)

\* deliverResult reads resultC again; the entry may have been replaced.
LookupChannel(t) ==
    /\ pc[t] = "lookup"
    /\ chan' = [chan EXCEPT ![t] = resultC[IdOf[t]]]
    /\ Goto(t, "send")
    /\ UNCHANGED <<resultC, testCancel, buf, closed, ctxDone, down, res,
                   cancelFn, readVars, abortVars>>

\* c <- result blocks for a nil channel and for a full one; on a closed one
\* it panics, which the model shows as a test that never gets further.
SendReady(t) ==
    /\ chan[t] # None
    /\ buf[chan[t]] = "empty"
    /\ ~closed[chan[t]]

\* Mutant of SendResult: a nil result is sent.
SendResultNil(t) ==
    /\ SendReady(t)
    /\ \/ /\ pc[t] = "send"
          /\ Goto(t, IF KindOf[t] = "command" THEN "finish" ELSE "close")
       \/ /\ pc[t] = "failSend"
          /\ Goto(t, "done")
    /\ buf' = [buf EXCEPT ![chan[t]] = None]
    /\ UNCHANGED <<resultC, testCancel, closed, ctxDone, down, res, chan,
                   cancelFn, readVars, abortVars>>

SendResult(t) ==
    /\ SendReady(t)
    /\ \/ /\ pc[t] = "send"
          /\ Goto(t, IF KindOf[t] = "command" THEN "finish" ELSE "close")
       \/ /\ pc[t] = "failSend"
          /\ Goto(t, "done")
    /\ buf' = [buf EXCEPT ![chan[t]] = res[t]]
    /\ UNCHANGED <<resultC, testCancel, closed, ctxDone, down, res, chan,
                   cancelFn, readVars, abortVars>>

\* Mutant of CloseChannel: the channel stays open.
CloseChannelSkipped(t) ==
    /\ pc[t] = "close"
    /\ Goto(t, "finish")
    /\ UNCHANGED <<resultC, testCancel, buf, closed, ctxDone, down, res, chan,
                   cancelFn, readVars, abortVars>>

\* Only deliverResult closes its channel.
CloseChannel(t) ==
    /\ pc[t] = "close"
    /\ closed' = [closed EXCEPT ![chan[t]] = TRUE]
    /\ Goto(t, "finish")
    /\ UNCHANGED <<resultC, testCancel, buf, ctxDone, down, res, chan,
                   cancelFn, readVars, abortVars>>

\* finishTest, under the lock: take the cancel function, drop the entry.
TakeCancel(t) ==
    /\ \/ pc[t] = "finish" /\ Goto(t, "cancel")
       \/ pc[t] = "failFinish" /\ Goto(t, "failCancel")
    /\ cancelFn' = [cancelFn EXCEPT ![t] = testCancel[IdOf[t]]]
    /\ testCancel' = [testCancel EXCEPT ![IdOf[t]] = None]
    /\ UNCHANGED <<resultC, buf, closed, ctxDone, down, res, chan, readVars,
                   abortVars>>

\* finishTest, outside the lock: call it unless it is nil.
CallCancel(t) ==
    /\ \/ pc[t] = "cancel" /\ Goto(t, "done")
       \/ pc[t] = "failCancel" /\ Goto(t, "failSend")
    /\ ctxDone' = [u \in Tests |-> ctxDone[u] \/ u = cancelFn[t]]
    /\ UNCHANGED <<resultC, testCancel, buf, closed, down, res, chan,
                   cancelFn, readVars, abortVars>>

-----------------------------------------------------------------------------
(***************************************************************************)
(* Retrieval calls: RequestServerResult and RequestRunCommandResult share  *)
(* the lookup, handleChanResult and the deletion of the entry.             *)
(***************************************************************************)
Return(r, outcome) ==
    /\ rpc' = [rpc EXCEPT ![r] = "done"]
    /\ rout' = [rout EXCEPT ![r] = outcome]

\* Mutant of LookupResult: the entry is dropped before the result is there.
LookupResultDropping(r) ==
    /\ rpc[r] = "idle"
    /\ \/ /\ resultC[ReadId[r]] = None
          /\ Return(r, "missing")
          /\ UNCHANGED <<rchan, resultC>>
       \/ /\ resultC[ReadId[r]] # None
          /\ rchan' = [rchan EXCEPT ![r] = resultC[ReadId[r]]]
          /\ rpc' = [rpc EXCEPT ![r] = "waiting"]
          /\ resultC' = [resultC EXCEPT ![ReadId[r]] = None]
          /\ UNCHANGED rout
    /\ UNCHANGED <<testCancel, buf, closed, ctxDone, down, testVars,
                   abortVars>>

\* The lookup under the lock; without an entry the call returns an error.
LookupResult(r) ==
    /\ rpc[r] = "idle"
    /\ \/ /\ resultC[ReadId[r]] = None
          /\ Return(r, "missing")
          /\ UNCHANGED rchan
       \/ /\ resultC[ReadId[r]] # None
          /\ rchan' = [rchan EXCEPT ![r] = resultC[ReadId[r]]]
          /\ rpc' = [rpc EXCEPT ![r] = "waiting"]
          /\ UNCHANGED rout
    /\ UNCHANGED <<resultC, testCancel, buf, closed, ctxDone, down, testVars,
                   abortVars>>

\* Mutant of Receive: the result stays in the channel for the next call.
ReceivePeek(r) ==
    /\ rpc[r] = "waiting"
    /\ buf[rchan[r]] # "empty"
    /\ rout' = [rout EXCEPT ![r] = buf[rchan[r]]]
    /\ rpc' = [rpc EXCEPT ![r] = "delete"]
    /\ UNCHANGED <<resultC, testCancel, buf, closed, ctxDone, down, testVars,
                   rchan, abortVars>>

\* handleChanResult's receive: a buffered result, or "already retrieved"
\* from a channel that is drained and closed.
Receive(r) ==
    /\ rpc[r] = "waiting"
    /\ \/ /\ buf[rchan[r]] # "empty"
          /\ rout' = [rout EXCEPT ![r] = buf[rchan[r]]]
          /\ buf' = [buf EXCEPT ![rchan[r]] = "empty"]
       \/ /\ buf[rchan[r]] = "empty"
          /\ closed[rchan[r]]
          /\ rout' = [rout EXCEPT ![r] = "already"]
          /\ UNCHANGED buf
    /\ rpc' = [rpc EXCEPT ![r] = "delete"]
    /\ UNCHANGED <<resultC, testCancel, closed, ctxDone, down, testVars,
                   rchan, abortVars>>

\* handleChanResult's other case: the server's context has ended.
ReceiveShutdown(r) ==
    /\ rpc[r] = "waiting"
    /\ down
    /\ Return(r, "shutdown")
    /\ UNCHANGED <<resultC, testCancel, buf, closed, ctxDone, down, testVars,
                   rchan, abortVars>>

\* delete(s.resultC, ID), whatever channel the entry holds by now.
DeleteEntry(r) ==
    /\ rpc[r] = "delete"
    /\ resultC' = [resultC EXCEPT ![ReadId[r]] = None]
    /\ rpc' = [rpc EXCEPT ![r] =
                  IF KindOf[rchan[r]] = "command" /\ rout[r] = "ok"
                    THEN "files" ELSE "done"]
    /\ UNCHANGED <<testCancel, buf, closed, ctxDone, down, testVars, rchan,
                   rout, abortVars>>

\* A command's result is a directory: it is read, compressed and removed.
\* An error on the way loses the files: the entry is gone already.
ReadFiles(r) ==
    /\ rpc[r] = "files"
    /\ \E x \in {"ok", "lost"} : Return(r, x)
    /\ UNCHANGED <<resultC, testCancel, buf, closed, ctxDone, down, testVars,
                   rchan, abortVars>>

-----------------------------------------------------------------------------
(***************************************************************************)
(* Abort calls and the end of the server.                                  *)
(***************************************************************************)
\* The client fires Abort (AbortServerTests).
IssueAbort(a) ==
    /\ apc[a] = "idle"
    /\ apc' = [apc EXCEPT ![a] = "sent"]
    /\ UNCHANGED <<resultC, testCancel, buf, closed, ctxDone, down, testVars,
                   readVars, acancel>>

\* Under the lock: find the cancel function.  No entry: return.
LookupCancel(a) ==
    /\ apc[a] = "sent"
    /\ acancel' = [acancel EXCEPT ![a] = testCancel[AbortId[a]]]
    /\ apc' = [apc EXCEPT ![a] =
                  IF testCancel[AbortId[a]] = None THEN "done" ELSE "cancel"]
    /\ UNCHANGED <<resultC, testCancel, buf, closed, ctxDone, down, testVars,
                   readVars>>

\* Outside the lock: call it.
CancelTest(a) ==
    /\ apc[a] = "cancel"
    /\ ctxDone' = [ctxDone EXCEPT ![acancel[a]] = TRUE]
    /\ apc' = [apc EXCEPT ![a] = "done"]
    /\ UNCHANGED <<resultC, testCancel, buf, closed, down, testVars, readVars,
                   acancel>>

\* The server's context ends (the caller does this before Stop).
Shutdown ==
    /\ ~down
    /\ down' = TRUE
    /\ UNCHANGED <<resultC, testCancel, buf, closed, ctxDone, testVars,
                   readVars, abortVars>>

Terminating ==
    /\ \A t \in Tests : pc[t] \in {"idle", "done", "rejected"}
    /\ \A r \in Readers : rpc[r] \in {"idle", "done"}
    /\ \A a \in Aborters : apc[a] \in {"idle", "done"}
    /\ UNCHANGED vars

-----------------------------------------------------------------------------
TestStep(t) ==
    \/ Reject(t)
    \/ Register(t)
    \/ SetupFails(t)
    \/ SetupSucceeds(t)
    \/ StopOnCancel(t)
    \/ LookupChannel(t)
    \/ SendResult(t)
    \/ CloseChannel(t)
    \/ TakeCancel(t)
    \/ CallCancel(t)

ReadStep(r) ==
    \/ Receive(r)
    \/ ReceiveShutdown(r)
    \/ DeleteEntry(r)
    \/ ReadFiles(r)

AbortStep(a) == LookupCancel(a) \/ CancelTest(a)

Next ==
    \/ \E t \in Tests : Issue(t) \/ RunToEnd(t) \/ TestStep(t)
    \/ \E r \in Readers : LookupResult(r) \/ ReadStep(r)
    \/ \E a \in Aborters : IssueAbort(a) \/ AbortStep(a)
    \/ Shutdown
    \/ Terminating

Spec == Init /\ [][Next]_vars

\* Goroutines that can run do run; requests may never be issued, and a
\* measurement that nobody cancels may go on for as long as it likes.
GoFairness ==
    /\ \A t \in Tests : WF_vars(TestStep(t))
    /\ \A r \in Readers : WF_vars(ReadStep(r))
    /\ \A a \in Aborters : WF_vars(AbortStep(a))

GoSpec == Spec /\ GoFairness

\* Every measurement is bounded by its Timeout or Duration as well.
TestsBounded == \A t \in Tests : WF_vars(RunToEnd(t))

FairSpec == GoSpec /\ TestsBounded

-----------------------------------------------------------------------------
(***************************************************************************)
(* What the registry promises.                                             *)
(***************************************************************************)
\* The IDs are unique, as the clients' GenID makes them.
UniqueIds ==
    \A t, u \in Tests : IdOf[t] = IdOf[u] /\ IdOf[t] # EmptyId => t = u

\* The value that test t sent went to retrieval call r.
Got(r, t) == rchan[r] = t /\ rout[r] \in {"ok", "err", "lost"}

\* Test t has put its result into its channel.
Delivered(t) == pc[t] \in {"close", "finish", "cancel", "done"}

\* A test that is about to deliver holds its own channel, and the channel is
\* open and has room: deliverResult and RunCommand never block on a nil or a
\* full channel and never send on a closed one, whoever else uses the ID.
DeliveryNeverBlocks ==
    \A t \in Tests :
        pc[t] \in {"send", "failSend"} => chan[t] = t /\ SendReady(t)

\* A delivered result is never lost and never handed out twice: either it
\* sits in the channel that is still registered under the test's ID, or
\* exactly one retrieval call has it (deliverResult, RequestServerResult).
ResultConserved ==
    \A t \in Tests :
        /\ Delivered(t) =>
              \/ /\ buf[t] # "empty"
                 /\ resultC[IdOf[t]] = t
                 /\ \A r \in Readers : ~Got(r, t)
              \/ /\ buf[t] = "empty"
                 /\ \E r \in Readers : Got(r, t)
        /\ \A r, q \in Readers : Got(r, t) /\ Got(q, t) => r = q

\* A test whose call or goroutine has ended has released its context and is
\* not reachable by Abort any more, on the error paths too (finishTest).
ContextReleased ==
    \A t \in Tests :
        pc[t] = "done" => ctxDone[t] /\ testCancel[IdOf[t]] # t

\* A retrieval call that found a result, or found it taken, leaves no entry
\* behind when it returns: the server runs indefinitely (RequestServerResult).
EntryDropped ==
    \A r \in Readers :
        rpc[r] = "done" /\ rout[r] \in {"already", "ok", "err", "lost"}
            => resultC[ReadId[r]] = None

\* The server runs indefinitely, so neither an ended test nor a retrieved result
\* may leave a context, a map entry or a channel behind, on any path.
NothingLeftBehind == ContextReleased /\ EntryDropped

\* Retrieval call r has found the result of a test with ID i, or found it taken,
\* and has deleted the entry of the ID.
Dropped(r, i) ==
    /\ ReadId[r] = i
    /\ rpc[r] \in {"files", "done"}
    /\ rout[r] \in {"already", "ok", "err", "lost"}

\* The ID of test t was free for it only because the result of another test
\* that carried it had been retrieved.
IdReused(t) == \E r \in Readers : Dropped(r, IdOf[t]) /\ rchan[r] # t

\* Nothing but an Abort call for its ID (or the end of the server) cancels a
\* running test: neither a start call that is rejected because it carries the
\* same ID nor another test's finishTest.  The exception is a test that reuses
\* the ID of one whose result has been retrieved and whose finishTest, which
\* follows the delivery, is still to come: it takes the function it finds.
OnlyAbortCancels ==
    \A t \in Tests :
        pc[t] = "running" /\ ctxDone[t] =>
            \/ \E a \in Aborters : AbortId[a] = IdOf[t] /\ apc[a] = "done"
            \/ IdReused(t)

\* Abort's promise to a client that gave up: once the call has returned, the
\* test it names does not go on measuring under a live context.
AbortEndsTest ==
    \A a \in Aborters, t \in Tests :
        apc[a] = "done" /\ AbortId[a] = IdOf[t] =>
            ~(pc[t] = "running" /\ ~Cancelled(t))

\* Retrieval call r waits on the channel of a test of this kind.
Waits(r, kind) ==
    rpc[r] = "waiting" /\ \E t \in Tests : rchan[r] = t /\ KindOf[t] = kind

\* If measurements are bounded, a start call that reaches the server is rejected,
\* or its goroutine delivers one result and releases its context; and a retrieval
\* call for a measurement gets the result, an error from the closed channel, or
\* the shutdown error.  For commands see CommandReadersReturn.
EveryoneReturns ==
    TestsBounded =>
        /\ \A t \in Tests : pc[t] = "sent" ~> pc[t] \in {"done", "rejected"}
        /\ \A r \in Readers : Waits(r, "server") ~> rpc[r] = "done"

\* The retrieval of a command's result is in lockstep with the retrieval of a
\* measurement's (server.go:690): the second call for it gets an error as well.
CommandReadersReturn ==
    \A r \in Readers : Waits(r, "command") ~> rpc[r] = "done"

\* An Abort call that found the test ends it, even if the measurement itself
\* would go on: the handlers watch the per-test context.  And once the server's
\* context has ended every test and every retrieval call comes to an end, also a
\* call whose channel never gets a result.
StopsTakeEffect ==
    /\ \A a \in Aborters, t \in Tests :
          apc[a] = "cancel" /\ acancel[a] = t ~> pc[t] = "done"
    /\ down ~> /\ \A t \in Tests : pc[t] \in {"idle", "done", "rejected"}
               /\ \A r \in Readers : rpc[r] \in {"idle", "done"}

-----------------------------------------------------------------------------
(***************************************************************************)
(* The registry implements the one-shot mailbox of ResultMailbox.          *)
(***************************************************************************)
Stage(t) ==
    CASE pc[t] \in {"idle", "sent", "rejected"} -> "none"
      [] buf[t] # "empty" -> "ready"
      [] buf[t] = "empty" /\ Delivered(t) -> "taken"
      [] OTHER -> "owed"

Mailbox == INSTANCE ResultMailbox WITH
    stage  <- [t \in Tests |-> Stage(t)],
    takers <- [t \in Tests |-> {r \in Readers : Got(r, t)}]

\* With unique IDs the two maps, the channels and the lock behave as a
\* mailbox per test, to which one result is delivered and from which one
\* retrieval call takes it.
ImplementsMailbox == Mailbox!Spec
=============================================================================
