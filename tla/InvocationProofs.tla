-------------------------- MODULE InvocationProofs --------------------------
(***************************************************************************)
(* Proof that info.json is true, for any set of measurements and any       *)
(* number of rounds.  The inductive invariant follows the main goroutine:  *)
(* what is known of the executor at each of its steps, what each           *)
(* measurement's goroutine has made of its record, how the error that will *)
(* be returned relates to the errors of the manifest, and what the file    *)
(* says about all of this.                                                 *)
(***************************************************************************)
EXTENDS Invocation, TLAPS

Early == {"dial", "dialled", "metadata", "reconnect", "plan"}
Finalized == {"after", "write", "close"}
Decided == {"complete", "failed", "cancelled"}

\* Where the main goroutine is, the executor has been started or has not.
StageInv ==
    /\ pc \in Early => status = "none"
    /\ pc \in Early \cup {"initial"} =>
         ~started /\ errs = {} /\ ~err /\ ~after /\ disk = NoFile
    /\ pc = "initial" =>
         /\ planned = Clients /\ status = "scheduled"
         /\ \A c \in Clients : rec[c] = "scheduled"
    /\ pc \in {"wait", "abort", "gather", "log"} => started
    /\ pc \in {"setup", "finalize"} \cup Finalized /\ ~started => err
    /\ started => planned = Clients

\* The goroutines: none before Start, and all of them joined after Wait.
GoInv ==
    /\ ~started => \A c \in Clients :
         go[c] = "idle" /\ test[c] = "none" /\ gather[c] = "not_gathered"
    /\ started => \A c \in Clients : go[c] # "idle"
    /\ started /\ pc \notin {"setup", "wait"} =>
         \A c \in Clients : go[c] = "done"

\* One measurement: its goroutine, its record and the test behind it.
RecOk(c) ==
    /\ go[c] = "idle" => rec[c] \in {"none", "scheduled", "cancelled"}
    /\ go[c] = "done" => rec[c] \in {"ran"} \cup Decided
    /\ c \in ranOK => go[c] = "done"
    /\ rec[c] = "ran" => c \in ranOK
    /\ rec[c] = "complete" => c \in ranOK /\ gather[c] = "complete"
    /\ c \in ranOK =>
         /\ gather[c] = "complete" => rec[c] = "complete"
         /\ gather[c] = "not_gathered" /\ pc \notin Finalized \cup {"returned"}
              => rec[c] = "ran"
    /\ gather[c] = "complete" => test[c] \in {"local", "ended"}
    /\ gather[c] # "not_gathered" => go[c] = "done" /\ rec[c] \in Decided

RecInv == \A c \in Clients : RecOk(c)

\* Records are decided when Finalize is over, because they were gathered or
\* the invocation was cancelled.
DecidedInv ==
    /\ pc = "log" => \A c \in Clients : gather[c] # "not_gathered"
    /\ pc = "finalize" /\ started =>
         cancelled \/ \A c \in Clients : gather[c] # "not_gathered"
    /\ pc \in Finalized \cup {"returned"} /\ started =>
         \A c \in Clients : rec[c] \in Decided

\* The error that is returned, the manifest's errors and what did not work.
ErrInv ==
    /\ errs # {} => err
    /\ err => errs # {} \/ cancelled
    /\ pc = "abort" => err /\ cancelled
    /\ pc \in {"gather", "log", "finalize"} \cup Finalized /\ started /\ ~err =>
         ranOK = Clients
    /\ pc \in {"log", "finalize"} \cup Finalized /\ started /\ ~err =>
         \A c \in Clients : gather[c] = "complete"
    /\ pc \in {"log", "finalize"} \cup Finalized /\ started /\ safe =>
         cancelled \/ \A c \in Clients : gather[c] = "complete"
    /\ after /\ started => \A c \in Clients : gather[c] = "complete"

StatusInv ==
    /\ pc \notin Finalized \cup {"returned"} =>
         status \in {"none", "scheduled", "running"}
    /\ pc \in Finalized =>
         /\ status \in Decided
         /\ status = "complete" => ~err
         /\ status = "cancelled" => cancelled
         /\ ~err => status # "failed"

\* The first info.json, before anything was started.
FirstFile ==
    /\ disk.status = "scheduled"
    /\ ~disk.final
    /\ \A c \in Clients : disk.rec[c] = "scheduled"

DiskInv ==
    /\ started => disk # NoFile /\ disk.planned = Clients
    /\ ~started /\ pc \notin {"close", "returned"} => disk = NoFile
    /\ disk # NoFile /\ pc \notin {"close", "returned"} => FirstFile
    /\ disk # NoFile /\ pc \in {"close", "returned"} =>
         disk = Snapshot(TRUE) \/ (FirstFile /\ err)

\* Earlier rounds were complete; only the last one may have been cancelled
\* after all of its results were gathered, and then there is no other.
PastInv ==
    /\ ret # "none" => pc = "returned"
    /\ ret # "error" => \A k \in 1 .. Len(past) :
         /\ AllComplete(past[k])
         /\ \/ past[k].status = "complete"
            \/ k = Len(past) /\ cancelled /\ pc \in {"dial", "returned"}

StepInv ==
    /\ StageInv /\ GoInv /\ RecInv /\ DecidedInv /\ ErrInv
    /\ StatusInv /\ DiskInv /\ PastInv

IInv == TypeOK /\ StepInv

-----------------------------------------------------------------------------
\* What WriteInfo writes is an info.json.
LEMMA SnapshotType ==
    ASSUME TypeOK, status # "none", NEW final \in BOOLEAN
    PROVE  Snapshot(final) \in Files
BY DEF TypeOK, Snapshot, Files

\* A file that is appended to the past is the last one of it.
LEMMA AppendedFile ==
    ASSUME TypeOK, past' = Append(past, disk)
    PROVE  /\ past' \in Seq(Files \cup {NoFile})
           /\ Len(past') = Len(past) + 1
           /\ \A k \in 1 .. Len(past) : past'[k] = past[k]
           /\ past'[Len(past) + 1] = disk
BY DEF TypeOK

\* An invocation that ends without an error leaves a manifest that says so.
LEMMA CloseVerdict ==
    ASSUME IInv, pc = "close", ~err
    PROVE  /\ AllComplete(disk)
           /\ disk.status \in {"complete", "cancelled"}
           /\ disk.status = "cancelled" => cancelled
<1> USE DEF IInv, StepInv
<1>1. started
  BY DEF StageInv, Finalized
<1>2. disk # NoFile /\ disk = Snapshot(TRUE)
  BY <1>1 DEF DiskInv
<1>3. \A c \in Clients : rec[c] = "complete"
  BY <1>1 DEF ErrInv, RecInv, RecOk, Finalized
<1>4. errs = {}
  BY DEF ErrInv
<1>5. /\ status \in {"complete", "cancelled"}
      /\ status = "cancelled" => cancelled
  BY DEF StatusInv, Finalized, Decided
<1>6. QED
  BY <1>2, <1>3, <1>4, <1>5 DEF AllComplete, Snapshot

\* Every step keeps the types, given what is known of the status where a file
\* is written.
LEMMA TypeStep ==
    ASSUME IInv, [Next]_vars PROVE TypeOK'
<1> USE DEF IInv, StepInv, TypeOK, runVars, planVars, manifestVars, clientVars
<1>1. CASE Dial
  BY <1>1 DEF Dial, ReturnError
<1>2. CASE CheckDialled
  BY <1>2 DEF CheckDialled, ReturnError
<1>3. CASE FetchMetadata
  BY <1>3 DEF FetchMetadata, BoundedCall
<1>4. CASE Reconnect
  <2>1. CASE ReturnError
    BY <1>4, <2>1, AppendedFile DEF Reconnect, ReturnError
  <2>2. CASE pc' = "plan" /\ conn' \in {conn, "open"} /\ UNCHANGED runVars
    BY <1>4, <2>2 DEF Reconnect
  <2>3. QED
    BY <1>4, <2>1, <2>2 DEF Reconnect
<1>5. CASE Plan
  BY <1>5 DEF Plan, Statuses, Phases
<1>6. CASE NoResultPath
  BY <1>6 DEF NoResultPath, ReturnError
<1>7. CASE WriteInitial
  <2>1. disk' \in Files \cup {NoFile}
    BY <1>7, SnapshotType DEF WriteInitial, StageInv
  <2>2. CASE status' = "running" /\ UNCHANGED <<errs, err>> /\ Start
    BY <1>7, <2>1, <2>2 DEF WriteInitial, Start, Statuses
  <2>3. CASE /\ errs' = errs \cup {"manifest"} /\ err' = TRUE
             /\ UNCHANGED <<disk, status, started, go>>
    BY <1>7, <2>1, <2>3 DEF WriteInitial, Phases
  <2>4. QED
    BY <1>7, <2>2, <2>3 DEF WriteInitial
<1>8. CASE Setup
  BY <1>8 DEF Setup, Phases
<1>9. CASE Wait
  BY <1>9 DEF Wait, Phases
<1>10. CASE AbortDone
  BY <1>10 DEF AbortDone, Phases
<1>11. CASE GatherDone
  BY <1>11 DEF GatherDone, Phases
<1>12. CASE WriteServerLog
  BY <1>12 DEF WriteServerLog, BoundedCall, Phases
<1>13. CASE Finalize
  BY <1>13 DEF Finalize, Statuses
<1>14. CASE FetchAfter
  BY <1>14 DEF FetchAfter, BoundedCall
<1>15. CASE WriteFinal
  <2>1. disk' \in Files \cup {NoFile}
    BY <1>15, SnapshotType DEF WriteFinal, StatusInv, Finalized, Decided
  <2>2. CASE UNCHANGED <<status, errs, err>>
    BY <1>15, <2>1, <2>2 DEF WriteFinal
  <2>3. CASE /\ errs' = errs \cup {"manifest_final"} /\ err' = TRUE
             /\ status' = IF status = "cancelled" THEN status ELSE "failed"
    BY <1>15, <2>1, <2>3 DEF WriteFinal, Statuses, Phases
  <2>4. QED
    BY <1>15, <2>2, <2>3 DEF WriteFinal
<1>16. CASE Close
  <2>1. past' \in Seq(Files \cup {NoFile})
    BY <1>16, AppendedFile DEF Close, ReturnError
  <2>2. round' \in 1 .. Rounds
    BY <1>16, InvocationAssumption DEF Close, ReturnError, MoreRounds
  <2>3. CASE /\ NewExecutor /\ pc' = "dial" /\ conn' = "closed"
             /\ UNCHANGED <<ret, cancelled>>
    BY <1>16, <2>1, <2>2, <2>3 DEF NewExecutor
  <2>4. CASE /\ pc' = "returned" /\ ret' \in {"nil", "error"}
             /\ conn' = "closed"
             /\ UNCHANGED <<cancelled, planVars, manifestVars, clientVars, test>>
    BY <1>16, <2>1, <2>2, <2>4
  <2>5. QED
    BY <1>16, <2>3, <2>4 DEF Close, ReturnError
<1>17. ASSUME NEW c \in Clients, BeginRun(c) PROVE TypeOK'
  BY <1>17 DEF BeginRun, Statuses
<1>18. ASSUME NEW c \in Clients, RunLocally(c) PROVE TypeOK'
  BY <1>18 DEF RunLocally
<1>19. ASSUME NEW c \in Clients, Request(c) PROVE TypeOK'
  BY <1>19 DEF Request
<1>20. ASSUME NEW c \in Clients, Answered(c) PROVE TypeOK'
  BY <1>20 DEF Answered
<1>21. ASSUME NEW c \in Clients, RunFails(c) PROVE TypeOK'
  BY <1>21 DEF RunFails, Statuses
<1>22. ASSUME NEW c \in Clients, RunSucceeds(c) PROVE TypeOK'
  BY <1>22 DEF RunSucceeds, Statuses
<1>23. ASSUME NEW c \in Clients, AbortCall(c) PROVE TypeOK'
  BY <1>23 DEF AbortCall
<1>24. ASSUME NEW c \in Clients, GatherSucceeds(c) PROVE TypeOK'
  BY <1>24 DEF GatherSucceeds, Statuses
<1>25. ASSUME NEW c \in Clients, GatherFails(c) PROVE TypeOK'
  BY <1>25 DEF GatherFails, Statuses
<1>26. ASSUME NEW c \in Clients, ServerAccepts(c) PROVE TypeOK'
  BY <1>26 DEF ServerAccepts
<1>27. ASSUME NEW c \in Clients, ServerEnds(c) PROVE TypeOK'
  BY <1>27 DEF ServerEnds
<1>28. CASE Cancel
  BY <1>28 DEF Cancel
<1>29. CASE ConnLost
  BY <1>29 DEF ConnLost
<1>30. CASE UNCHANGED vars
  BY <1>30 DEF vars
<1>31. QED
  BY <1>1, <1>2, <1>3, <1>4, <1>5, <1>6, <1>7, <1>8, <1>9, <1>10, <1>11,
     <1>12, <1>13, <1>14, <1>15, <1>16, <1>17, <1>18, <1>19, <1>20, <1>21,
     <1>22, <1>23, <1>24, <1>25, <1>26, <1>27, <1>28, <1>29, <1>30 DEF Next,
     MainStep, ClientStep, ServerStep

\* The head of the loop changes nothing of the executor.
LEMMA HeadSteps ==
    ASSUME IInv,
           Dial \/ CheckDialled \/ FetchMetadata \/ Reconnect \/ NoResultPath
    PROVE  StepInv'
<1> USE DEF IInv, StepInv, Dial, CheckDialled, FetchMetadata, Reconnect,
            NoResultPath, ReturnError, BoundedCall, runVars, planVars,
            manifestVars, clientVars
<1>1. StageInv'
  BY DEF StageInv, Early, Finalized, TypeOK
<1>2. GoInv'
  BY DEF GoInv, TypeOK
<1>3. RecInv'
  BY DEF RecInv, RecOk, Decided, Finalized, TypeOK
<1>4. DecidedInv'
  BY DEF DecidedInv, Finalized, Decided, TypeOK, StageInv, Early
<1>5. ErrInv'
  BY DEF ErrInv, Finalized, TypeOK
<1>6. StatusInv'
  BY DEF StatusInv, Finalized, Decided, TypeOK
<1>7. DiskInv'
  BY DEF DiskInv, FirstFile, Snapshot, TypeOK, StageInv, Early
<1>8. PastInv'
  BY DEF PastInv, AllComplete, TypeOK
<1>9. QED
  BY <1>1, <1>2, <1>3, <1>4, <1>5, <1>6, <1>7, <1>8 DEF StepInv

\* Records are planned, and nothing runs.
LEMMA PlanStep ==
    ASSUME IInv, Plan
    PROVE  StepInv'
<1> USE DEF IInv, StepInv, Plan, runVars
<1>1. StageInv'
  BY DEF StageInv, Early, Finalized, TypeOK
<1>2. GoInv'
  BY DEF GoInv, TypeOK
<1>3. RecInv'
  BY DEF RecInv, RecOk, Decided, Finalized, TypeOK, StageInv, Early, GoInv
<1>4. DecidedInv'
  BY DEF DecidedInv, Finalized, Decided, TypeOK
<1>5. ErrInv'
  <2>1. CASE errs' = errs \cup {"schedule"} /\ err'
    <3>1. errs' # {}
      BY <2>1
    <3>2. QED
      BY <2>1, <3>1 DEF ErrInv, Finalized, TypeOK, StageInv, Early
  <2>2. CASE UNCHANGED <<errs, err>> /\ pc' = "initial"
    BY <2>2 DEF ErrInv, Finalized, TypeOK, StageInv, Early
  <2>3. QED
    BY <2>1, <2>2
<1>6. StatusInv'
  BY DEF StatusInv, Finalized, Decided, TypeOK
<1>7. DiskInv'
  BY DEF DiskInv, FirstFile, Snapshot, TypeOK
<1>8. PastInv'
  BY DEF PastInv, AllComplete, TypeOK
<1>9. QED
  BY <1>1, <1>2, <1>3, <1>4, <1>5, <1>6, <1>7, <1>8 DEF StepInv

\* The measurements start with a manifest, or they do not start.
LEMMA InitialStep ==
    ASSUME IInv, WriteInitial
    PROVE  StepInv'
<1> USE DEF IInv, StepInv, WriteInitial, Start, runVars
<1>1. StageInv'
  BY DEF StageInv, Early, Finalized, TypeOK
<1>2. GoInv'
  <2>1. CASE started' = TRUE /\ go' = [c \in Clients |-> "launched"]
    BY <2>1 DEF GoInv
  <2>2. CASE UNCHANGED <<started, go>>
    BY <2>2 DEF GoInv, StageInv
  <2>3. QED
    BY <2>1, <2>2
<1>3. RecInv'
  BY DEF RecInv, RecOk, Decided, Finalized, TypeOK, StageInv, GoInv
<1>4. DecidedInv'
  BY DEF DecidedInv, Finalized, Decided, TypeOK
<1>5. ErrInv'
  <2>1. CASE errs' = errs \cup {"manifest"} /\ err'
    <3>1. errs' # {}
      BY <2>1
    <3>2. QED
      BY <2>1, <3>1 DEF ErrInv, Finalized, TypeOK, StageInv
  <2>2. CASE UNCHANGED <<errs, err>>
    BY <2>2 DEF ErrInv, Finalized, TypeOK, StageInv
  <2>3. QED
    BY <2>1, <2>2
<1>6. StatusInv'
  BY DEF StatusInv, Finalized, Decided, TypeOK
<1>7. DiskInv'
  BY DEF DiskInv, FirstFile, Snapshot, TypeOK, StageInv, NoFile
<1>8. PastInv'
  BY DEF PastInv, AllComplete, TypeOK
<1>9. QED
  BY <1>1, <1>2, <1>3, <1>4, <1>5, <1>6, <1>7, <1>8 DEF StepInv

\* The log of the result directory.
LEMMA SetupStep ==
    ASSUME IInv, Setup
    PROVE  StepInv'
<1> USE DEF IInv, StepInv, Setup, runVars, planVars, clientVars
<1>1. StageInv'
  BY DEF StageInv, Early, Finalized, TypeOK
<1>2. GoInv'
  BY DEF GoInv, TypeOK
<1>3. RecInv'
  BY DEF RecInv, RecOk, Decided, Finalized, TypeOK
<1>4. DecidedInv'
  BY DEF DecidedInv, Finalized, Decided, TypeOK
<1>5. ErrInv'
  <2>1. CASE errs' = errs \cup {"log_setup"} /\ err'
    <3>1. errs' # {}
      BY <2>1
    <3>2. QED
      BY <2>1, <3>1 DEF ErrInv, Finalized, TypeOK
  <2>2. CASE UNCHANGED <<errs, err>>
    BY <2>2 DEF ErrInv, Finalized, TypeOK, StageInv
  <2>3. QED
    BY <2>1, <2>2
<1>6. StatusInv'
  BY DEF StatusInv, Finalized, Decided, TypeOK
<1>7. DiskInv'
  BY DEF DiskInv, FirstFile, Snapshot, TypeOK
<1>8. PastInv'
  BY DEF PastInv, AllComplete, TypeOK
<1>9. QED
  BY <1>1, <1>2, <1>3, <1>4, <1>5, <1>6, <1>7, <1>8 DEF StepInv

\* Behind Wait every goroutine has ended, and an error that is due is noted.
LEMMA WaitStep ==
    ASSUME IInv, Wait
    PROVE  StepInv'
<1> USE DEF IInv, StepInv, Wait, AllRan, runVars, planVars, clientVars
<1>1. StageInv'
  BY DEF StageInv, Early, Finalized, TypeOK
<1>2. GoInv'
  BY DEF GoInv, TypeOK
<1>3. RecInv'
  BY DEF RecInv, RecOk, Decided, Finalized, TypeOK
<1>4. DecidedInv'
  BY DEF DecidedInv, Finalized, Decided, TypeOK
<1>5. ErrInv'
  BY DEF ErrInv, Finalized, TypeOK
<1>6. StatusInv'
  BY DEF StatusInv, Finalized, Decided, TypeOK
<1>7. DiskInv'
  BY DEF DiskInv, FirstFile, Snapshot, TypeOK
<1>8. PastInv'
  BY DEF PastInv, AllComplete, TypeOK
<1>9. QED
  BY <1>1, <1>2, <1>3, <1>4, <1>5, <1>6, <1>7, <1>8 DEF StepInv

\* Behind AbortServerTests: the invocation is cancelled and has its error.
LEMMA AbortedStep ==
    ASSUME IInv, AbortDone
    PROVE  StepInv'
<1> USE DEF IInv, StepInv, AbortDone, runVars, planVars, clientVars
<1>1. StageInv'
  BY DEF StageInv, Early, Finalized, TypeOK
<1>2. GoInv'
  BY DEF GoInv, TypeOK
<1>3. RecInv'
  BY DEF RecInv, RecOk, Decided, Finalized, TypeOK
<1>4. DecidedInv'
  BY DEF DecidedInv, Finalized, Decided, TypeOK, ErrInv
<1>5. ErrInv'
  BY DEF ErrInv, Finalized, TypeOK
<1>6. StatusInv'
  BY DEF StatusInv, Finalized, Decided, TypeOK
<1>7. DiskInv'
  BY DEF DiskInv, FirstFile, Snapshot, TypeOK
<1>8. PastInv'
  BY DEF PastInv, AllComplete, TypeOK
<1>9. QED
  BY <1>1, <1>2, <1>3, <1>4, <1>5, <1>6, <1>7, <1>8 DEF StepInv

\* Behind GatherResults every record is decided.
LEMMA GatheredStep ==
    ASSUME IInv, GatherDone
    PROVE  StepInv'
<1> USE DEF IInv, StepInv, GatherDone, runVars, planVars, clientVars
<1>1. StageInv'
  BY DEF StageInv, Early, Finalized, TypeOK
<1>2. GoInv'
  BY DEF GoInv, TypeOK
<1>3. RecInv'
  BY DEF RecInv, RecOk, Decided, Finalized, TypeOK
<1>4. DecidedInv'
  BY DEF DecidedInv, Finalized, Decided, TypeOK
<1>5. ErrInv'
  BY DEF ErrInv, Finalized, TypeOK
<1>6. StatusInv'
  BY DEF StatusInv, Finalized, Decided, TypeOK
<1>7. DiskInv'
  BY DEF DiskInv, FirstFile, Snapshot, TypeOK
<1>8. PastInv'
  BY DEF PastInv, AllComplete, TypeOK
<1>9. QED
  BY <1>1, <1>2, <1>3, <1>4, <1>5, <1>6, <1>7, <1>8 DEF StepInv

\* The server's log, or an error.
LEMMA LogStep ==
    ASSUME IInv, WriteServerLog
    PROVE  StepInv'
<1> USE DEF IInv, StepInv, WriteServerLog, BoundedCall, runVars, planVars,
            clientVars
<1>1. StageInv'
  BY DEF StageInv, Early, Finalized, TypeOK
<1>2. GoInv'
  BY DEF GoInv, TypeOK
<1>3. RecInv'
  BY DEF RecInv, RecOk, Decided, Finalized, TypeOK
<1>4. DecidedInv'
  BY DEF DecidedInv, Finalized, Decided, TypeOK
<1>5. ErrInv'
  <2>1. CASE errs' = errs \cup {"server_log"} /\ err'
    <3>1. errs' # {}
      BY <2>1
    <3>2. QED
      BY <2>1, <3>1 DEF ErrInv, Finalized, TypeOK
  <2>2. CASE UNCHANGED <<errs, err>>
    BY <2>2 DEF ErrInv, Finalized, TypeOK
  <2>3. QED
    BY <2>1, <2>2
<1>6. StatusInv'
  BY DEF StatusInv, Finalized, Decided, TypeOK
<1>7. DiskInv'
  BY DEF DiskInv, FirstFile, Snapshot, TypeOK
<1>8. PastInv'
  BY DEF PastInv, AllComplete, TypeOK
<1>9. QED
  BY <1>1, <1>2, <1>3, <1>4, <1>5, <1>6, <1>7, <1>8 DEF StepInv

\* The verdict is the error's, because an error is in the manifest or the
\* invocation is cancelled; a cancelled one decides the records that are left.
LEMMA FinalizeStep ==
    ASSUME IInv, Finalize
    PROVE  StepInv'
<1> USE DEF IInv, StepInv, Finalize, runVars, planVars
<1>1. StageInv'
  BY DEF StageInv, Early, Finalized, TypeOK
<1>2. GoInv'
  BY DEF GoInv, TypeOK
<1>3. RecInv'
  BY DEF RecInv, RecOk, Decided, Finalized, TypeOK
<1>4. DecidedInv'
  BY DEF DecidedInv, Finalized, Decided, TypeOK, GoInv, RecInv, RecOk
<1>5. ErrInv'
  BY DEF ErrInv, Finalized, TypeOK
<1>6. StatusInv'
  BY DEF StatusInv, Finalized, Decided, TypeOK, ErrInv, StageInv, RecInv,
     RecOk
<1>7. DiskInv'
  BY DEF DiskInv, FirstFile, Snapshot, TypeOK
<1>8. PastInv'
  BY DEF PastInv, AllComplete, TypeOK
<1>9. QED
  BY <1>1, <1>2, <1>3, <1>4, <1>5, <1>6, <1>7, <1>8 DEF StepInv

\* The AFTER snapshot is taken only if all results have been gathered.
LEMMA AfterStep ==
    ASSUME IInv, FetchAfter
    PROVE  StepInv'
<1> USE DEF IInv, StepInv, FetchAfter, BoundedCall, runVars, planVars,
            clientVars
<1>1. StageInv'
  BY DEF StageInv, Early, Finalized, TypeOK
<1>2. GoInv'
  BY DEF GoInv, TypeOK
<1>3. RecInv'
  BY DEF RecInv, RecOk, Decided, Finalized, TypeOK
<1>4. DecidedInv'
  BY DEF DecidedInv, Finalized, Decided, TypeOK
<1>5. ErrInv'
  <2>1. CASE UNCHANGED after
    BY <2>1 DEF ErrInv, Finalized, TypeOK
  <2>2. CASE ~cancelled /\ safe
    BY <2>2 DEF ErrInv, Finalized, TypeOK
  <2>3. QED
    BY <2>1, <2>2
<1>6. StatusInv'
  BY DEF StatusInv, Finalized, Decided, TypeOK
<1>7. DiskInv'
  BY DEF DiskInv, FirstFile, Snapshot, TypeOK
<1>8. PastInv'
  BY DEF PastInv, AllComplete, TypeOK
<1>9. QED
  BY <1>1, <1>2, <1>3, <1>4, <1>5, <1>6, <1>7, <1>8 DEF StepInv

\* The file says what the executor says, or it is the first one and there is
\* an error.
LEMMA WriteStep ==
    ASSUME IInv, WriteFinal
    PROVE  StepInv'
<1> USE DEF IInv, StepInv, WriteFinal, runVars, planVars, clientVars
<1>1. StageInv'
  BY DEF StageInv, Early, Finalized, TypeOK
<1>2. GoInv'
  BY DEF GoInv, TypeOK
<1>3. RecInv'
  BY DEF RecInv, RecOk, Decided, Finalized, TypeOK
<1>4. DecidedInv'
  BY DEF DecidedInv, Finalized, Decided, TypeOK
<1>5. ErrInv'
  <2>1. CASE errs' = errs \cup {"manifest_final"} /\ err'
    <3>1. errs' # {}
      BY <2>1
    <3>2. QED
      BY <2>1, <3>1 DEF ErrInv, Finalized, TypeOK
  <2>2. CASE UNCHANGED <<errs, err>>
    BY <2>2 DEF ErrInv, Finalized, TypeOK
  <2>3. QED
    BY <2>1, <2>2
<1>6. StatusInv'
  <2>1. CASE UNCHANGED <<status, errs, err>>
    BY <2>1 DEF StatusInv, Finalized, Decided, TypeOK
  <2>2. CASE /\ err' = TRUE
             /\ status' = IF status = "cancelled" THEN status ELSE "failed"
    BY <2>2 DEF StatusInv, Finalized, Decided, TypeOK
  <2>3. QED
    BY <2>1, <2>2
<1>7. DiskInv'
  BY DEF DiskInv, FirstFile, Snapshot, TypeOK, StageInv, StatusInv,
     Finalized, Decided, NoFile
<1>8. PastInv'
  BY DEF PastInv, AllComplete, TypeOK
<1>9. QED
  BY <1>1, <1>2, <1>3, <1>4, <1>5, <1>6, <1>7, <1>8 DEF StepInv

\* The file of a finished invocation joins the past, or a new executor starts.
LEMMA CloseStep ==
    ASSUME IInv, Close
    PROVE  StepInv'
<1> USE DEF IInv, StepInv, Close, ReturnError, MoreRounds, NewExecutor,
            planVars, manifestVars, clientVars
<1>1. StageInv'
  BY DEF StageInv, Early, Finalized, TypeOK
<1>2. GoInv'
  BY DEF GoInv, TypeOK
<1>3. RecInv'
  BY DEF RecInv, RecOk, Decided, Finalized, TypeOK
<1>4. DecidedInv'
  BY DEF DecidedInv, Finalized, Decided, TypeOK
<1>5. ErrInv'
  BY DEF ErrInv, Finalized, TypeOK
<1>6. StatusInv'
  BY DEF StatusInv, Finalized, Decided, TypeOK
<1>7. DiskInv'
  BY DEF DiskInv, FirstFile, Snapshot, TypeOK
<1>8. PastInv'
  <2>1. CASE err
    BY <2>1 DEF PastInv, Close, ReturnError
  <2>2. CASE ~err
    <3>1. /\ past' = Append(past, disk) /\ pc' \in {"dial", "returned"}
          /\ ret = "none" /\ (ret' # "none" => pc' = "returned")
          /\ UNCHANGED cancelled
      BY <2>2 DEF Close, NewExecutor, PastInv
    <3>2. SUFFICES ASSUME NEW k \in 1 .. Len(past')
                   PROVE  /\ AllComplete(past'[k])
                          /\ \/ past'[k].status = "complete"
                             \/ k = Len(past') /\ cancelled
      BY <3>1 DEF PastInv, AllComplete
    <3>3. CASE k \in 1 .. Len(past)
      BY <3>1, <3>2, <3>3, AppendedFile DEF PastInv, Close
    <3>4. CASE k = Len(past) + 1
      BY <2>2, <3>1, <3>4, AppendedFile, CloseVerdict DEF Close
    <3>5. QED
      BY <3>1, <3>3, <3>4, AppendedFile DEF TypeOK
  <2>3. QED
    BY <2>1, <2>2
<1>9. QED
  BY <1>1, <1>2, <1>3, <1>4, <1>5, <1>6, <1>7, <1>8 DEF StepInv

\* A goroutine at work: the main goroutine has not passed Wait.
LEMMA RunSteps ==
    ASSUME IInv, NEW c \in Clients,
           BeginRun(c) \/ RunLocally(c) \/ Request(c) \/ Answered(c)
    PROVE  StepInv'
<1> USE DEF IInv, StepInv, BeginRun, RunLocally, Request, Answered,
            runVars, planVars, manifestVars
<1>1. StageInv'
  BY DEF StageInv, Early, Finalized, TypeOK, GoInv
<1>2. GoInv'
  BY DEF GoInv, TypeOK
<1>3. RecInv'
  BY DEF RecInv, RecOk, Decided, Finalized, TypeOK
<1>4. DecidedInv'
  BY DEF DecidedInv, Finalized, Decided, TypeOK, GoInv
<1>5. ErrInv'
  BY DEF ErrInv, Finalized, TypeOK
<1>6. StatusInv'
  BY DEF StatusInv, Finalized, Decided, TypeOK
<1>7. DiskInv'
  BY DEF DiskInv, FirstFile, Snapshot, TypeOK, GoInv
<1>8. PastInv'
  BY DEF PastInv, AllComplete, TypeOK
<1>9. QED
  BY <1>1, <1>2, <1>3, <1>4, <1>5, <1>6, <1>7, <1>8 DEF StepInv

\* Run returns, with its record.
LEMMA RanSteps ==
    ASSUME IInv, NEW c \in Clients,
           RunFails(c) \/ RunSucceeds(c)
    PROVE  StepInv'
<1> USE DEF IInv, StepInv, RunFails, RunSucceeds, RunCanFail, runVars,
            planVars, manifestVars
<1>1. StageInv'
  BY DEF StageInv, Early, Finalized, TypeOK, GoInv
<1>2. GoInv'
  BY DEF GoInv, TypeOK
<1>3. RecInv'
  BY DEF RecInv, RecOk, Decided, Finalized, TypeOK
<1>4. DecidedInv'
  BY DEF DecidedInv, Finalized, Decided, TypeOK, GoInv
<1>5. ErrInv'
  BY DEF ErrInv, Finalized, TypeOK, GoInv
<1>6. StatusInv'
  BY DEF StatusInv, Finalized, Decided, TypeOK
<1>7. DiskInv'
  BY DEF DiskInv, FirstFile, Snapshot, TypeOK, GoInv
<1>8. PastInv'
  BY DEF PastInv, AllComplete, TypeOK
<1>9. QED
  BY <1>1, <1>2, <1>3, <1>4, <1>5, <1>6, <1>7, <1>8 DEF StepInv

\* Abort and gather calls of joined goroutines.
LEMMA GatherSteps ==
    ASSUME IInv, NEW c \in Clients,
           AbortCall(c) \/ GatherSucceeds(c) \/ GatherFails(c)
    PROVE  StepInv'
<1> USE DEF IInv, StepInv, AbortCall, GatherSucceeds, GatherFails,
            runVars, planVars, manifestVars
<1>1. StageInv'
  BY DEF StageInv, Early, Finalized, TypeOK
<1>2. GoInv'
  BY DEF GoInv, TypeOK, StageInv, Early, RecInv, RecOk
<1>3. RecInv'
  BY DEF RecInv, RecOk, Decided, Finalized, TypeOK, StageInv, GoInv
<1>4. DecidedInv'
  BY DEF DecidedInv, Finalized, Decided, TypeOK
<1>5. ErrInv'
  BY DEF ErrInv, Finalized, TypeOK
<1>6. StatusInv'
  BY DEF StatusInv, Finalized, Decided, TypeOK
<1>7. DiskInv'
  BY DEF DiskInv, FirstFile, Snapshot, TypeOK
<1>8. PastInv'
  BY DEF PastInv, AllComplete, TypeOK
<1>9. QED
  BY <1>1, <1>2, <1>3, <1>4, <1>5, <1>6, <1>7, <1>8 DEF StepInv

\* The server touches a test that runs, never one that was gathered.
LEMMA ServerSteps ==
    ASSUME IInv, NEW c \in Clients,
           ServerAccepts(c) \/ ServerEnds(c)
    PROVE  StepInv'
<1> USE DEF IInv, StepInv, ServerAccepts, ServerEnds, runVars, planVars,
            manifestVars, clientVars
<1>1. StageInv'
  BY DEF StageInv, Early, Finalized, TypeOK
<1>2. GoInv'
  BY DEF GoInv, TypeOK
<1>3. RecInv'
  BY DEF RecInv, RecOk, Decided, Finalized, TypeOK
<1>4. DecidedInv'
  BY DEF DecidedInv, Finalized, Decided, TypeOK
<1>5. ErrInv'
  BY DEF ErrInv, Finalized, TypeOK
<1>6. StatusInv'
  BY DEF StatusInv, Finalized, Decided, TypeOK
<1>7. DiskInv'
  BY DEF DiskInv, FirstFile, Snapshot, TypeOK
<1>8. PastInv'
  BY DEF PastInv, AllComplete, TypeOK
<1>9. QED
  BY <1>1, <1>2, <1>3, <1>4, <1>5, <1>6, <1>7, <1>8 DEF StepInv

\* Ctrl-C, a lost connection, and no step at all.
LEMMA OtherSteps ==
    ASSUME IInv, Cancel \/ ConnLost \/ UNCHANGED vars
    PROVE  StepInv'
<1> USE DEF IInv, StepInv, Cancel, ConnLost, vars, runVars, planVars,
            manifestVars, clientVars
<1>1. StageInv'
  BY DEF StageInv, Early, Finalized, TypeOK
<1>2. GoInv'
  BY DEF GoInv, TypeOK
<1>3. RecInv'
  BY DEF RecInv, RecOk, Decided, Finalized, TypeOK
<1>4. DecidedInv'
  BY DEF DecidedInv, Finalized, Decided, TypeOK
<1>5. ErrInv'
  BY DEF ErrInv, Finalized, TypeOK
<1>6. StatusInv'
  BY DEF StatusInv, Finalized, Decided, TypeOK
<1>7. DiskInv'
  BY DEF DiskInv, FirstFile, Snapshot, TypeOK
<1>8. PastInv'
  BY DEF PastInv, AllComplete, TypeOK
<1>9. QED
  BY <1>1, <1>2, <1>3, <1>4, <1>5, <1>6, <1>7, <1>8 DEF StepInv

\* The executor is new, the past empty.
LEMMA InitHolds == ASSUME Init PROVE IInv
<1> USE DEF Init
<1>1. TypeOK
  <2>1. past \in Seq(Files \cup {NoFile}) /\ round \in 1 .. Rounds
    BY InvocationAssumption
  <2>2. /\ rec \in [Clients -> Statuses \cup {"none"}]
        /\ gather \in [Clients -> {"not_gathered", "failed", "complete"}]
        /\ go \in [Clients -> {"idle", "launched", "running", "asked",
                               "testing", "done"}]
        /\ abort \in [Clients -> {"none", "missed", "ok", "failed"}]
        /\ test \in [Clients -> {"none", "requested", "refused", "running",
                                 "ended", "local"}]
    OBVIOUS
  <2>3. QED
    BY <2>1, <2>2 DEF TypeOK
<1>2. StageInv /\ GoInv /\ DecidedInv
  BY DEF StageInv, GoInv, DecidedInv, Early, Finalized
<1>3. RecInv /\ ErrInv
  BY DEF RecInv, RecOk, ErrInv, Early, Finalized, Decided
<1>4. StatusInv /\ DiskInv /\ PastInv
  BY DEF StatusInv, DiskInv, PastInv, Finalized
<1>5. QED
  BY <1>1, <1>2, <1>3, <1>4 DEF IInv, StepInv

\* The inductive invariant is one, action by action.
LEMMA StepPreserves ==
    ASSUME IInv, [Next]_vars PROVE IInv'
<1>1. TypeOK'
  BY TypeStep
<1>2. StepInv'
  BY HeadSteps, PlanStep, InitialStep, SetupStep, WaitStep, AbortedStep,
     GatheredStep, LogStep, FinalizeStep, AfterStep, WriteStep, CloseStep,
     RunSteps, RanSteps, GatherSteps, ServerSteps, OtherSteps
     DEF Next, MainStep, ClientStep, ServerStep
<1>3. QED
  BY <1>1, <1>2 DEF IInv

\* It holds of every reachable state.
LEMMA Invariance == Spec => []IInv
<1>1. Init => IInv
  BY InitHolds
<1>2. IInv /\ [Next]_vars => IInv'
  BY StepPreserves
<1>3. QED
  BY <1>1, <1>2, PTL DEF Spec

-----------------------------------------------------------------------------
\* scalpel-exp's variables keep their types, for any set of measurements and
\* any number of rounds.
THEOREM TypeCorrect == Spec => []TypeOK
BY Invariance, PTL DEF IInv

\* A measurement that was launched is named in an info.json: Start comes after
\* the first WriteInfo, and no later step takes the file away.
THEOREM LaunchesAreOnDisk == Spec => []LaunchedIsOnDisk
<1>1. IInv => LaunchedIsOnDisk
  BY DEF IInv, StepInv, LaunchedIsOnDisk, GoInv, DiskInv
<1>2. QED
  BY <1>1, Invariance, PTL

\* WriteInfo, Finalize and the AFTER snapshot only run when no goroutine of the
\* executor and no test on the server can change what they look at.
THEOREM SnapshotsAreAlwaysQuiet == Spec => []SnapshotsAreQuiet
<1>1. IInv => SnapshotsAreQuiet
  BY DEF IInv, StepInv, SnapshotsAreQuiet, GoInv, StageInv, Early, ErrInv,
         RecInv, RecOk
<1>2. QED
  BY <1>1, Invariance, PTL

\* A record of info.json is complete only if its measurement ran and was
\* gathered, and the final manifest of a started invocation decides each.
THEOREM RecordsAreTruthful == Spec => []RecordsTruthful
<1>1. IInv => RecordsTruthful
  BY DEF IInv, StepInv, RecordsTruthful, DiskInv, FirstFile, Snapshot, RecInv,
         RecOk, DecidedInv, Finalized, Decided
<1>2. QED
  BY <1>1, Invariance, PTL

\* What Client.Run returns agrees with what the info.json files of all its
\* rounds say.
THEOREM VerdictAlwaysAgrees == Spec => []VerdictAgrees
<1>1. ASSUME IInv PROVE VerdictAgrees
  <2> USE DEF IInv, StepInv
  <2>1. ASSUME pc = "close", err PROVE disk.status # "complete"
    BY <1>1, <2>1 DEF DiskInv, FirstFile, Snapshot, StatusInv, Finalized, NoFile
  <2>2. ASSUME ret = "nil", NEW k \in 1 .. Len(past)
        PROVE  /\ AllComplete(past[k])
               /\ k < Len(past) => past[k].status = "complete"
    BY <1>1, <2>2 DEF PastInv, TypeOK
  <2>3. QED
    BY <1>1, <2>1, <2>2, CloseVerdict DEF VerdictAgrees
<1>2. QED
  BY <1>1, Invariance, PTL

\* The next round starts only when no test of this one runs on the server.
THEOREM RoundsNeverOverlap == Spec => []RoundsDoNotOverlap
<1>1. IInv => RoundsDoNotOverlap
  BY DEF IInv, StepInv, RoundsDoNotOverlap, StageInv, Finalized, ErrInv,
         RecInv, RecOk
<1>2. QED
  BY <1>1, Invariance, PTL
=============================================================================
