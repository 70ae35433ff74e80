------------------------------ MODULE CommandRun ------------------------------
(***************************************************************************)
(* One command (a capture) from its start to the files it leaves with the  *)
(* client.  MonitorCommand runs it in the client (CommandClient.Run) or in *)
(* the server (RunCommand), stops it by signals of growing force, and is   *)
(* told of its exit by a goroutine blocked in Wait; then CommandClient's   *)
(* Gather, or RequestRunCommandResult, compresses and removes its files.   *)
(*                                                                         *)
(* The process is sudo, whose child tcpdump writes the files.  It relays   *)
(* SIGINT and SIGTERM to its child and exits after it, but SIGKILL ends it *)
(* alone.                                                                  *)
(***************************************************************************)
EXTENDS Integers, FiniteSets

CONSTANT CmdFiles  \* what the command may write into its result directory

Signals == <<"int", "term", "kill">>
Strength(s) == CHOOSE i \in 1..3 : Signals[i] = s

VARIABLES
  cLocal,   \* the command runs in the client
  cMain,    \* MonitorCommand: waiting for StartAt, running, or the signal sent
  cCtx,     \* the context is done
  cErr,     \* Run, or the server's goroutine, ends with an error
  cProc,    \* the process: none, running, exited, and failed for a bad status
  cOrphan,  \* the process was killed, and its child goes on writing
  cObeys,   \* the weakest signal that ends it, "never" if it cannot be killed
  cWaited,  \* Wait has returned and its result is in waitC
  cDir,     \* files in the result directory
  cWritten, \* files the command has created
  cGather,  \* no, busy, ok or failed
  cReply,   \* files in the reply of the server
  cSaved,   \* files at the client
  cCut,     \* of these, copies whose last part could not be flushed
  cTorn     \* a file was read while the command could write to it

cmdVars == <<cLocal, cMain, cCtx, cErr, cProc, cOrphan, cObeys, cWaited, cDir,
             cWritten, cGather, cReply, cSaved, cCut, cTorn>>
CmdStore == <<cDir, cWritten, cGather, cReply, cSaved, cCut, cTorn>>
CmdConf == <<cLocal, cObeys>>

CmdIdle ==
  /\ cLocal = FALSE /\ cMain = "off" /\ cCtx = FALSE /\ cErr = FALSE
  /\ cProc = "none" /\ cOrphan = FALSE /\ cObeys = "never" /\ cWaited = FALSE
  /\ cDir = {} /\ cWritten = {} /\ cGather = "no"
  /\ cReply = {} /\ cSaved = {} /\ cCut = {} /\ cTorn = FALSE

\* The result directory exists; wait for StartAt.
CmdRequest ==
  /\ cMain = "off"
  /\ cLocal' \in BOOLEAN
  /\ cObeys' \in {"int", "term", "kill", "never"}
  /\ cMain' = "wait"
  /\ UNCHANGED <<cCtx, cErr, cProc, cOrphan, cWaited, CmdStore>>

CmdReturns(failed) ==
  /\ cMain' = "done" /\ cErr' = failed

\* StartAt has passed, the context is done, the command cannot be started, or
\* it runs.
CmdStart ==
  /\ cMain = "wait"
  /\ \/ CmdReturns(TRUE) /\ UNCHANGED cProc
     \/ ~cCtx /\ cMain' = "run" /\ cProc' = "running" /\ UNCHANGED cErr
  /\ UNCHANGED <<CmdConf, cCtx, cOrphan, cWaited, CmdStore>>

\* The first select: the command has exited, and its status is the result.
CmdExitedEarly ==
  /\ cMain = "run" /\ cWaited
  /\ CmdReturns(cProc = "failed")
  /\ UNCHANGED <<CmdConf, cCtx, cProc, cOrphan, cWaited, CmdStore>>

\* The first select: the timer, or the context.
CmdStop ==
  /\ cMain = "run"
  /\ cMain' = "int"
  /\ UNCHANGED <<CmdConf, cCtx, cErr, cProc, cOrphan, cWaited, CmdStore>>

\* The select after a signal: whatever its status, the command was stopped.
CmdStopped ==
  /\ cMain \in {"int", "term", "kill"} /\ cWaited
  /\ CmdReturns(FALSE)
  /\ UNCHANGED <<CmdConf, cCtx, cProc, cOrphan, cWaited, CmdStore>>

\* Mutants of CmdEscalate: a command that survives is taken for a stopped one;
\* the last wait has no limit.
CmdEscalateIgnored ==
  /\ cMain \in {"int", "term", "kill"}
  /\ IF cMain = "kill" THEN CmdReturns(FALSE)
     ELSE cMain' = Signals[Strength(cMain) + 1] /\ UNCHANGED cErr
  /\ UNCHANGED <<CmdConf, cCtx, cProc, cOrphan, cWaited, CmdStore>>

CmdEscalateNoLimit ==
  /\ cMain \in {"int", "term"}
  /\ cMain' = Signals[Strength(cMain) + 1]
  /\ UNCHANGED <<CmdConf, cCtx, cErr, cProc, cOrphan, cWaited, CmdStore>>

\* It did not exit within 2 s.
CmdEscalate ==
  /\ cMain \in {"int", "term", "kill"}
  /\ IF cMain = "kill" THEN CmdReturns(TRUE)
     ELSE cMain' = Signals[Strength(cMain) + 1] /\ UNCHANGED cErr
  /\ UNCHANGED <<CmdConf, cCtx, cProc, cOrphan, cWaited, CmdStore>>

(***************************************************************************)
(* The command and the goroutine that waits for it.                        *)
(***************************************************************************)
CmdCreates(f) ==
  /\ cProc = "running" \/ cOrphan
  /\ f \notin cWritten
  /\ cWritten' = cWritten \cup {f} /\ cDir' = cDir \cup {f}
  /\ UNCHANGED <<CmdConf, cMain, cCtx, cErr, cProc, cOrphan, cWaited, cGather,
                 cReply, cSaved, cCut, cTorn>>

CmdExits ==
  /\ cProc = "running"
  /\ cProc' \in {"exited", "failed"}
  /\ UNCHANGED <<CmdConf, cMain, cCtx, cErr, cOrphan, cWaited, CmdStore>>

\* The signals sent so far are the one MonitorCommand is at and all before.
\* Once SIGKILL has been, the child may be left behind.
CmdDies ==
  /\ cProc = "running" /\ cObeys # "never"
  /\ \/ cMain \in {"int", "term", "kill"} /\ Strength(cMain) >= Strength(cObeys)
     \/ cMain = "done"
  /\ cProc' = "failed"
  /\ cOrphan' \in IF cMain \in {"kill", "done"} THEN BOOLEAN ELSE {FALSE}
  /\ UNCHANGED <<CmdConf, cMain, cCtx, cErr, cWaited, CmdStore>>

CmdWait ==
  /\ cProc \in {"exited", "failed"} /\ ~cWaited
  /\ cWaited' = TRUE
  /\ UNCHANGED <<CmdConf, cMain, cCtx, cErr, cProc, cOrphan, CmdStore>>

CmdAbort ==
  /\ cMain \in {"wait", "run"} /\ ~cCtx
  /\ cCtx' = TRUE
  /\ UNCHANGED <<CmdConf, cMain, cErr, cProc, cOrphan, cWaited, CmdStore>>

(***************************************************************************)
(* Gather.  The client gathers whether or not Run failed, unless the user  *)
(* aborted.  The server answers with the error of its goroutine.           *)
(***************************************************************************)
CmdGather ==
  /\ cMain = "done" /\ cGather = "no" /\ ~cCtx
  /\ cGather' = IF ~cLocal /\ cErr THEN "failed" ELSE "busy"
  /\ UNCHANGED <<CmdConf, cMain, cCtx, cErr, cProc, cOrphan, cWaited, cDir,
                 cWritten, cReply, cSaved, cCut, cTorn>>

\* Read, compress and remove one file.  The server has it in memory.  The
\* client has closed its copy by then, but has not looked at the error of the
\* Flush before, so the copy may lack its end.  The removal may fail, which is
\* only logged.
CmdCollect(f) ==
  /\ cGather = "busy" /\ f \in cDir \ (cReply \cup cSaved)
  /\ cTorn' = (cTorn \/ cProc = "running" \/ cOrphan)
  /\ \/ /\ cLocal
        /\ cSaved' = cSaved \cup {f} /\ cCut' \in {cCut, cCut \cup {f}}
        /\ UNCHANGED cReply
     \/ /\ ~cLocal
        /\ cReply' = cReply \cup {f}
        /\ UNCHANGED <<cSaved, cCut>>
  /\ cDir' \in {cDir \ {f}, cDir}
  /\ UNCHANGED <<CmdConf, cMain, cCtx, cErr, cProc, cOrphan, cWaited, cWritten,
                 cGather>>

\* A file cannot be read or stored.
CmdCollectFails ==
  /\ cGather = "busy" /\ cGather' = "failed"
  /\ UNCHANGED <<CmdConf, cMain, cCtx, cErr, cProc, cOrphan, cWaited, cDir,
                 cWritten, cReply, cSaved, cCut, cTorn>>

\* Every entry was visited; the client stores the files of the reply.
CmdGathered ==
  /\ cGather = "busy" /\ cDir \subseteq cReply \cup cSaved
  /\ cGather' = "ok"
  /\ cSaved' = cSaved \cup cReply
  /\ UNCHANGED <<CmdConf, cMain, cCtx, cErr, cProc, cOrphan, cWaited, cDir,
                 cWritten, cReply, cCut, cTorn>>

CmdMonitor == CmdStart \/ CmdExitedEarly \/ CmdStopped

CmdNext ==
  \/ CmdRequest \/ CmdMonitor \/ CmdStop \/ CmdEscalate
  \/ \E f \in CmdFiles : CmdCreates(f)
  \/ CmdExits \/ CmdDies \/ CmdWait \/ CmdAbort
  \/ CmdGather \/ CmdCollectFails \/ CmdGathered
  \/ \E f \in CmdFiles : CmdCollect(f)

\* Goroutines run and signals are obeyed; CmdTime: the timers expire.
CmdFair == WF_cmdVars(CmdMonitor \/ CmdWait \/ CmdDies)
CmdTime == WF_cmdVars(CmdStop \/ CmdEscalate)

\* If Run and Gather both succeed, and the command did not have to be killed so
\* that its child outlived it, the client has a copy of every file the command
\* wrote, and none was read before the command had exited: MonitorCommand
\* reports success only after Wait has returned, whatever race the exit, the
\* timers and the context were in.  A file of a local capture is in its
\* directory or has its copy, even if gathering fails half way; only such a copy
\* may lack its end (the unchecked Flush).
CmdCapture ==
  /\ cGather = "ok" /\ ~cErr /\ ~cOrphan => ~cTorn /\ cSaved = cWritten
  /\ cLocal => cWritten \subseteq cDir \cup cSaved
  /\ cCut # {} => cLocal

CmdOver ==
  /\ cMain = "done"
  /\ cProc = "none" \/ cWaited \/ cObeys = "never"

\* MonitorCommand returns, and the process is reaped though MonitorCommand may
\* have given up on it, unless it cannot be killed.
CmdEnds == CmdTime => (cMain # "off" ~> CmdOver)
=============================================================================
