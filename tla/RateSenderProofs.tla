-------------------------- MODULE RateSenderProofs --------------------------
(***************************************************************************)
(* Proofs about RateSender for any list of segments, batch size and clock  *)
(* resolution: the record matches the wire, no write is poisoned by the    *)
(* callback of an earlier segment, and each segment stays within its rate  *)
(* and its time.                                                           *)
(***************************************************************************)
EXTENDS RateSender, SequenceTheorems, FiniteSetTheorems,
        WellFoundedInduction, TLAPS

\* Steps outside a segment, and those inside one.
Outside == {"next", "enter", "finished", "failed"}
Building == {"send", "syscall"}

\* The segment the sender works on exists, and a batch is part of the round.
SegmentInv ==
    /\ pc \notin {"next", "finished", "failed"} => i \in 1 .. Len(Params)
    /\ pc \in Building => round <= left

\* The record: what was sent, and the batch in the making on top of it.
RecordInv ==
    /\ Len(wire) = seq
    /\ \A j \in 1 .. Len(wire) : wire[j].seq = j - 1
    /\ \A j \in 1 .. Len(msgs) : msgs[j] = j - 1
    /\ pc \in Building => Len(msgs) = seq + round
    /\ pc \notin Building \cup {"fail", "failed"} => Len(msgs) = seq

\* No callback is left of another segment; inside a segment the deadline is
\* its own unless its callback has run, which the context caused.
WakeInv ==
    /\ \A k \in Segments : pc \in Outside \/ k # i => wake[k] = "off"
    /\ pc \notin Outside =>
          /\ wake[i] # "off"
          /\ wake[i] \in {"running", "woke"} => done
          /\ wake[i] \in {"armed", "running"} => wdl = Deadline
          /\ done => Expired

IInv == TypeOK /\ SegmentInv /\ RecordInv /\ WakeInv

-----------------------------------------------------------------------------
\* Integer division of a natural number by a positive one.
LEMMA DivNat == ASSUME NEW a \in Nat, NEW b \in Nat \ {0}
                PROVE  a \div b \in Nat
OBVIOUS

LEMMA GoalNat == ASSUME NEW e \in Int, NEW p \in Nat
                 PROVE  numPacketsGoal(e, p) \in Nat
<1>1. CASE e <= 0
  BY <1>1 DEF numPacketsGoal
<1>2. CASE ~(e <= 0)
  <2>1. e * p \in Nat
    BY <1>2
  <2>2. QED
    BY <1>2, <2>1, DivNat, RateAssumption DEF numPacketsGoal
<1>3. QED
  BY <1>1, <1>2

\* Appending the next n sequence numbers to a record of 0, 1, ..., seq - 1.
LEMMA AppendedSeq ==
    ASSUME msgs \in Seq(Nat), seq \in Nat, Len(msgs) = seq,
           \A j \in 1 .. Len(msgs) : msgs[j] = j - 1, NEW n \in Nat
    PROVE  /\ Appended(n) \in Seq(Nat)
           /\ Len(Appended(n)) = seq + n
           /\ \A j \in 1 .. Len(Appended(n)) : Appended(n)[j] = j - 1
<1>1. \A j \in 1 .. seq + n :
         (IF j <= Len(msgs) THEN msgs[j] ELSE seq + (j - Len(msgs)) - 1)
            = j - 1
  OBVIOUS
<1>2. Appended(n) = [j \in 1 .. seq + n |-> j - 1]
  BY <1>1 DEF Appended
<1>3. QED
  BY <1>2

\* Dropping the last n records.
LEMMA DroppedSeq ==
    ASSUME msgs \in Seq(Nat), NEW n \in 0 .. Len(msgs),
           \A j \in 1 .. Len(msgs) : msgs[j] = j - 1
    PROVE  /\ Dropped(n) \in Seq(Nat)
           /\ Len(Dropped(n)) = Len(msgs) - n
           /\ \A j \in 1 .. Len(Dropped(n)) : Dropped(n)[j] = j - 1
BY DEF Dropped

\* Two runs of consecutive sequence numbers that follow one another.
LEMMA Consecutive ==
    ASSUME NEW s \in Seq(Packets), NEW t \in Seq(Packets),
           \A j \in 1 .. Len(s) : s[j].seq = j - 1,
           \A j \in 1 .. Len(t) : t[j].seq = Len(s) + j - 1
    PROVE  /\ s \o t \in Seq(Packets)
           /\ Len(s \o t) = Len(s) + Len(t)
           /\ \A j \in 1 .. Len(s \o t) : (s \o t)[j].seq = j - 1
<1>1. /\ s \o t \in Seq(Packets)
      /\ Len(s \o t) = Len(s) + Len(t)
      /\ \A j \in 1 .. Len(s) + Len(t) :
           (s \o t)[j] = IF j <= Len(s) THEN s[j] ELSE t[j - Len(s)]
  BY ConcatProperties
<1>2. ASSUME NEW j \in 1 .. Len(s \o t)
      PROVE  (s \o t)[j].seq = j - 1
  <2>1. CASE j <= Len(s)
    BY <2>1, <1>1
  <2>2. CASE ~(j <= Len(s))
    <3>1. (s \o t)[j] = t[j - Len(s)]
      BY <2>2, <1>1
    <3>2. j - Len(s) \in 1 .. Len(t)
      BY <2>2, <1>1, Len(s) \in Nat, Len(t) \in Nat
    <3>3. QED
      BY <3>1, <3>2
  <2>3. QED
    BY <2>1, <2>2
<1>3. QED
  BY <1>1, <1>2

\* The wire after a system call that took n packets.
LEMMA WireSeq ==
    ASSUME wire \in Seq(Packets), seq \in Nat, i \in Nat, now \in Nat,
           Len(wire) = seq,
           \A j \in 1 .. Len(wire) : wire[j].seq = j - 1, NEW n \in Nat
    PROVE  /\ wire \o Burst(n) \in Seq(Packets)
           /\ Len(wire \o Burst(n)) = seq + n
           /\ \A j \in 1 .. Len(wire \o Burst(n)) :
                (wire \o Burst(n))[j].seq = j - 1
<1>1. \A j \in 1 .. n :
         [seq |-> seq + j - 1, seg |-> i, at |-> now] \in Packets
  BY DEF Packets
<1>2. Burst(n) \in [1 .. n -> Packets]
  BY <1>1 DEF Burst
<1>3. Burst(n) \in Seq(Packets) /\ Len(Burst(n)) = n
  BY <1>2
<1>4. \A j \in 1 .. n : Burst(n)[j].seq = seq + j - 1
  BY DEF Burst
<1>5. \A j \in 1 .. Len(Burst(n)) : Burst(n)[j].seq = Len(wire) + j - 1
  BY <1>3, <1>4
<1>6. /\ wire \o Burst(n) \in Seq(Packets)
      /\ Len(wire \o Burst(n)) = Len(wire) + Len(Burst(n))
      /\ \A j \in 1 .. Len(wire \o Burst(n)) :
           (wire \o Burst(n))[j].seq = j - 1
  BY <1>3, <1>5, Consecutive, Zenon
<1>7. QED
  BY <1>3, <1>6

-----------------------------------------------------------------------------
LEMMA InitInv == Init => IInv
<1> SUFFICES ASSUME Init PROVE IInv
  OBVIOUS
<1>1. TypeOK
  <2>1. msgs \in Seq(Nat) /\ wire \in Seq(Packets)
    BY DEF Init
  <2>2. cancelled \in BOOLEAN /\ done \in BOOLEAN
    BY Zenon DEF Init
  <2>3. QED
    BY <2>1, <2>2 DEF Init, TypeOK
<1>2. SegmentInv
  BY DEF Init, SegmentInv, Building
<1>3. RecordInv
  BY DEF Init, RecordInv, Building
<1>4. WakeInv
  BY DEF Init, WakeInv, Outside
<1>5. QED
  BY <1>1, <1>2, <1>3, <1>4 DEF IInv

\* The fields of the current segment.
LEMMA SegmentType ==
    ASSUME i \in 1 .. Len(Params), boundary \in Nat
    PROVE  /\ Params[i].dur \in Nat
           /\ Params[i].pps \in Nat
           /\ End \in Nat
           /\ Deadline \in Nat
           /\ Deadline <= End
<1>1. Params[i] \in [dur : Nat, pps : Nat]
  BY RateAssumption, ElementOfSeq, Zenon
<1>2. Params[i].dur \in Nat /\ Params[i].pps \in Nat
  BY <1>1
<1>3. QED
  BY <1>2, RateAssumption DEF End, Deadline, Least

\* What Expired says of the current segment does not become untrue.
LEMMA ExpiredStays ==
    ASSUME TypeOK, i' = i, boundary' = boundary,
           now' \in Nat, now' >= now, cancelled => cancelled', Expired,
           Deadline \in Nat
    PROVE  Expired'
BY DEF TypeOK, Expired, Deadline, End, Least

-----------------------------------------------------------------------------
\* One lemma per part of the invariant, one step per action.
LEMMA TypeStep == IInv /\ [Next]_vars => TypeOK'
<1> SUFFICES ASSUME IInv, [Next]_vars PROVE TypeOK'
  OBVIOUS
<1> USE DEF IInv, timeVars, segVars, roundVars, recordVars, wakeVars
<1>a. pc \notin {"next", "finished", "failed"} =>
         /\ i \in 1 .. Len(Params)
         /\ Params[i].dur \in Nat /\ Params[i].pps \in Nat
         /\ End \in Nat /\ Deadline \in Nat
  BY SegmentType DEF TypeOK, SegmentInv
<1>1. CASE NextSegment
  <2>1. i <= Len(Params) => End \in Nat
    BY SegmentType DEF TypeOK
  <2>2. QED
    BY <1>1, <2>1 DEF NextSegment, TypeOK
<1>2. CASE EnterSegment
  <2>1. missed' \in Nat
    <3>1. now - boundary \in Int /\ Params[i].pps \in Nat
      BY <1>2, <1>a DEF EnterSegment, TypeOK
    <3>2. QED
      BY <1>2, <3>1, GoalNat DEF EnterSegment
  <2>2. QED
    BY <1>2, <1>a, <2>1 DEF EnterSegment, TypeOK
<1>3. CASE SetDeadlineFails
  <2>1. missed' \in Nat
    <3>1. now - boundary \in Int /\ Params[i].pps \in Nat
      BY <1>3, <1>a DEF SetDeadlineFails, TypeOK
    <3>2. QED
      BY <1>3, <3>1, GoalNat DEF SetDeadlineFails
  <2>2. QED
    BY <1>3, <2>1 DEF SetDeadlineFails, TypeOK
<1>4. CASE SkipSegment
  BY <1>4, <1>a DEF SkipSegment, TypeOK
<1>5. CASE Tick
  <2>1. rateSegmentGoal \in Int
    <3>1. Least(now - boundary, Params[i].dur) \in Int
      BY <1>5, <1>a DEF Tick, TypeOK, Least
    <3>2. numPacketsGoal(Least(now - boundary, Params[i].dur), Params[i].pps)
            \in Nat
      BY <1>5, <1>a, <3>1, GoalNat DEF Tick
    <3>3. QED
      BY <3>2 DEF rateSegmentGoal, Least, TypeOK
  <2>2. QED
    BY <1>5, <2>1 DEF Tick, TypeOK
<1>6. CASE ContextDone
  BY <1>6 DEF ContextDone, TypeOK
<1>7. CASE LeaveSegment
  <2>1. wake' \in [Segments -> {"off", "armed", "running", "woke"}]
    BY <1>7 DEF LeaveSegment, TypeOK
  <2>2. QED
    BY <1>7, <1>a, <2>1 DEF LeaveSegment, TypeOK, None
<1>8. CASE Batch
  <2>1. BatchSize \in Nat
    BY RateAssumption DEF BatchSize, Least, TypeOK
  <2>2. msgs' \in Seq(Nat)
    <3>1. CASE UNCHANGED msgs
      BY <3>1 DEF TypeOK
    <3>2. CASE msgs' = Appended(BatchSize)
      <4>1. /\ msgs \in Seq(Nat) /\ seq \in Nat /\ Len(msgs) = seq
            /\ \A j \in 1 .. Len(msgs) : msgs[j] = j - 1
        BY <1>8 DEF Batch, TypeOK, RecordInv, Building
      <4>2. Appended(BatchSize) \in Seq(Nat)
        BY <4>1, <2>1, AppendedSeq
      <4>3. QED
        BY <3>2, <4>2
    <3>3. QED
      BY <1>8, <3>1, <3>2 DEF Batch
  <2>3. QED
    BY <1>8, <2>1, <2>2 DEF Batch, RoundReturns, TypeOK
<1>9. CASE EncodeFails
  <2>1. msgs' \in Seq(Nat)
    <3>1. PICK n \in 0 .. BatchSize - 1 : msgs' = Appended(n)
      BY <1>9 DEF EncodeFails
    <3>2. /\ msgs \in Seq(Nat) /\ seq \in Nat /\ Len(msgs) = seq
          /\ \A j \in 1 .. Len(msgs) : msgs[j] = j - 1
      BY <1>9 DEF EncodeFails, TypeOK, RecordInv, Building
    <3>3. Appended(n) \in Seq(Nat)
      BY <3>2, AppendedSeq
    <3>4. QED
      BY <3>1, <3>3
  <2>2. QED
    BY <1>9, <2>1 DEF EncodeFails, TypeOK
<1>10. CASE CheckBeforeSend
  <2>1. Dropped(round) \in Seq(Nat)
    <3>1. /\ msgs \in Seq(Nat) /\ round \in 0 .. Len(msgs)
          /\ \A j \in 1 .. Len(msgs) : msgs[j] = j - 1
      <4>1. pc = "send"
        BY <1>10 DEF CheckBeforeSend
      <4>2. Len(msgs) = seq + round /\ \A j \in 1 .. Len(msgs) : msgs[j] = j - 1
        BY <4>1 DEF RecordInv, Building
      <4>3. msgs \in Seq(Nat) /\ seq \in Nat /\ round \in Nat
        BY DEF TypeOK
      <4>4. round \in 0 .. Len(msgs)
        BY <4>2, <4>3
      <4>5. QED
        BY <4>2, <4>3, <4>4
    <3>2. QED
      BY <3>1, DroppedSeq
  <2>2. QED
    BY <1>10, <2>1 DEF CheckBeforeSend, RoundReturns, TypeOK
<1>11. CASE SendTimesOut
  <2>1. Dropped(round) \in Seq(Nat)
    <3>1. /\ msgs \in Seq(Nat) /\ round \in 0 .. Len(msgs)
          /\ \A j \in 1 .. Len(msgs) : msgs[j] = j - 1
      <4>1. pc = "syscall"
        BY <1>11 DEF SendTimesOut
      <4>2. Len(msgs) = seq + round /\ \A j \in 1 .. Len(msgs) : msgs[j] = j - 1
        BY <4>1 DEF RecordInv, Building
      <4>3. msgs \in Seq(Nat) /\ seq \in Nat /\ round \in Nat
        BY DEF TypeOK
      <4>4. round \in 0 .. Len(msgs)
        BY <4>2, <4>3
      <4>5. QED
        BY <4>2, <4>3, <4>4
    <3>2. QED
      BY <3>1, DroppedSeq
  <2>2. QED
    BY <1>11, <2>1 DEF SendTimesOut, RoundReturns, TypeOK
<1>12. CASE SendFails
  <2>1. Dropped(round) \in Seq(Nat)
    <3>1. /\ msgs \in Seq(Nat) /\ round \in 0 .. Len(msgs)
          /\ \A j \in 1 .. Len(msgs) : msgs[j] = j - 1
      BY <1>12 DEF SendFails, TypeOK, RecordInv, Building
    <3>2. QED
      BY <3>1, DroppedSeq
  <2>2. QED
    BY <1>12, <2>1 DEF SendFails, TypeOK
<1>13. ASSUME NEW n \in 0 .. round, SendMsgs(n) PROVE TypeOK'
  <2>1. Dropped(round - n) \in Seq(Nat)
    <3>1. /\ msgs \in Seq(Nat) /\ round - n \in 0 .. Len(msgs)
          /\ \A j \in 1 .. Len(msgs) : msgs[j] = j - 1
      BY <1>13 DEF SendMsgs, TypeOK, RecordInv, Building
    <3>2. QED
      BY <3>1, DroppedSeq
  <2>2. wire' \in Seq(Packets)
    BY <1>13, WireSeq DEF SendMsgs, TypeOK, RecordInv
  <2>3. left' \in Nat
    BY <1>13 DEF SendMsgs, TypeOK, SegmentInv, Building
  <2>4. QED
    BY <1>13, <2>1, <2>2, <2>3 DEF SendMsgs, RoundReturns, TypeOK
<1>14. CASE CallbackStep
  BY <1>14 DEF CallbackStep, FireContext, StartWake, Wake, TypeOK
<1>15. CASE Advance \/ Cancel
  <2>1. cancelled' \in BOOLEAN
    BY <1>15, Zenon DEF Advance, Cancel, TypeOK
  <2>2. now' \in Nat
    BY <1>15 DEF Advance, Cancel, TypeOK
  <2>3. UNCHANGED <<pc, segVars, numSent, roundVars, recordVars, wakeVars>>
    BY <1>15 DEF Advance, Cancel
  <2>4. QED
    BY <2>1, <2>2, <2>3 DEF TypeOK
<1>16. CASE UNCHANGED vars
  BY <1>16 DEF vars, TypeOK
<1>17. QED
  BY <1>1, <1>2, <1>3, <1>4, <1>5, <1>6, <1>7, <1>8, <1>9, <1>10, <1>11,
     <1>12, <1>13, <1>14, <1>15, <1>16 DEF Next, SenderStep

LEMMA SegmentStep == IInv /\ [Next]_vars => SegmentInv'
<1> SUFFICES ASSUME IInv, [Next]_vars PROVE SegmentInv'
  OBVIOUS
<1> USE DEF IInv, timeVars, segVars, roundVars, recordVars, wakeVars,
            SegmentInv, Building
<1>1. CASE NextSegment
  BY <1>1 DEF NextSegment, TypeOK
<1>2. CASE EnterSegment \/ SetDeadlineFails \/ SkipSegment
  BY <1>2 DEF EnterSegment, SetDeadlineFails, SkipSegment
<1>3. CASE Tick \/ ContextDone \/ LeaveSegment
  BY <1>3 DEF Tick, ContextDone, LeaveSegment
<1>4. CASE Batch
  <2>1. BatchSize <= left
    BY RateAssumption DEF BatchSize, Least, TypeOK
  <2>2. QED
    BY <1>4, <2>1 DEF Batch, RoundReturns
<1>5. CASE EncodeFails \/ CheckBeforeSend \/ SendTimesOut \/ SendFails
  BY <1>5 DEF EncodeFails, CheckBeforeSend, SendTimesOut, SendFails,
              RoundReturns
<1>6. ASSUME NEW n \in 0 .. round, SendMsgs(n) PROVE SegmentInv'
  BY <1>6 DEF SendMsgs, RoundReturns
<1>7. CASE CallbackStep
  BY <1>7 DEF CallbackStep, FireContext, StartWake, Wake
<1>8. CASE Advance \/ Cancel
  BY <1>8 DEF Advance, Cancel
<1>9. CASE UNCHANGED vars
  BY <1>9 DEF vars
<1>10. QED
  BY <1>1, <1>2, <1>3, <1>4, <1>5, <1>6, <1>7, <1>8, <1>9
     DEF Next, SenderStep

LEMMA RecordStep == IInv /\ [Next]_vars => RecordInv'
<1> SUFFICES ASSUME IInv, [Next]_vars PROVE RecordInv'
  OBVIOUS
<1> USE DEF IInv, timeVars, segVars, roundVars, recordVars, wakeVars,
            RecordInv, Building
<1>1. CASE NextSegment
  BY <1>1 DEF NextSegment
<1>2. CASE EnterSegment \/ SetDeadlineFails \/ SkipSegment
  BY <1>2 DEF EnterSegment, SetDeadlineFails, SkipSegment
<1>3. CASE Tick \/ ContextDone \/ LeaveSegment
  BY <1>3 DEF Tick, ContextDone, LeaveSegment
<1>4. CASE Batch
  <2>1. BatchSize \in Nat
    BY RateAssumption DEF BatchSize, Least, TypeOK
  <2>2. /\ msgs \in Seq(Nat) /\ seq \in Nat /\ Len(msgs) = seq
        /\ \A j \in 1 .. Len(msgs) : msgs[j] = j - 1
    BY <1>4 DEF Batch, TypeOK
  <2>3. /\ Len(Appended(BatchSize)) = seq + BatchSize
        /\ \A j \in 1 .. Len(Appended(BatchSize)) :
              Appended(BatchSize)[j] = j - 1
    BY <2>1, <2>2, AppendedSeq
  <2>4. CASE pc' = "tick" /\ UNCHANGED msgs
    BY <1>4, <2>4 DEF Batch
  <2>5. CASE /\ pc' = "send" /\ round' = BatchSize
             /\ msgs' = Appended(BatchSize)
    BY <1>4, <2>3, <2>5 DEF Batch
  <2>6. QED
    BY <1>4, <2>4, <2>5 DEF Batch, RoundReturns
<1>5. CASE EncodeFails
  <2>1. PICK n \in 0 .. BatchSize - 1 : msgs' = Appended(n)
    BY <1>5 DEF EncodeFails
  <2>2. /\ msgs \in Seq(Nat) /\ seq \in Nat /\ Len(msgs) = seq
        /\ \A j \in 1 .. Len(msgs) : msgs[j] = j - 1
    BY <1>5 DEF EncodeFails, TypeOK
  <2>3. \A j \in 1 .. Len(Appended(n)) : Appended(n)[j] = j - 1
    BY <2>2, AppendedSeq
  <2>4. QED
    BY <1>5, <2>1, <2>3 DEF EncodeFails
<1>6. ASSUME NEW m \in 0 .. round, pc \in Building
      PROVE  /\ Len(Dropped(m)) = seq + round - m
             /\ \A j \in 1 .. Len(Dropped(m)) : Dropped(m)[j] = j - 1
  <2>1. /\ msgs \in Seq(Nat) /\ m \in 0 .. Len(msgs)
        /\ Len(msgs) = seq + round
        /\ \A j \in 1 .. Len(msgs) : msgs[j] = j - 1
    BY <1>6 DEF TypeOK
  <2>2. Len(Dropped(m)) = Len(msgs) - m
    BY <2>1, DroppedSeq, Zenon
  <2>3. \A j \in 1 .. Len(Dropped(m)) : Dropped(m)[j] = j - 1
    BY <2>1, DroppedSeq, Zenon
  <2>4. QED
    BY <2>1, <2>2, <2>3 DEF TypeOK
<1>7. CASE CheckBeforeSend
  <2>1. /\ Len(Dropped(round)) = seq
        /\ \A j \in 1 .. Len(Dropped(round)) : Dropped(round)[j] = j - 1
    BY <1>6, <1>7 DEF CheckBeforeSend, TypeOK
  <2>2. QED
    BY <1>7, <2>1 DEF CheckBeforeSend, RoundReturns
<1>8. CASE SendTimesOut \/ SendFails
  <2>1. /\ Len(Dropped(round)) = seq
        /\ \A j \in 1 .. Len(Dropped(round)) : Dropped(round)[j] = j - 1
    <3>1. pc \in Building
      BY <1>8 DEF SendTimesOut, SendFails
    <3>2. round \in 0 .. round /\ seq + round - round = seq
      BY DEF TypeOK
    <3>3. QED
      BY <1>6, <3>1, <3>2, Zenon
  <2>2. QED
    BY <1>8, <2>1 DEF SendTimesOut, SendFails, RoundReturns
<1>9. ASSUME NEW n \in 0 .. round, SendMsgs(n) PROVE RecordInv'
  <2>1. /\ Len(Dropped(round - n)) = seq + n
        /\ \A j \in 1 .. Len(Dropped(round - n)) :
             Dropped(round - n)[j] = j - 1
    <3>1. pc \in Building
      BY <1>9 DEF SendMsgs
    <3>2. round \in Nat /\ seq \in Nat
      BY DEF TypeOK
    <3>3. round - n \in 0 .. round /\ seq + round - (round - n) = seq + n
      BY <3>2
    <3>4. QED
      BY <1>6, <3>1, <3>3, Zenon
  <2>2. /\ Len(wire') = seq + n
        /\ \A j \in 1 .. Len(wire') : wire'[j].seq = j - 1
    <3>1. /\ wire \in Seq(Packets) /\ seq \in Nat /\ i \in Nat /\ now \in Nat
          /\ Len(wire) = seq /\ n \in Nat
          /\ \A j \in 1 .. Len(wire) : wire[j].seq = j - 1
      BY DEF TypeOK
    <3>2. wire' = wire \o Burst(n)
      BY <1>9 DEF SendMsgs
    <3>3. QED
      BY <3>1, <3>2, WireSeq
  <2>3. CASE n = round /\ pc' = "batch" /\ UNCHANGED msgs
    BY <1>9, <2>2, <2>3 DEF SendMsgs
  <2>4. CASE pc' = "tick" /\ msgs' = Dropped(round - n)
    BY <1>9, <2>1, <2>2, <2>4 DEF SendMsgs
  <2>5. QED
    BY <1>9, <2>3, <2>4 DEF SendMsgs, RoundReturns
<1>10. CASE CallbackStep
  BY <1>10 DEF CallbackStep, FireContext, StartWake, Wake
<1>11. CASE Advance \/ Cancel
  BY <1>11 DEF Advance, Cancel
<1>12. CASE UNCHANGED vars
  BY <1>12 DEF vars
<1>13. QED
  BY <1>1, <1>2, <1>3, <1>4, <1>5, <1>7, <1>8, <1>9, <1>10, <1>11, <1>12
     DEF Next, SenderStep

\* The end of the segment is the same while the sender stays in it.
LEMMA DeadlineStays ==
    ASSUME i' = i, boundary' = boundary
    PROVE  Deadline' = Deadline
BY DEF Deadline, End, Least

LEMMA WakeStep == IInv /\ [Next]_vars => WakeInv'
<1> SUFFICES ASSUME IInv, [Next]_vars PROVE WakeInv'
  OBVIOUS
<1> USE DEF IInv, timeVars, segVars, roundVars, recordVars, wakeVars,
            WakeInv, Outside
<1>b. pc \notin Outside => i \in Segments
  BY DEF SegmentInv, Segments
<1>a. ASSUME UNCHANGED <<timeVars, i, boundary>>
      PROVE  Deadline' = Deadline /\ Expired' = Expired
  BY <1>a, DeadlineStays DEF Expired
<1>1. CASE NextSegment
  BY <1>1 DEF NextSegment
<1>2. CASE EnterSegment
  BY <1>2, <1>a DEF EnterSegment, TypeOK, SegmentInv, Segments
<1>3. CASE SetDeadlineFails \/ SkipSegment
  BY <1>3 DEF SetDeadlineFails, SkipSegment
<1>4. CASE Tick \/ ContextDone
  BY <1>4, <1>a DEF Tick, ContextDone
<1>5. CASE LeaveSegment
  BY <1>5, <1>b DEF LeaveSegment, TypeOK
<1>6. CASE Batch \/ EncodeFails
  BY <1>6, <1>a DEF Batch, EncodeFails, RoundReturns
<1>7. CASE CheckBeforeSend \/ SendTimesOut \/ SendFails
  BY <1>7, <1>a DEF CheckBeforeSend, SendTimesOut, SendFails, RoundReturns
<1>8. ASSUME NEW n \in 0 .. round, SendMsgs(n) PROVE WakeInv'
  BY <1>8, <1>a DEF SendMsgs, RoundReturns
<1>9. CASE FireContext
  BY <1>9, <1>a DEF FireContext
<1>10. CASE StartWake \/ \E k \in Segments : Wake(k)
  BY <1>10, <1>a, <1>b DEF StartWake, Wake, TypeOK
<1>11. CASE Advance \/ Cancel
  <2>1. Deadline' = Deadline
    BY <1>11, DeadlineStays DEF Advance, Cancel
  <2>2. pc \notin Outside /\ Expired => Expired'
    <3>1. now' \in Nat /\ now' >= now /\ i' = i /\ boundary' = boundary
      BY <1>11 DEF Advance, Cancel, TypeOK
    <3>2. cancelled => cancelled'
      BY <1>11 DEF Advance, Cancel
    <3>3. pc \notin Outside => Deadline \in Nat
      BY SegmentType DEF SegmentInv, TypeOK
    <3>4. QED
      BY <3>1, <3>2, <3>3, ExpiredStays
  <2>3. UNCHANGED <<pc, wake, done, wdl>>
    BY <1>11 DEF Advance, Cancel
  <2>4. i' = i
    BY <1>11 DEF Advance, Cancel
  <2>5. QED
    BY <2>1, <2>2, <2>3, <2>4
<1>12. CASE UNCHANGED vars
  BY <1>12, <1>a DEF vars
<1>13. QED
  BY <1>1, <1>2, <1>3, <1>4, <1>5, <1>6, <1>7, <1>8, <1>9, <1>10, <1>11,
     <1>12 DEF Next, SenderStep, CallbackStep

-----------------------------------------------------------------------------
\* The inductive invariant holds in every run of the sender.
LEMMA Invariant == Spec => []IInv
<1>1. IInv /\ [Next]_vars => IInv'
  BY TypeStep, SegmentStep, RecordStep, WakeStep DEF IInv
<1>2. QED
  BY <1>1, InitInv, PTL DEF Spec

\* TypeOK holds for any list of segments, any batch size and any clock: the
\* counters of a round never go below zero.
THEOREM TypeCorrect == Spec => []TypeOK
<1>1. IInv => TypeOK
  BY DEF IInv
<1>2. QED
  BY <1>1, Invariant, PTL

\* The record of sendRound says exactly what left the socket, whatever the
\* socket accepts of each batch and whenever rounds are interrupted.
THEOREM RecordAlwaysMatches == Spec => []RecordMatchesWire
<1>1. IInv => RecordMatchesWire
  BY DEF IInv, RecordInv, RecordMatchesWire, Building
<1>2. QED
  BY <1>1, Invariant, PTL

\* Joining the callback in runSegment's deferred function is enough: a
\* write never times out because of an earlier segment.
THEOREM WritesAreNeverPoisoned == Spec => []NeverPoisoned
<1>1. ASSUME IInv PROVE NeverPoisoned
  <2> SUFFICES ASSUME pc = "syscall", WriteTimedOut PROVE Expired
    BY DEF NeverPoisoned
  <2>1. wake[i] \in {"armed", "running", "woke"}
    BY <1>1 DEF IInv, WakeInv, Outside, TypeOK, SegmentInv, Segments
  <2>2. CASE wake[i] = "armed" \/ wake[i] = "running"
    BY <1>1, <2>2 DEF IInv, WakeInv, Outside, WriteTimedOut, Expired
  <2>3. CASE wake[i] = "woke"
    BY <1>1, <2>3 DEF IInv, WakeInv, Outside
  <2>4. QED
    BY <2>1, <2>2, <2>3
<1>2. QED
  BY <1>1, Invariant, PTL

-----------------------------------------------------------------------------
(***************************************************************************)
(* What a segment may send, and when.                                      *)
(***************************************************************************)
\* Induction over the natural numbers, for a set: the provers take no predicate
\* as an argument, but they do take a set's least element.
LEMMA LeastOf ==
    ASSUME NEW T, T \subseteq Nat, T # {}
    PROVE  \E n \in T : \A m \in T : n <= m
<1> DEFINE R == {ss \in Nat \X Nat : ss[1] < ss[2]}
<1>1. IsWellFoundedOn(R, Nat)
  BY NatLessThanWellFounded DEF OpToRel
<1> HIDE DEF R
<1>2. PICK n \in T : \A m \in T : ~(<<m, n>> \in R)
  BY <1>1, WFMin
<1>3. ASSUME NEW m \in T PROVE n <= m
  <2>1. m \in Nat /\ n \in Nat /\ <<m, n>> \notin R
    BY <1>2
  <2>2. m < n => <<m, n>> \in R
    BY <2>1 DEF R
  <2>3. QED
    BY <2>1, <2>2
<1>4. QED
  BY <1>3

LEMMA SetInduction ==
    ASSUME NEW S, 0 \in S, \A n \in Nat : n \in S => n + 1 \in S
    PROVE  Nat \subseteq S
<1> SUFFICES ASSUME Nat \ S # {} PROVE FALSE
  OBVIOUS
<1>1. PICK n \in Nat \ S : \A m \in Nat \ S : n <= m
  BY LeastOf
<1>2. n # 0 /\ n - 1 \in Nat
  BY <1>1
<1>3. n - 1 \in S
  BY <1>1, <1>2
<1>4. QED
  BY <1>1, <1>2, <1>3

LEMMA DurNat == \A k \in Segments : Params[k].dur \in Nat /\ Params[k].pps \in Nat
<1> SUFFICES ASSUME NEW k \in 1 .. Len(Params)
             PROVE  Params[k].dur \in Nat /\ Params[k].pps \in Nat
  BY DEF Segments
<1>1. Params[k] \in [dur : Nat, pps : Nat]
  BY RateAssumption, ElementOfSeq, Zenon
<1>2. QED
  BY <1>1

\* SegmentEnd is what its definition says.
LEMMA SegmentEndIs ==
    /\ SegmentEnd[0] = 0
    /\ \A k \in 0 .. Len(Params) : SegmentEnd[k] \in Nat
    /\ \A k \in Segments : SegmentEnd[k] = SegmentEnd[k - 1] + Params[k].dur
<1> DEFINE N == Len(Params)
           Ends(f, n) == /\ f \in [0 .. n -> Nat] /\ f[0] = 0
                         /\ \A k \in 1 .. n : f[k] = f[k - 1] + Params[k].dur
           S == {n \in Nat : n <= N => \E f : Ends(f, n)}
<1>1. N \in Nat /\ \A k \in 1 .. N : Params[k].dur \in Nat
  BY DurNat, RateAssumption DEF Segments
<1>2. 0 \in S
  <2>1. Ends([k \in 0 .. 0 |-> 0], 0)
    OBVIOUS
  <2>2. QED
    BY <2>1
<1>3. ASSUME NEW n \in Nat, n + 1 <= N, \E f : Ends(f, n)
      PROVE  \E f : Ends(f, n + 1)
  <2>1. PICK f : Ends(f, n)
    BY <1>3
  <2> DEFINE g == [k \in 0 .. n + 1 |->
                     IF k = n + 1 THEN f[n] + Params[n + 1].dur ELSE f[k]]
  <2>2. Params[n + 1].dur \in Nat
    BY <1>1, <1>3
  <2>3. g \in [0 .. n + 1 -> Nat] /\ g[0] = 0
    BY <2>1, <2>2
  <2>4. ASSUME NEW k \in 1 .. n + 1 PROVE g[k] = g[k - 1] + Params[k].dur
    <3>1. CASE k = n + 1
      BY <3>1
    <3>2. CASE k \in 1 .. n
      BY <2>1, <3>2
    <3>3. QED
      BY <3>1, <3>2
  <2>5. Ends(g, n + 1)
    BY <2>3, <2>4
  <2>6. QED
    BY <2>5
<1>4. PICK f : Ends(f, N)
  <2> HIDE DEF Ends
  <2>1. \A n \in Nat : n \in S => n + 1 \in S
    BY <1>1, <1>3
  <2>2. N \in S
    <3> HIDE DEF S
    <3>1. QED
      BY <1>1, <1>2, <2>1, SetInduction
  <2>3. QED
    BY <1>1, <2>2
<1> DEFINE Is(g) == g = [k \in 0 .. N |-> IF k = 0 THEN 0
                                          ELSE g[k - 1] + Params[k].dur]
<1>5. Is(f)
  BY <1>1, <1>4
<1>6. SegmentEnd = CHOOSE g : Is(g)
  BY DEF SegmentEnd
<1>7. Is(SegmentEnd)
  <2> HIDE DEF Is
  <2>1. QED
    BY <1>5, <1>6, Zenon
<1>8. \A k \in 0 .. N : SegmentEnd[k] = IF k = 0 THEN 0
                                       ELSE SegmentEnd[k - 1] + Params[k].dur
  BY <1>7
<1> HIDE DEF Is
<1>9. SegmentEnd[0] = 0 /\ \A k \in 1 .. N : SegmentEnd[k] = SegmentEnd[k - 1] + Params[k].dur
  BY <1>1, <1>8
<1>10. \A k \in 0 .. N : SegmentEnd[k] \in Nat
  <2> DEFINE T == {n \in Nat : n <= N => SegmentEnd[n] \in Nat}
  <2>1. 0 \in T
    BY <1>9
  <2>2. ASSUME NEW n \in Nat, n \in T PROVE n + 1 \in T
    BY <1>1, <1>9, <2>2
  <2>3. Nat \subseteq T
    <3> HIDE DEF T
    <3>1. QED
      BY <2>1, <2>2, SetInduction
  <2>4. QED
    BY <1>1, <2>3
<1>11. QED
  BY <1>9, <1>10 DEF Segments

\* The segments follow each other without a gap, however late one is entered,
\* and a callback that has run leaves a deadline that has passed.
CourseInv ==
    /\ i <= Len(Params) + 1 /\ boundary = SegmentEnd[i - 1]
    /\ pc \notin Outside /\ wake[i] = "woke" => wdl # None /\ wdl <= now

\* Nothing was sent of a segment that is still to come, or for too long.
WireInv ==
    /\ \A j \in 1 .. Len(wire) :
          /\ wire[j].seg \in Segments /\ wire[j].seg <= i
          /\ pc \in {"next", "enter"} => wire[j].seg < i
    /\ NothingLate

\* numPacketsSent and sent count what the segment has sent, and what is left
\* of the round is within the goal.
CountInv ==
    /\ WithinRate
    /\ pc = "tick" => Cardinality(SentIn(i)) = numSent
    /\ pc \in {"batch", "send", "syscall"} =>
          /\ Cardinality(SentIn(i)) = numSent + sent
          /\ numSent + sent + left
                <= numPacketsGoal(Params[i].dur, Params[i].pps)

PaceInv == CourseInv /\ WireInv /\ CountInv

LEMMA PaceInit == Init => PaceInv
<1> SUFFICES ASSUME Init PROVE PaceInv
  OBVIOUS
<1>1. i = 1 /\ boundary = 0 /\ pc = "next" /\ wire = <<>> /\ Len(wire) = 0
  BY DEF Init
<1>2. CourseInv
  BY <1>1, SegmentEndIs, RateAssumption DEF CourseInv, Outside
<1>3. WireInv
  BY <1>1 DEF WireInv, NothingLate
<1>4. ASSUME NEW k \in 1 .. Len(Params)
      PROVE  Cardinality(SentIn(k)) <= numPacketsGoal(Params[k].dur, Params[k].pps)
  <2>1. SentIn(k) = {}
    BY <1>1 DEF SentIn
  <2>2. numPacketsGoal(Params[k].dur, Params[k].pps) \in Nat
    <3>1. Params[k].dur \in Int /\ Params[k].pps \in Nat
      BY DurNat DEF Segments
    <3>2. QED
      BY <3>1, GoalNat
  <2>3. QED
    BY <2>1, <2>2, FS_EmptySet
<1>5. CountInv
  BY <1>1, <1>4 DEF CountInv, WithinRate
<1>6. QED
  BY <1>2, <1>3, <1>5 DEF PaceInv

\* The next segment begins where the current one ends.
LEMMA NextBoundary ==
    ASSUME TypeOK, CourseInv, i \in 1 .. Len(Params)
    PROVE  /\ End = SegmentEnd[i] /\ i + 1 <= Len(Params) + 1
           /\ (i + 1) - 1 = i
  BY SegmentEndIs, RateAssumption DEF CourseInv, TypeOK, End, Segments

LEMMA CourseStep == IInv /\ CourseInv /\ [Next]_vars => CourseInv'
<1> SUFFICES ASSUME IInv, CourseInv, [Next]_vars PROVE CourseInv'
  OBVIOUS
<1> USE DEF timeVars, segVars, roundVars, recordVars, wakeVars
<1>1. TypeOK /\ SegmentInv /\ WakeInv
  BY DEF IInv
<1>2. ASSUME i \in 1 .. Len(Params), i' = i + 1, boundary' = End, pc' = "next"
      PROVE  CourseInv'
  BY <1>1, <1>2, NextBoundary DEF CourseInv, Outside
<1>3. ASSUME i \in 1 .. Len(Params), i' = i + 1, boundary' = End, pc' = pc,
             pc = "next"
      PROVE  CourseInv'
  BY <1>1, <1>3, NextBoundary DEF CourseInv, Outside
<1>4. CASE NextSegment
  <2>1. CASE i <= Len(Params) /\ i' = i + 1 /\ boundary' = End /\ pc' = pc
    BY <1>1, <1>3, <1>4, <2>1 DEF NextSegment, TypeOK
  <2>2. CASE UNCHANGED <<i, boundary>> /\ pc' \in {"finished", "enter"}
    BY <1>4, <2>2 DEF NextSegment, CourseInv, Outside
  <2>3. QED
    BY <1>4, <2>1, <2>2 DEF NextSegment
<1>5. CASE EnterSegment
  BY <1>1, <1>5 DEF EnterSegment, CourseInv, TypeOK, SegmentInv, Segments
<1>6. CASE SetDeadlineFails
  BY <1>6 DEF SetDeadlineFails, CourseInv, Outside
<1>7. CASE SkipSegment
  BY <1>1, <1>2, <1>7 DEF SkipSegment, SegmentInv
<1>8. CASE Tick \/ ContextDone
  BY <1>8 DEF Tick, ContextDone, CourseInv, Outside
<1>9. CASE LeaveSegment
  <2>1. CASE pc = "leave"
    BY <1>1, <1>2, <1>9, <2>1 DEF LeaveSegment, SegmentInv
  <2>2. CASE pc = "fail"
    BY <1>9, <2>2 DEF LeaveSegment, CourseInv, Outside
  <2>3. QED
    BY <1>9, <2>1, <2>2 DEF LeaveSegment
<1>10. CASE Batch \/ EncodeFails \/ CheckBeforeSend \/ SendTimesOut \/ SendFails
  BY <1>10 DEF Batch, EncodeFails, CheckBeforeSend, SendTimesOut, SendFails,
               RoundReturns, CourseInv, Outside
<1>11. ASSUME NEW n \in 0 .. round, SendMsgs(n) PROVE CourseInv'
  BY <1>11 DEF SendMsgs, RoundReturns, CourseInv, Outside
<1>12. CASE FireContext \/ StartWake
  BY <1>1, <1>12 DEF FireContext, StartWake, CourseInv, Outside, TypeOK
<1>13. ASSUME NEW k \in Segments, Wake(k) PROVE CourseInv'
  BY <1>1, <1>13 DEF Wake, CourseInv, Outside, TypeOK, None
<1>14. CASE Advance \/ Cancel
  BY <1>1, <1>14 DEF Advance, Cancel, CourseInv, TypeOK, None
<1>15. CASE UNCHANGED vars
  BY <1>15 DEF vars, CourseInv
<1>16. QED
  BY <1>4, <1>5, <1>6, <1>7, <1>8, <1>9, <1>10, <1>11, <1>12, <1>13, <1>14,
     <1>15 DEF Next, SenderStep, CallbackStep

\* All that does not send.
Quiet == Next /\ ~\E n \in 0 .. round : SendMsgs(n)

LEMMA QuietWire ==
    ASSUME IInv, Quiet
    PROVE  /\ wire' = wire
           /\ \/ i' = i /\ (pc' \in {"next", "enter"} => pc \in {"next", "enter"})
              \/ i' = i + 1
  BY DEF Quiet, Next, SenderStep, CallbackStep, NextSegment, EnterSegment,
     SkipSegment, Tick, ContextDone, LeaveSegment, Batch, CheckBeforeSend,
     SendTimesOut, FireContext, StartWake, Wake, SetDeadlineFails, EncodeFails,
     SendFails, Advance, Cancel, vars, Ended, timeVars, segVars, roundVars,
     recordVars, wakeVars, RoundReturns

\* A write that is not timed out is in time: the deadline of the segment is in
\* force.
LEMMA WriteInTime ==
    ASSUME IInv, CourseInv, pc = "syscall", ~WriteTimedOut
    PROVE  /\ i \in Segments /\ now \in Nat
           /\ now < Least(SegmentEnd[i], Outer)
<1>1. i \in 1 .. Len(Params) /\ TypeOK /\ now \in Nat /\ boundary \in Nat
  BY DEF IInv, SegmentInv, TypeOK
<1>2. wake[i] \in {"armed", "running", "woke"}
  BY <1>1 DEF IInv, WakeInv, Outside, TypeOK, Segments
<1>3. wake[i] # "woke"
  BY DEF CourseInv, Outside, WriteTimedOut
<1>4. wdl = Deadline /\ Deadline \in Nat
  BY <1>1, <1>2, <1>3, SegmentType DEF IInv, WakeInv, Outside
<1>5. now < Deadline
  BY <1>1, <1>4 DEF WriteTimedOut, None
<1>6. Deadline = Least(SegmentEnd[i], Outer)
  BY <1>1, NextBoundary DEF Deadline
<1>7. QED
  BY <1>1, <1>5, <1>6 DEF Segments

\* The wire after a system call, packet by packet.
LEMMA WireGrows ==
    ASSUME IInv, NEW n \in Nat, wire' = wire \o Burst(n)
    PROVE  /\ Len(wire) \in Nat /\ Len(wire') = Len(wire) + n
           /\ \A j \in 1 .. Len(wire) : wire'[j] = wire[j]
           /\ \A j \in Len(wire) + 1 .. Len(wire) + n :
                wire'[j].seg = i /\ wire'[j].at = now
<1>1. wire \in Seq(Packets) /\ Len(wire) \in Nat
  BY DEF IInv, TypeOK
<1>2. Burst(n) \in Seq(Packets) /\ Len(Burst(n)) = n
  <2>1. seq \in Nat /\ i \in Nat /\ now \in Nat
    BY DEF IInv, TypeOK
  <2>2. \A j \in 1 .. n : [seq |-> seq + j - 1, seg |-> i, at |-> now] \in Packets
    BY <2>1 DEF Packets
  <2>3. Burst(n) \in [1 .. n -> Packets]
    BY <2>2 DEF Burst
  <2>4. QED
    BY <2>3
<1>3. \A j \in 1 .. n : Burst(n)[j].seg = i /\ Burst(n)[j].at = now
  BY DEF Burst
<1>4. /\ Len(wire') = Len(wire) + Len(Burst(n))
      /\ \A j \in 1 .. Len(wire) + Len(Burst(n)) :
           wire'[j] = IF j <= Len(wire) THEN wire[j] ELSE Burst(n)[j - Len(wire)]
  BY <1>1, <1>2, ConcatProperties
<1>5. /\ \A j \in 1 .. Len(wire) : wire'[j] = wire[j]
      /\ \A j \in Len(wire) + 1 .. Len(wire) + n :
           wire'[j] = Burst(n)[j - Len(wire)]
  BY <1>1, <1>2, <1>4
<1>6. ASSUME NEW j \in Len(wire) + 1 .. Len(wire) + n
      PROVE  wire'[j].seg = i /\ wire'[j].at = now
  <2>1. j - Len(wire) \in 1 .. n
    BY <1>1
  <2>2. QED
    BY <1>3, <1>5, <2>1
<1>7. QED
  BY <1>1, <1>2, <1>4, <1>5, <1>6

LEMMA WireStep ==
    ASSUME IInv, CourseInv, WireInv, [Next]_vars
    PROVE  WireInv'
<1>1. CASE UNCHANGED vars
  <2>1. wire' = wire /\ i' = i /\ pc' = pc
    BY <1>1 DEF vars, segVars, recordVars
  <2>2. QED
    BY <2>1 DEF WireInv, NothingLate
<1>2. CASE Quiet
  <2>1. i \in Nat
    BY DEF IInv, TypeOK
  <2>2. \A j \in 1 .. Len(wire) : wire[j].seg \in Segments /\ wire[j].seg \in Nat
    BY DEF WireInv, Segments
  <2>3. QED
    BY <1>2, <2>1, <2>2, QuietWire DEF WireInv, NothingLate
<1>3. ASSUME NEW n \in 0 .. round, SendMsgs(n) PROVE WireInv'
  <2>1. /\ wire' = wire \o Burst(n) /\ i' = i /\ pc = "syscall" /\ ~WriteTimedOut
        /\ pc' \in {"batch", "tick"}
    BY <1>3 DEF SendMsgs, segVars, RoundReturns
  <2>2. n \in Nat /\ i \in Nat
    BY DEF IInv, TypeOK
  <2>3. /\ Len(wire) \in Nat /\ Len(wire') = Len(wire) + n
        /\ \A j \in 1 .. Len(wire) : wire'[j] = wire[j]
        /\ \A j \in Len(wire) + 1 .. Len(wire) + n :
             wire'[j].seg = i /\ wire'[j].at = now
    BY <2>1, <2>2, WireGrows
  <2>4. i \in Segments /\ now \in Nat /\ now < Least(SegmentEnd[i], Outer)
    BY <2>1, WriteInTime
  <2>5. ASSUME NEW j \in 1 .. Len(wire')
        PROVE  /\ wire'[j].seg \in Segments /\ wire'[j].seg <= i
               /\ wire'[j].at < Least(SegmentEnd[wire'[j].seg], Outer)
    <3>1. CASE j \in 1 .. Len(wire)
      BY <2>3, <3>1 DEF WireInv, NothingLate
    <3>2. CASE j \in Len(wire) + 1 .. Len(wire) + n
      BY <2>2, <2>3, <2>4, <3>2
    <3>3. QED
      BY <2>2, <2>3, <3>1, <3>2
  <2>6. QED
    BY <2>1, <2>5 DEF WireInv, NothingLate
<1>4. QED
  BY <1>1, <1>2, <1>3 DEF Quiet

\* The goal grows with the time.
LEMMA GoalGrows ==
    ASSUME NEW e \in Int, NEW d \in Nat, e <= d, NEW p \in Nat
    PROVE  numPacketsGoal(e, p) <= numPacketsGoal(d, p)
<1>1. numPacketsGoal(e, p) \in Nat /\ numPacketsGoal(d, p) \in Nat
  BY GoalNat
<1>2. CASE e <= 0
  BY <1>1, <1>2 DEF numPacketsGoal
<1>3. CASE e > 0
  <2>1. e * p \in Nat /\ d * p \in Nat /\ (d - e) * p \in Nat
    BY <1>3
  <2>2. d * p = e * p + (d - e) * p
    OBVIOUS
  <2>3. \A a, b \in Nat : a <= b => a \div Second <= b \div Second
    BY RateAssumption
  <2>4. (e * p) \div Second <= (d * p) \div Second
    BY <2>1, <2>2, <2>3
  <2>5. QED
    BY <1>3, <2>4 DEF numPacketsGoal
<1>4. QED
  BY <1>2, <1>3

\* What runSegment aims for is within what the whole segment allows.
LEMMA GoalWithin ==
    ASSUME TypeOK, i \in Segments
    PROVE  /\ rateSegmentGoal \in Nat
           /\ numPacketsGoal(Params[i].dur, Params[i].pps) \in Nat
           /\ rateSegmentGoal <= numPacketsGoal(Params[i].dur, Params[i].pps)
<1> DEFINE d == Params[i].dur
           p == Params[i].pps
           e == Least(now - boundary, d)
           goal == numPacketsGoal(e, p)
<1>1. d \in Nat /\ p \in Nat
  BY DurNat
<1>2. e \in Int /\ e <= d
  BY <1>1 DEF TypeOK, Least
<1>3. goal \in Nat /\ numPacketsGoal(d, p) \in Nat /\ goal <= numPacketsGoal(d, p)
  <2> HIDE DEF d, p, e
  <2>1. d \in Int
    BY <1>1
  <2>2. QED
    BY <1>1, <1>2, <2>1, GoalNat, GoalGrows
<1>4. rateSegmentGoal = goal - Least(goal, missed)
  BY DEF rateSegmentGoal
<1>5. missed \in Nat
  BY DEF TypeOK
<1> HIDE DEF goal
<1>6. rateSegmentGoal \in Nat /\ rateSegmentGoal <= goal
  BY <1>3, <1>4, <1>5 DEF Least
<1> HIDE DEF d, p
<1>7. rateSegmentGoal <= numPacketsGoal(d, p)
  BY <1>3, <1>6
<1>8. QED
  BY <1>3, <1>6, <1>7 DEF d, p

LEMMA SentFinite ==
    ASSUME TypeOK, NEW k
    PROVE  IsFiniteSet(SentIn(k)) /\ Cardinality(SentIn(k)) \in Nat
<1>1. Len(wire) \in Int /\ 1 \in Int
  BY DEF TypeOK
<1>2. IsFiniteSet(1 .. Len(wire))
  BY <1>1, FS_Interval
<1>3. SentIn(k) \in SUBSET (1 .. Len(wire))
  BY DEF SentIn
<1>4. IsFiniteSet(SentIn(k))
  BY <1>2, <1>3, FS_Subset
<1>5. QED
  BY <1>4, FS_CardinalityType

\* A system call adds n packets to its own segment, and none to the others.
LEMMA SentGrows ==
    ASSUME IInv, NEW n \in Nat, wire' = wire \o Burst(n), i \in Nat, i' = i
    PROVE  /\ Cardinality(SentIn(i)') = Cardinality(SentIn(i)) + n
           /\ \A k : k # i => SentIn(k)' = SentIn(k)
<1> DEFINE L == Len(wire)
           New == L + 1 .. L + n
<1>1. /\ L \in Nat /\ Len(wire') = L + n
      /\ \A j \in 1 .. L : wire'[j] = wire[j]
      /\ \A j \in New : wire'[j].seg = i
  BY WireGrows
<1>2. 1 .. Len(wire') = (1 .. L) \cup New
  BY <1>1
<1> HIDE DEF L, New
<1>3. SentIn(i)' = SentIn(i) \cup New
  BY <1>1, <1>2 DEF SentIn, L
<1>4. ASSUME NEW k, k # i PROVE SentIn(k)' = SentIn(k)
  BY <1>1, <1>2, <1>4 DEF SentIn, L
<1>5. SentIn(i) \cap New = {}
  BY <1>1 DEF SentIn, L, New
<1>6. IsFiniteSet(New) /\ Cardinality(New) = n
  <2>1. L + 1 \in Int /\ L + n \in Int /\ (L + 1 > L + n <=> n = 0)
        /\ (L + n) - (L + 1) + 1 = n
    BY <1>1
  <2>2. QED
    BY <2>1, FS_Interval DEF New
<1>7. IsFiniteSet(SentIn(i)) /\ Cardinality(SentIn(i)) \in Nat
  BY SentFinite DEF IInv
<1>8. Cardinality(SentIn(i) \cup New)
        = Cardinality(SentIn(i)) + Cardinality(New) - Cardinality(SentIn(i) \cap New)
  BY <1>6, <1>7, FS_Union
<1>9. Cardinality(SentIn(i) \cup New) = Cardinality(SentIn(i)) + n
  <2>1. Cardinality(SentIn(i) \cap New) = 0
    BY <1>5, FS_EmptySet
  <2>2. QED
    BY <1>6, <1>7, <1>8, <2>1
<1>10. QED
  BY <1>3, <1>4, <1>9

\* Steps that send nothing leave the counts alone, or start or end a round.
LEMMA CountQuiet ==
    ASSUME IInv, CourseInv, WireInv, CountInv, Quiet
    PROVE  CountInv'
<1> USE DEF timeVars, segVars, roundVars, recordVars, wakeVars
<1>1. TypeOK /\ SegmentInv
  BY DEF IInv
<1>2. wire' = wire
  BY QuietWire
<1>3. \A k : SentIn(k)' = SentIn(k)
  BY <1>2 DEF SentIn
<1>4. WithinRate'
  BY <1>3 DEF CountInv, WithinRate
<1>5. ASSUME pc' \notin {"tick", "batch", "send", "syscall"} PROVE CountInv'
  BY <1>4, <1>5 DEF CountInv
<1>6. ASSUME pc' = pc, i' = i, UNCHANGED <<numSent, left, sent>> PROVE CountInv'
  <2>1. SentIn(i)' = SentIn(i)
    BY <1>3, <1>6 DEF SentIn
  <2>2. QED
    BY <1>4, <1>6, <2>1 DEF CountInv
<1>7. CASE NextSegment \/ SkipSegment \/ SetDeadlineFails \/ ContextDone
           \/ LeaveSegment \/ EncodeFails \/ SendFails
  BY <1>5, <1>7 DEF NextSegment, SkipSegment, SetDeadlineFails, ContextDone,
     LeaveSegment, EncodeFails, SendFails
<1>8. CASE FireContext \/ StartWake \/ (\E k \in Segments : Wake(k)) \/ Advance
           \/ Cancel \/ (Ended /\ UNCHANGED vars)
  BY <1>6, <1>8 DEF FireContext, StartWake, Wake, Advance, Cancel, vars
<1>9. CASE EnterSegment
  <2>1. /\ pc = "enter" /\ i' = i /\ numSent' = 0 /\ pc' \in {"idle", "tick"}
    BY <1>9 DEF EnterSegment
  <2>2. SentIn(i) = {}
    <3>1. \A j \in 1 .. Len(wire) : wire[j].seg # i
      BY <1>1, <2>1 DEF WireInv, TypeOK, Segments
    <3>2. QED
      BY <3>1 DEF SentIn
  <2>3. SentIn(i)' = {}
    BY <1>2, <2>1, <2>2 DEF SentIn
  <2>4. QED
    BY <1>4, <2>1, <2>3, FS_EmptySet DEF CountInv
<1>10. CASE Tick
  <2>1. CASE pc' = "leave"
    BY <1>5, <2>1
  <2>2. CASE pc' # "leave"
    <3>1. /\ pc = "tick" /\ i' = i /\ numSent' = numSent /\ pc' = "batch"
          /\ numSent < rateSegmentGoal /\ sent' = 0
          /\ left' = rateSegmentGoal - numSent
      BY <1>10, <2>2 DEF Tick
    <3>2. i \in Segments /\ numSent \in Nat
      BY <1>1, <3>1 DEF SegmentInv, Segments, TypeOK
    <3>3. /\ rateSegmentGoal \in Nat
          /\ rateSegmentGoal <= numPacketsGoal(Params[i].dur, Params[i].pps)
      BY <1>1, <3>2, GoalWithin
    <3>4. SentIn(i)' = SentIn(i)
      BY <1>2, <3>1 DEF SentIn
    <3>5. numSent' + sent' + left' = rateSegmentGoal /\ numSent' + sent' = numSent
      BY <3>1, <3>2, <3>3
    <3>6. QED
      BY <1>4, <3>1, <3>3, <3>4, <3>5 DEF CountInv
  <2>3. QED
    BY <2>1, <2>2
<1>11. CASE Batch \/ CheckBeforeSend \/ SendTimesOut
  <2>1. pc \in {"batch", "send", "syscall"} /\ i' = i
    BY <1>11 DEF Batch, CheckBeforeSend, SendTimesOut
  <2>2. SentIn(i)' = SentIn(i)
    BY <1>2, <2>1 DEF SentIn
  <2>3. CASE pc' = "tick" /\ numSent' = numSent + sent
    BY <1>4, <2>1, <2>2, <2>3 DEF CountInv
  <2>4. CASE pc' \in {"send", "syscall"} /\ UNCHANGED <<numSent, left, sent>>
    BY <1>4, <2>1, <2>2, <2>4 DEF CountInv
  <2>5. QED
    BY <1>11, <2>3, <2>4 DEF Batch, CheckBeforeSend, SendTimesOut, RoundReturns
<1>12. QED
  BY <1>7, <1>8, <1>9, <1>10, <1>11 DEF Quiet, Next, SenderStep, CallbackStep

LEMMA CountSend ==
    ASSUME IInv, CourseInv, WireInv, CountInv, NEW n \in 0 .. round, SendMsgs(n)
    PROVE  CountInv'
<1> DEFINE goal == numPacketsGoal(Params[i].dur, Params[i].pps)
<1>1. /\ wire' = wire \o Burst(n) /\ i' = i /\ pc = "syscall"
      /\ sent' = sent + n /\ left' = left - n
      /\ \/ pc' = "batch" /\ numSent' = numSent
         \/ pc' = "tick" /\ numSent' = numSent + (sent + n)
  BY DEF SendMsgs, segVars, RoundReturns
<1>2. /\ n \in Nat /\ n <= left /\ i \in Segments /\ i \in Nat
      /\ numSent \in Nat /\ sent \in Nat /\ left \in Nat
  BY <1>1 DEF IInv, TypeOK, SegmentInv, Segments, Building
<1>3. /\ Cardinality(SentIn(i)') = Cardinality(SentIn(i)) + n
      /\ \A k : k # i => SentIn(k)' = SentIn(k)
  BY <1>1, <1>2, SentGrows
<1>4. Cardinality(SentIn(i)) = numSent + sent /\ numSent + sent + left <= goal
  BY <1>1 DEF CountInv
<1>5. goal \in Nat
  BY <1>2, GoalWithin DEF IInv
<1> HIDE DEF goal
<1>6. /\ Cardinality(SentIn(i)') = numSent + sent + n
      /\ numSent + sent + n <= goal
  BY <1>2, <1>3, <1>4, <1>5
<1>7. WithinRate'
  <2>1. ASSUME NEW k \in 1 .. Len(Params)
        PROVE  Cardinality(SentIn(k)')
                 <= numPacketsGoal(Params[k].dur, Params[k].pps)
    <3>1. CASE k = i
      BY <1>1, <1>6, <3>1 DEF goal, SentIn
    <3>2. CASE k # i
      BY <1>3, <3>2 DEF CountInv, WithinRate
    <3>3. QED
      BY <3>1, <3>2
  <2>2. QED
    BY <2>1 DEF WithinRate
<1>8. pc' = "tick" => Cardinality(SentIn(i))' = numSent'
  BY <1>1, <1>2, <1>6
<1>9. pc' = "batch" => /\ Cardinality(SentIn(i))' = numSent' + sent'
                        /\ numSent' + sent' + left' <= goal
  BY <1>1, <1>2, <1>4, <1>5, <1>6
<1>10. QED
  BY <1>1, <1>7, <1>8, <1>9 DEF CountInv, goal

LEMMA PaceAlways == Spec => []PaceInv
<1>1. IInv /\ PaceInv /\ [Next]_vars => PaceInv'
  <2> SUFFICES ASSUME IInv, PaceInv, [Next]_vars PROVE PaceInv'
    OBVIOUS
  <2>1. CourseInv'
    BY CourseStep DEF PaceInv
  <2>2. WireInv'
    BY WireStep DEF PaceInv
  <2>3. CountInv'
    <3>1. CASE Quiet
      BY <3>1, CountQuiet DEF PaceInv
    <3>2. CASE \E n \in 0 .. round : SendMsgs(n)
      BY <3>2, CountSend DEF PaceInv
    <3>3. CASE UNCHANGED vars
      BY <3>3 DEF PaceInv, CountInv, WithinRate, SentIn, vars, segVars,
                  roundVars, recordVars
    <3>4. QED
      BY <3>1, <3>2, <3>3 DEF Quiet
  <2>4. QED
    BY <2>1, <2>2, <2>3 DEF PaceInv
<1>2. QED
  BY <1>1, PaceInit, Invariant, PTL DEF Spec

\* What a segment sends stays within its rate and within its time, for any list
\* of segments: debt from a late start is written off by missed, a round adds no
\* more than the goal leaves, and the write deadline stops a system call that
\* was held up past the last check.
THEOREM SegmentsAreRespected == Spec => []SegmentsRespected
<1>1. PaceInv => SegmentsRespected
  BY DEF PaceInv, WireInv, CountInv, SegmentsRespected
<1>2. QED
  BY <1>1, PaceAlways, PTL
=============================================================================
