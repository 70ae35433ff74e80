------------------------------- MODULE IcmpTest -------------------------------
(***************************************************************************)
(* An ICMP test: ICMPSender numbers its packets modulo SeqSpace,           *)
(* ICMPReceiver picks them out of everything that arrives at the host and  *)
(* extends the numbers again.  On a downlink test the server first waits   *)
(* for the probe of the client (waitForICMPProbe), which tells it the echo *)
(* ID that the client's NAT has chosen.                                    *)
(*                                                                         *)
(* A message is the record of the fields that the filters look at: the     *)
(* type, the ID of the header, the ID and the punch mark in the data, and  *)
(* the sequence number.                                                    *)
(***************************************************************************)
EXTENDS Integers

CONSTANTS SeqSpace,   \* 2^16
          LowSeq,     \* 10000: such a small number may be one after a wrap
          IcmpWindow, \* a packet is overtaken by at most so many others
          IcmpLosses, \* packets lost of one cycle of sequence numbers, at most
          MaxIcmp     \* the number of packets of a test

Half == SeqSpace \div 2

ASSUME IcmpAssumption ==
  /\ SeqSpace \in Nat /\ LowSeq \in Nat /\ IcmpWindow \in Nat
  /\ IcmpLosses \in Nat /\ MaxIcmp \in Nat
  /\ IcmpLosses + IcmpWindow < LowSeq
  /\ Half + IcmpLosses + IcmpWindow < SeqSpace
  /\ LowSeq + 2 * IcmpWindow <= Half + 1

VARIABLES
  iUplink,  \* the client sends
  iMain,    \* off, probe, run, ended, or failed
  iSndID,   \* SenderEchoID at the sender, 0 before it is known
  iSent,    \* how many packets have been sent
  iFlight,  \* the numbers of those that are on their way
  iLost,    \* how many of the current cycle are lost
  iBase,    \* baseSeq
  iSince,   \* receivedSinceWrap
  iHigh,    \* the highest number that has arrived, -1 for none
  iLast     \* the last record: the packet it is of, and Seq

icmpVars == <<iUplink, iMain, iSndID, iSent, iFlight, iLost, iBase, iSince,
              iHigh, iLast>>
IcmpReceiverVars == <<iBase, iSince, iHigh, iLast>>

OwnID == 1    \* ClientEchoID
NatID == 2    \* what the NAT makes of it
OtherID == 3  \* the ID of another test, or of a ping

IcmpIdle ==
  /\ iUplink = FALSE /\ iMain = "off" /\ iSndID = 0
  /\ iSent = 0 /\ iFlight = {} /\ iLost = 0
  /\ iBase = 0 /\ iSince = 0 /\ iHigh = -1 /\ iLast = [of |-> -1, seq |-> -1]

IcmpRequest ==
  /\ iMain = "off"
  /\ iUplink' \in BOOLEAN
  /\ iMain' = IF iUplink' THEN "run" ELSE "probe"
  /\ iSndID' = IF iUplink' THEN OwnID ELSE 0
  /\ UNCHANGED <<iSent, iFlight, iLost, IcmpReceiverVars>>

\* What else arrives at a host: the kernel's answers to the probes of this test
\* and to other pings, the probes and the packets of other tests.
IcmpNoise ==
  {[type |-> "reply", id |-> OwnID, data |-> OwnID, punch |-> TRUE],
   [type |-> "reply", id |-> OtherID, data |-> OtherID, punch |-> FALSE],
   [type |-> "echo", id |-> OtherID, data |-> OtherID, punch |-> TRUE],
   [type |-> "echo", id |-> OtherID, data |-> OtherID, punch |-> FALSE],
   [type |-> "unreachable", id |-> OtherID, data |-> OtherID, punch |-> FALSE]}

(***************************************************************************)
(* waitForICMPProbe.                                                       *)
(***************************************************************************)
IsProbe(m) == m.type = "echo" /\ m.punch /\ m.data = OwnID

IcmpProbe ==
  /\ iMain = "probe"
  /\ \E m \in IcmpNoise \cup
        {[type |-> "echo", id |-> NatID, data |-> OwnID, punch |-> TRUE]} :
       /\ IsProbe(m)
       /\ iSndID' = m.id
  /\ iMain' = "run"
  /\ UNCHANGED <<iUplink, iSent, iFlight, iLost, IcmpReceiverVars>>

\* The first-contact deadline, or an abort.
IcmpNoProbe ==
  /\ iMain = "probe" /\ iMain' = "failed"
  /\ UNCHANGED <<iUplink, iSndID, iSent, iFlight, iLost, IcmpReceiverVars>>

(***************************************************************************)
(* ICMPSender.Run, one tick; the network may lose the packet.  A packet in *)
(* flight keeps those behind it from being sent once IcmpWindow of them    *)
(* have been.                                                              *)
(***************************************************************************)
IcmpSend ==
  /\ iMain = "run" /\ iSent < MaxIcmp
  /\ \A n \in iFlight : iSent - n <= IcmpWindow
  /\ iSent' = iSent + 1
  /\ LET before == IF iSent % SeqSpace = 0 THEN 0 ELSE iLost IN
       \/ iFlight' = iFlight \cup {iSent} /\ iLost' = before
       \/ before < IcmpLosses /\ iLost' = before + 1 /\ UNCHANGED iFlight
  /\ UNCHANGED <<iUplink, iMain, iSndID, IcmpReceiverVars>>

(***************************************************************************)
(* ICMPReceiver.receive.                                                   *)
(***************************************************************************)
\* The server listens for requests, the client for replies.
Matches(m) ==
  /\ m.type = (IF iUplink THEN "echo" ELSE "reply")
  /\ ~m.punch
  /\ m.data = OwnID

\* Mutant of Wraps: any small number is one after a wrap.
WrapsAlways(seq) == seq < LowSeq

Wraps(seq) == iSince > Half /\ seq < LowSeq

\* Message m, which is packet n of the test or, for -1, something else.
IcmpReceive(m, n) ==
  IF Matches(m)
  THEN LET wrap == Wraps(m.seq)
           base == IF wrap THEN iBase + SeqSpace ELSE iBase
       IN /\ iBase' = base
          /\ iSince' = IF wrap THEN 1 ELSE iSince + 1
          /\ iLast' = [of |-> n, seq |-> base + m.seq]
          /\ iHigh' = IF n > iHigh THEN n ELSE iHigh
  ELSE UNCHANGED IcmpReceiverVars

\* Through a NAT only packets with the NAT's ID reach the client.
IcmpArrives(n) ==
  /\ iMain = "run" /\ n \in iFlight
  /\ iFlight' = iFlight \ {n}
  /\ IF iUplink \/ iSndID = NatID
     THEN IcmpReceive([type |-> IF iUplink THEN "echo" ELSE "reply",
                       id |-> OwnID, data |-> OwnID, punch |-> FALSE,
                       seq |-> n % SeqSpace], n)
     ELSE UNCHANGED IcmpReceiverVars
  /\ UNCHANGED <<iUplink, iMain, iSndID, iSent, iLost>>

IcmpNoiseArrives(m) ==
  /\ iMain = "run"
  /\ IcmpReceive([type |-> m.type, id |-> m.id, data |-> m.data,
                  punch |-> m.punch, seq |-> 0], -1)
  /\ UNCHANGED <<iUplink, iMain, iSndID, iSent, iFlight, iLost>>

\* One message that cannot be parsed ends the test with an error.
IcmpMalformed ==
  /\ iMain = "run" /\ iMain' = "failed"
  /\ UNCHANGED <<iUplink, iSndID, iSent, iFlight, iLost, IcmpReceiverVars>>

IcmpOver ==
  /\ iMain = "run" /\ iMain' = "ended"
  /\ UNCHANGED <<iUplink, iSndID, iSent, iFlight, iLost, IcmpReceiverVars>>

IcmpNext ==
  \/ IcmpRequest \/ IcmpProbe \/ IcmpNoProbe
  \/ IcmpSend \/ \E n \in iFlight : IcmpArrives(n)
  \/ \E m \in IcmpNoise : IcmpNoiseArrives(m)
  \/ IcmpMalformed \/ IcmpOver

Cycle(n) == n \div SeqSpace

\* While losses and reordering stay within IcmpAssumption, the receiver extends
\* the numbers once per cycle, neither early nor twice, however packets overtake each
\* other around the wrap; every record is of a packet of this test, and its
\* number is that packet's, unless the packet was overtaken by one of the next
\* cycle: then the record is a whole cycle too high.
IcmpNumbering ==
  iLast.of # -1 \/ iLast.seq # -1 =>
    /\ iLast.of \in 0..(iSent - 1)
    /\ iBase = SeqSpace * Cycle(iHigh)
    /\ iLast.seq = iLast.of + SeqSpace * (Cycle(iHigh) - Cycle(iLast.of))

=============================================================================
