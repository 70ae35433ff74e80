------------------------------ MODULE ResultRows ------------------------------
(***************************************************************************)
(* How SenderClient.Gather matches what was sent with what was received:   *)
(* processUDP, which walks both lists at once, and generateUDPResultRows,  *)
(* which lays the results out in rows.  One step is one round of the loop, *)
(* so any input the two ends can produce is run through it: lost packets,  *)
(* copies, packets out of order, and numbers beyond the last packet sent   *)
(* (the sender was stopped before it recorded them).                       *)
(*                                                                         *)
(* A received message is its number and the time of its arrival; of a sent *)
(* one only its position counts, for its Seq is never looked at.  A cell   *)
(* is a number, a time, or Empty.                                          *)
(***************************************************************************)
EXTENDS Integers, Sequences, FiniteSets, Functions

CONSTANTS MaxSentRows, \* packets sent, at most
          MaxRcvdRows, \* messages received, at most
          ResTimes     \* times of arrival

Empty == 0  \* the zero time, and an empty cell

ASSUME ResAssumption ==
  /\ MaxSentRows \in Nat /\ MaxRcvdRows \in Nat
  /\ ResTimes \subseteq Nat \ {Empty}

Rcvd == [seq : 0..MaxSentRows, ts : ResTimes]

VARIABLES
  rPhase,   \* off, match, rows, done
  rSent,    \* len(sent)
  rInput,   \* the messages as the receiver recorded them
  rRcvd,    \* the same, sorted
  rIdx,     \* resultIdx, counted from 1
  rResults, \* results
  rRows     \* the rows, the header's width first

resVars == <<rPhase, rSent, rInput, rRcvd, rIdx, rResults, rRows>>

ResIdle ==
  /\ rPhase = "off" /\ rSent = 0 /\ rInput = <<>> /\ rRcvd = <<>> /\ rIdx = 1
  /\ rResults = <<>> /\ rRows = <<>>

\* Mutant of Sorted: the messages stay in the order of their arrival.
Unsorted(s) == {s}

\* The order given to sort.Slice.
Precedes(a, b) == a.seq < b.seq \/ (a.seq = b.seq /\ a.ts < b.ts)

\* What sort.Slice promises of its result: it is a rearrangement in which no
\* message comes after one that it precedes.
Sorted(s) ==
  {t \in {[i \in DOMAIN s |-> s[p[i]]] : p \in Bijection(DOMAIN s, DOMAIN s)} :
     \A i, j \in DOMAIN s : i < j => ~Precedes(t[j], t[i])}

ResRequest ==
  /\ rPhase = "off" /\ rPhase' = "match"
  /\ rSent' \in 0..MaxSentRows
  /\ \E k \in 0..MaxRcvdRows : rInput' \in [1..k -> Rcvd]
  /\ rRcvd' \in Sorted(rInput')
  /\ UNCHANGED <<rIdx, rResults, rRows>>

\* How far the inner loop gets: the first index from i on with another number.
SkipCopies(i, seq) ==
  CHOOSE j \in i..(Len(rRcvd) + 1) :
    /\ \A k \in i..(j - 1) : rRcvd[k].seq = seq
    /\ j = Len(rRcvd) + 1 \/ rRcvd[j].seq # seq

\* The round of the loop for sequence number seq.
Match(seq) ==
  IF rIdx > Len(rRcvd) \/ seq < rRcvd[rIdx].seq
  THEN /\ rResults' = Append(rResults,
            [seq |-> seq, ts |-> Empty, lost |-> TRUE, dups |-> <<>>])
       /\ UNCHANGED rIdx
  ELSE IF seq = rRcvd[rIdx].seq
  THEN LET next == SkipCopies(rIdx + 1, seq) IN
       /\ rResults' = Append(rResults,
            [seq |-> seq, ts |-> rRcvd[rIdx].ts, lost |-> FALSE,
             dups |-> [n \in 1..(next - rIdx - 1) |-> rRcvd[rIdx + n].ts]])
       /\ rIdx' = next
  ELSE /\ rResults' = Append(rResults,
            [seq |-> 0, ts |-> Empty, lost |-> FALSE, dups |-> <<>>])
       /\ UNCHANGED rIdx

ResMatch ==
  /\ rPhase = "match"
  /\ IF Len(rResults) < rSent
     THEN Match(Len(rResults)) /\ UNCHANGED rPhase
     ELSE rPhase' = "rows" /\ UNCHANGED <<rIdx, rResults>>
  /\ UNCHANGED <<rSent, rInput, rRcvd, rRows>>

MaxDups ==
  CHOOSE n \in 0..MaxRcvdRows :
    /\ \A i \in DOMAIN rResults : Len(rResults[i].dups) <= n
    /\ n = 0 \/ \E i \in DOMAIN rResults : Len(rResults[i].dups) = n

\* seq, ts_rcvd, lost, dup_count, and one cell for each possible copy.
Row(r) ==
  <<r.seq, r.ts, r.lost, Len(r.dups)>>
    \o [n \in 1..MaxDups |-> IF n <= Len(r.dups) THEN r.dups[n] ELSE Empty]

ResRows ==
  /\ rPhase = "rows" /\ rPhase' = "done"
  /\ rRows' = <<4 + MaxDups>> \o [i \in DOMAIN rResults |-> Row(rResults[i])]
  /\ UNCHANGED <<rSent, rInput, rRcvd, rIdx, rResults>>

ResNext == ResRequest \/ ResMatch \/ ResRows

\* The row is true of packet p: it is lost exactly if no message with its number
\* arrived, its time is that of the first copy, and every other copy has its
\* cell, in order of time.
TrueRow(row, p) ==
  LET copies == {i \in DOMAIN rInput : rInput[i].seq = p}
      extra == SubSeq(row, 5, Len(row))
  IN /\ row[1] = p
     /\ row[3] = (copies = {})
     /\ row[4] = (IF copies = {} THEN 0 ELSE Cardinality(copies) - 1)
     /\ copies # {} =>
          /\ \A i \in copies : row[2] <= rInput[i].ts
          /\ \A t \in ResTimes :
               Cardinality({i \in copies : rInput[i].ts = t}) =
                 Cardinality({n \in 1..row[4] : extra[n] = t})
                   + (IF row[2] = t THEN 1 ELSE 0)
     /\ \A n \in 1..(row[4] - 1) : extra[n] <= extra[n + 1]

\* Whatever was received in whatever order, there is one row per packet sent,
\* each row is true of its packet, and all rows are as wide as the header;
\* numbers beyond the last packet sent do not shift any row.
RowsTruthful ==
  rPhase = "done" =>
    /\ Len(rRows) = 1 + rSent
    /\ \A p \in 0..(rSent - 1) :
         Len(rRows[p + 2]) = rRows[1] /\ TrueRow(rRows[p + 2], p)
=============================================================================
