----------------------------- MODULE MCProcedures -----------------------------
(***************************************************************************)
(* The registered defaults, with fewer of those values that only lengthen  *)
(* the permutations: a congestion control or a rate has no influence on    *)
(* the time.  rampupprobe is given longer durations by an override, one of *)
(* them twice, and plans too many tests; packetdur is given a zero.  The   *)
(* clock is read just before and just after the half second at which       *)
(* NextRI moves on, on a boundary, and near a full minute.                 *)
(***************************************************************************)
EXTENDS Procedures

MCParams ==
  [tcpDurations |-> <<4000>>, ccas |-> <<"cubic", "bbr1", "leocc">>,
   quicDurations |-> <<100, 400, 1000, 5000>>,
   rates |-> <<140, 500>>, rateDurations |-> <<1000, 4000>>,
   mice |-> <<1, 5, 10>>, packetDurations |-> <<0, 10, 100, 200, 350, 400>>,
   packets |-> <<1400>>,
   offsets |-> {100 * i : i \in 0 .. 7}, switchRates |-> {200, 250, 300, 700},
   progDurations |-> <<100, 200, 300, 350, 400, 450, 500>>,
   rampDurations |-> <<400, 6000, 400, 7000>>,
   step |-> 50, max |-> 600,
   coolDowns |-> {0, 10, 100, 200, 300, 380, 390},
   duration |-> 60000]

MCNows == {11400, 11600, 27000, 59700}
=============================================================================
