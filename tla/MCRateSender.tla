---------------------------- MODULE MCRateSender ----------------------------
(***************************************************************************)
(* RateSender with a rate that does not divide evenly, an empty segment, a *)
(* pause, and another rate.                                                *)
(***************************************************************************)
EXTENDS RateSender

FourSegments == <<[dur |-> 2, pps |-> 5], [dur |-> 0, pps |-> 2],
                  [dur |-> 1, pps |-> 0], [dur |-> 3, pps |-> 3]>>

TwoSegments == <<[dur |-> 2, pps |-> 5], [dur |-> 1, pps |-> 2]>>
=============================================================================
