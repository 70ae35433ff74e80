--------------------------- MODULE MCUdpDownlink ----------------------------
(***************************************************************************)
(* Instance of UdpDownlink: a test with a StartAt and one without, and a   *)
(* server whose clock is ahead by the whole margin, or behind.             *)
(***************************************************************************)
EXTENDS UdpDownlink

WithAndWithoutStart == {None, 1}

AheadOrBehind == {-1, 1}
=============================================================================
