---------------------------- MODULE MCInvocation ----------------------------
(***************************************************************************)
(* Invocation with model values for the measurements.                      *)
(***************************************************************************)
EXTENDS Invocation, TLC

CONSTANTS udp, tcp, dump
TwoClients == {udp, dump}
ThreeClients == {udp, tcp, dump}
LocalDump == {dump}
=============================================================================
