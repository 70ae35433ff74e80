------------------------------ MODULE MCServer ------------------------------
(***************************************************************************)
(* The two parts of a server that serves requests: its RPC front and the   *)
(* registry of its tests.  They share nothing but the server's context,    *)
(* which each part declares for itself, and the calls, which the front     *)
(* knows only as pending or not; so one behaviour exercises one part,      *)
(* whichever moves first, and the other stays as it starts.                *)
(***************************************************************************)
EXTENDS MCTestRegistry, RpcServer

serverVars == <<vars, rpcVars>>

ServerInit == Init /\ RpcInit

ServerNext ==
    \/ RpcInit /\ Next /\ UNCHANGED rpcVars
    \/ Init /\ RpcNext /\ UNCHANGED vars

ServerSpec ==
    ServerInit /\ [][ServerNext]_serverVars /\ GoFairness /\ RpcFairness
=============================================================================
