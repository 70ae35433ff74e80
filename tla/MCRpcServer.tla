---------------------------- MODULE MCRpcServer ----------------------------
(***************************************************************************)
(* RpcServer with a few interchangeable clients.                           *)
(***************************************************************************)
EXTENDS RpcServer, TLC

Symm == Permutations(Clients)
=============================================================================
