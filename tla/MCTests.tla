------------------------------- MODULE MCTests -------------------------------
(***************************************************************************)
(* The kinds of tests the server and the client can run between them, each *)
(* a module of its own, and what the client makes of the result.  The      *)
(* tests of an invocation share no state but the registry (TestRegistry),  *)
(* so one behaviour runs one test: whichever request is the first.         *)
(***************************************************************************)
EXTENDS TcpTransfer, QuicTransfer, CommandRun, IcmpTest, ResultRows

testVars == <<tcpVars, quicVars, cmdVars, icmpVars, resVars>>

Init == TcpIdle /\ QuicIdle /\ CmdIdle /\ IcmpIdle /\ ResIdle

Next ==
  \/ /\ QuicIdle /\ CmdIdle /\ IcmpIdle /\ ResIdle
     /\ TcpNext /\ UNCHANGED <<quicVars, cmdVars, icmpVars, resVars>>
  \/ /\ TcpIdle /\ CmdIdle /\ IcmpIdle /\ ResIdle
     /\ QuicNext /\ UNCHANGED <<tcpVars, cmdVars, icmpVars, resVars>>
  \/ /\ TcpIdle /\ QuicIdle /\ IcmpIdle /\ ResIdle
     /\ CmdNext /\ UNCHANGED <<tcpVars, quicVars, icmpVars, resVars>>
  \/ /\ TcpIdle /\ QuicIdle /\ CmdIdle /\ ResIdle
     /\ IcmpNext /\ UNCHANGED <<tcpVars, quicVars, cmdVars, resVars>>
  \/ /\ TcpIdle /\ QuicIdle /\ CmdIdle /\ IcmpIdle
     /\ ResNext /\ UNCHANGED <<tcpVars, quicVars, cmdVars, icmpVars>>

Spec == Init /\ [][Next]_testVars /\ TcpFair /\ QuicFair /\ CmdFair
=============================================================================
