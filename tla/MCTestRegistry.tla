--------------------------- MODULE MCTestRegistry ---------------------------
(***************************************************************************)
(* Instances of TestRegistry: which calls are made, and with which IDs.    *)
(***************************************************************************)
EXTENDS TestRegistry

CONSTANTS t1, t2, t3, r1, r2, r3, a1, i1, i2

\* t2 is a command, the other tests are measurements.
Kinds == [t \in Tests |-> IF t = t2 THEN "command" ELSE "server"]

\* Unique IDs; a third start call comes without one.
DistinctIds ==
    [t \in Tests |-> CASE t = t1 -> i1 [] t = t2 -> i2 [] OTHER -> EmptyId]

\* A third start call carries the ID of the first.
DuplicateIds == [t \in Tests |-> IF t = t2 THEN i2 ELSE i1]

\* r3 asks for the command, the others for the measurement.
ReadServerTwice == [r \in Readers |-> IF r = r3 THEN i2 ELSE i1]

\* r1 asks for the measurement, the others for the command.
ReadCommandTwice == [r \in Readers |-> IF r = r1 THEN i1 ELSE i2]

AbortServer == [a \in Aborters |-> i1]
AbortCommand == [a \in Aborters |-> i2]
=============================================================================
