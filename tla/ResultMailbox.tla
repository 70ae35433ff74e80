--------------------------- MODULE ResultMailbox ---------------------------
(***************************************************************************)
(* What a client may rely on when it starts a test on the server and asks  *)
(* for its result later: an accepted test owes one result, the result gets *)
(* ready once, and one retrieval call takes it.  How the server keeps that *)
(* promise with maps, channels and a lock is TestRegistry's business.      *)
(***************************************************************************)
CONSTANTS Tests, Readers

VARIABLES
    stage,   \* test -> "none", "owed", "ready" or "taken"
    takers   \* test -> the retrieval calls that were given its result

vars == <<stage, takers>>

Init ==
    /\ stage = [t \in Tests |-> "none"]
    /\ takers = [t \in Tests |-> {}]

\* The server accepts the test.
Accept(t) ==
    /\ stage[t] = "none"
    /\ stage' = [stage EXCEPT ![t] = "owed"]
    /\ UNCHANGED takers

\* The test delivers its one result.
Deliver(t) ==
    /\ stage[t] = "owed"
    /\ stage' = [stage EXCEPT ![t] = "ready"]
    /\ UNCHANGED takers

\* A retrieval call takes the result.
Take(r, t) ==
    /\ stage[t] = "ready"
    /\ stage' = [stage EXCEPT ![t] = "taken"]
    /\ takers' = [takers EXCEPT ![t] = {r}]

Next ==
    \E t \in Tests :
        \/ Accept(t)
        \/ Deliver(t)
        \/ \E r \in Readers : Take(r, t)

Spec == Init /\ [][Next]_vars
=============================================================================
