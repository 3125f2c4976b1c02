-------------------------- MODULE SessionRefinement --------------------------
(* Connection with one task implements Session.                            *)
EXTENDS Connection

Caller == CHOOSE t \in Tasks : TRUE

Streams ==
    /\ bleak # None
    /\ link[bleak] = "up"
    /\ bleak \in verified \cap subscribed

\* The state of Session that a state of Connection stands for.
Phase ==
    IF pc[Caller] # "idle" THEN "busy"
    ELSE IF bleak = None THEN "closed"
    ELSE IF Streams THEN "open" ELSE "half"
Goal    == IF op[Caller] = "close" THEN "closed" ELSE "open"
Outcome == IF pc[Caller] # "idle" THEN "none" ELSE exc[Caller]

Promise == INSTANCE Session WITH
    phase <- Phase, goal <- Goal, outcome <- Outcome

\* However its bleak calls end, the client does nothing Session rules out: a
\* call that returns normally leaves a streaming link or none, one that raises
\* leaves nothing, and only a cancelled call leaves something in between; no
\* link comes up, and no client goes away, between two calls.
ImplementsSession == Promise!Spec
=============================================================================
