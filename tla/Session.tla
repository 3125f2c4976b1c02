------------------------------- MODULE Session -------------------------------
(***************************************************************************)
(* What BrymenbleClient promises a caller that makes one life-cycle call   *)
(* at a time (transport.py), without the bleak calls it takes: the README  *)
(* and the docstrings of ensure_connected, reconnect and close.  Module    *)
(* SessionRefinement shows that Connection implements it; module App uses  *)
(* it in place of Connection.                                              *)
(***************************************************************************)

VARIABLES
    phase,     \* the client: see Phases; "busy" while a call is in progress
    goal,      \* what the last call is for: an open or a closed connection
    outcome    \* how the last call ended; "none": normally

sessionVars == <<phase, goal, outcome>>

\* closed: no client object; open: link up, password verified, notifying;
\* half: a client object is held, but it does not stream.
Phases   == {"closed", "busy", "open", "half"}
Failures == {"ConnectionError", "CommandError", "ValueError"}

Init == phase = "closed" /\ goal = "closed" /\ outcome = "none"

\* A caller starts a call.  close() may find nothing to do and return at once.
Call(g) ==
    /\ phase # "busy"
    /\ goal' = g /\ outcome' = "none"
    /\ phase' = "busy" \/ (g = "closed" /\ phase = "closed" /\ phase' = "closed")

\* A call ends in phase p with outcome e.
Ends(p, e) ==
    /\ phase = "busy"
    /\ phase' = p /\ outcome' = e
    /\ UNCHANGED goal

Succeeds == goal = "open" /\ Ends("open", "none")
Fails(e) == goal = "open" /\ Ends("closed", e)
Releases == goal = "closed" /\ Ends("closed", "none")

\* Cancelled, a call may leave a client behind; close() always does.
Interrupted ==
    \E p \in Phases \ {"busy"} :
        /\ goal = "closed" => p # "closed"
        /\ Ends(p, "Cancelled")

\* The link goes down and nobody is told.
Drop ==
    /\ phase = "open"
    /\ phase' = "half"
    /\ UNCHANGED <<goal, outcome>>

Next ==
    \/ \E g \in {"open", "closed"} : Call(g)
    \/ Succeeds \/ Releases \/ Interrupted \/ Drop
    \/ \E e \in Failures : Fails(e)

Spec == Init /\ [][Next]_sessionVars
=============================================================================
