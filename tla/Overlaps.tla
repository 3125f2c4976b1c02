------------------------------ MODULE Overlaps -------------------------------
(***************************************************************************)
(* Connection with a memory of which calls were overlapped.  Calls that    *)
(* run into each other may forget a live client, strand a link or raise    *)
(* AttributeError; the next call that nobody overlaps has to cope with     *)
(* what they left and to keep what the docstrings promise.                 *)
(***************************************************************************)
EXTENDS Connection

VARIABLE overlapped   \* tasks whose present call another one's overlaps

overlapVars == <<vars, overlapped>>

Busy == {t \in Tasks : pc[t] # "idle"}

OverlapInit == Init /\ overlapped = {}

OverlapNext ==
    /\ Next
    /\ overlapped' = {t \in Busy' : t \in overlapped \/ Busy' # {t}}

OverlapSpec == OverlapInit /\ [][OverlapNext]_overlapVars

-----------------------------------------------------------------------------
(* Properties.                                                             *)

\* A step of a call, or its return, that nobody's call has overlapped so far.
Unshared(t) == t \in Busy /\ t \notin overlapped /\ t \notin overlapped'

\* AttributeError and RuntimeError, which no docstring names, reach only
\* callers whose call was overlapped: what earlier overlaps did to self._bleak
\* does not surface in a later call.
SurprisesNeedOverlap ==
    [][\A t \in Tasks : Unshared(t) => exc'[t] \notin Surprises]_overlapVars

\* A call that nobody overlaps and that returns normally has a live, verified
\* link that sends notifications, whatever overlapping calls left behind: a
\* half-open client, one forgotten with its link up, one entered twice.
AloneIsStreaming ==
    [][\A t \in Tasks :
          Unshared(t) /\ op[t] # "close" /\ Returns(t, "none") =>
             /\ bleak' # None
             /\ link'[bleak'] = "up"
             /\ bleak' \in verified' \cap subscribed']_overlapVars

\* A call that nobody overlaps lets go of a client, be it one that another call
\* left half open, only with its link down or after a failed disconnect, and
\* when it fails or is close() there is none left.
AloneLeavesNothing ==
    [][\A t \in Tasks : Unshared(t) =>
          /\ bleak # None /\ bleak' # bleak =>
                 link'[bleak] = "down" \/ bleak \in stranded'
          /\ \A e \in Outcomes \ {"Cancelled"} :
                Returns(t, e) /\ (e # "none" \/ op[t] = "close") =>
                   bleak' = None]_overlapVars
=============================================================================
