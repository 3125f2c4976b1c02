----------------------------- MODULE ReadStream -----------------------------
(***************************************************************************)
(* BrymenbleClient.read_stream (transport.py): the loop that tells a meter *)
(* that pauses from one that has gone.  It waits for frames with a         *)
(* timeout, waits a pause out while the link is up, confirms a drop after  *)
(* a grace period and reconnects through ensure_connected.                 *)
(*                                                                         *)
(* Time is counted in ticks.  ensure_connected is taken as a whole: it     *)
(* ends with a link and an empty queue, or with an exception (Connection   *)
(* models its inside).                                                     *)
(***************************************************************************)
EXTENDS Integers

CONSTANTS
    NoDataTimeout,  \* no_data_timeout, in ticks
    LinkDownGrace,  \* link_down_grace, in ticks
    PauseCap,       \* pause_cap, in ticks, or Never
    Never           \* pause_cap=None; also pause_since=None

ASSUME TimeoutAssumption ==
    /\ NoDataTimeout \in Nat \ {0}
    /\ LinkDownGrace \in Nat
    /\ PauseCap \in (Nat \ {0}) \cup {Never}
ASSUME NeverAssumption == Never \notin Nat

VARIABLES
    bleak,       \* self._bleak is not None
    link,        \* what is_connected reports
    fresh,       \* the queue holds a frame
    old,         \* the wait in progress is on a queue the client has dropped:
                 \* "no", or what that queue holds, "frame" or "empty"
    pc,          \* the await or yield the generator is suspended at
    timer,       \* ticks left of the wait or of the grace period
    pauseFor,    \* ticks since pause_since, at most PauseCap; Never: None
    reason,      \* why ensure_connected was called
    event,       \* the last of on_lost and on_reconnected that was called
    downFor,     \* ticks the link has been down while the loop watched
    quietFor,    \* ticks the link has been up without a frame, so watched
    silence      \* ticks watched since the loop got a frame or a connection of
                 \* its own, up to PauseCap

client == <<bleak, link, fresh>>
watch  == <<downFor, quietFor, silence>>
vars   == <<client, old, pc, timer, pauseFor, reason, event, watch>>

Reasons == {"first", "link_down", "pause_cap"}

\* The rounds of no_data_timeout it takes to reach pause_cap.
CapRounds == (PauseCap + NoDataTimeout - 1) \div NoDataTimeout

DownBound  == NoDataTimeout + LinkDownGrace
QuietBound ==
    IF PauseCap = Never THEN 0
    ELSE LinkDownGrace + NoDataTimeout * (1 + CapRounds)

Init ==
    /\ bleak \in BOOLEAN /\ link = bleak /\ fresh = FALSE /\ old = "no"
    /\ pc = "yielded"        \* iteration is about to start
    /\ timer = 0 /\ pauseFor = Never
    /\ reason = "first" /\ event = "none"
    /\ downFor = 0 /\ quietFor = 0 /\ silence = 0

-----------------------------------------------------------------------------
\* Suspended anew: wait_frame reads self._queue.
Await(step, t) == pc' = step /\ timer' = t /\ old' = "no"

\* The wait in progress has a frame to return.
Takeable == IF old = "no" THEN fresh ELSE old = "frame"

\* The top of the loop.
Loop ==
    \/ bleak /\ Await("wait", NoDataTimeout) /\ UNCHANGED reason
    \/ ~bleak /\ Await("ensure", 0) /\ reason' = "first"

\* on_lost, then ensure_connected.
Lost(why) ==
    /\ event' = "lost"
    /\ reason' = why
    /\ Await("ensure", 0)

StopWatch == downFor' = 0 /\ quietFor' = 0 /\ silence' = 0

\* The consumer asks for the next frame.
Continue ==
    /\ pc = "yielded"
    /\ Loop
    /\ StopWatch
    /\ UNCHANGED <<client, pauseFor, event>>

MutFrame ==
    /\ pc = "wait" /\ Takeable
    /\ fresh' = (fresh /\ old # "no")
    /\ Await("yielded", 0)
    /\ StopWatch
    /\ UNCHANGED <<bleak, link, pauseFor, reason, event>>
Frame ==
    /\ pc = "wait" /\ Takeable
    /\ fresh' = (fresh /\ old # "no")
    /\ pauseFor' = Never
    /\ Await("yielded", 0)
    /\ StopWatch
    /\ UNCHANGED <<bleak, link, reason, event>>

\* When the pause that is noticed now began, as far as the loop knows.
MutPauseSoFar == 0
PauseSoFar == IF pauseFor = Never THEN 0 ELSE pauseFor

Capped == PauseCap # Never /\ PauseSoFar >= PauseCap

\* Silence on a link that is up: a pause, or a meter that is stuck.
Paused ==
    /\ pc = "wait" /\ timer = 0 /\ ~Takeable /\ link
    /\ pauseFor' = PauseSoFar
    /\ \/ Capped /\ Lost("pause_cap")
       \/ ~Capped /\ Loop /\ UNCHANGED event
    /\ UNCHANGED <<client, watch>>

\* Silence on a link that is reported down.
MutDropped ==
    /\ pc = "wait" /\ timer = 0 /\ ~Takeable /\ ~link
    /\ Await("wait", NoDataTimeout)
    /\ UNCHANGED <<client, pauseFor, watch, reason, event>>
Dropped ==
    /\ pc = "wait" /\ timer = 0 /\ ~Takeable /\ ~link
    /\ \/ LinkDownGrace > 0 /\ Await("grace", LinkDownGrace)
          /\ UNCHANGED <<reason, event>>
       \/ LinkDownGrace = 0 /\ Lost("link_down")
    /\ UNCHANGED <<client, pauseFor, watch>>

MutGraceOver ==
    /\ pc = "grace" /\ timer = 0
    /\ \/ link /\ Await("grace", LinkDownGrace) /\ UNCHANGED <<reason, event>>
       \/ ~link /\ Lost("link_down")
    /\ UNCHANGED <<client, pauseFor, watch>>
GraceOver ==
    /\ pc = "grace" /\ timer = 0
    /\ \/ link /\ pauseFor' = Never /\ Loop /\ UNCHANGED event
       \/ ~link /\ Lost("link_down") /\ UNCHANGED pauseFor
    /\ UNCHANGED <<client, watch>>

\* ensure_connected returns; the new queue is empty.
EnsureOk ==
    /\ pc = "ensure"
    /\ bleak' = TRUE /\ link' = TRUE /\ fresh' = FALSE
    /\ pauseFor' = IF reason = "first" THEN pauseFor ELSE Never
    /\ event' = "reconnected"
    /\ Await("wait", NoDataTimeout)
    /\ StopWatch
    /\ UNCHANGED reason

\* It raises: the generator ends with its exception.
EnsureFailed ==
    /\ pc = "ensure"
    /\ bleak' = FALSE /\ link' = FALSE /\ fresh' = FALSE
    /\ Await("ended", 0)
    /\ UNCHANGED <<pauseFor, reason, event, watch>>

-----------------------------------------------------------------------------
(* The meter, the radio, other users of the client, and time.              *)

Watching == pc \in {"wait", "grace"}

FrameArrives ==
    /\ link /\ ~fresh /\ pc # "ensure"
    /\ fresh' = TRUE
    /\ quietFor' = 0
    /\ UNCHANGED <<bleak, link, old, pc, timer, pauseFor, reason, event,
                   downFor, silence>>

LinkDown ==
    /\ link /\ pc # "ensure"
    /\ link' = FALSE
    /\ quietFor' = 0
    /\ UNCHANGED <<bleak, fresh, old, pc, timer, pauseFor, reason, event,
                   downFor, silence>>

\* The drop was a blip of the backend's report, or the connection that another
\* task is making comes up.
LinkBack ==
    /\ bleak /\ ~link /\ pc # "ensure"
    /\ link' = TRUE
    /\ downFor' = 0
    /\ UNCHANGED <<bleak, fresh, old, pc, timer, pauseFor, reason, event,
                   quietFor, silence>>

\* The client drops its queue; a wait in progress keeps it, with its frame.
LetGo ==
    /\ fresh' = FALSE
    /\ old' = IF pc # "wait" \/ old # "no" THEN old
              ELSE IF fresh THEN "frame" ELSE "empty"

\* close() by another task.
MutCloseElsewhere ==
    /\ bleak /\ pc # "ensure"
    /\ bleak' = FALSE
    /\ LetGo
    /\ UNCHANGED <<link, pc, timer, pauseFor, reason, event, watch>>
CloseElsewhere ==
    /\ bleak /\ pc # "ensure"
    /\ bleak' = FALSE /\ link' = FALSE
    /\ LetGo
    /\ quietFor' = 0
    /\ UNCHANGED <<pc, timer, pauseFor, reason, event, downFor, silence>>

\* reconnect() or ensure_connected() by another task has made a new client and
\* queue and is connecting.  The loop learns of it by is_connected alone, and
\* pause_since stays.
ReconnectElsewhere ==
    /\ pc # "ensure"
    /\ bleak' = TRUE /\ link' = FALSE
    /\ LetGo
    /\ quietFor' = 0
    /\ UNCHANGED <<pc, timer, pauseFor, reason, event, downFor, silence>>

\* A tick passes once the loop has done what it can do now.
Tick ==
    /\ Watching /\ timer > 0 /\ ~(pc = "wait" /\ Takeable)
    /\ timer' = timer - 1
    /\ pauseFor' = IF pauseFor \in {Never, PauseCap} \/ PauseCap = Never
                   THEN pauseFor ELSE pauseFor + 1
    /\ downFor' = IF link THEN 0 ELSE downFor + 1
    /\ silence' = IF silence = PauseCap \/ PauseCap = Never THEN silence
                  ELSE silence + 1
    /\ quietFor' = IF link /\ ~fresh /\ PauseCap # Never THEN quietFor + 1 ELSE 0
    /\ UNCHANGED <<client, old, pc, reason, event>>

Step == Continue \/ Frame \/ Paused \/ Dropped \/ GraceOver

Environment ==
    FrameArrives \/ LinkDown \/ LinkBack \/ CloseElsewhere \/ ReconnectElsewhere

Next ==
    \/ Step \/ EnsureOk \/ EnsureFailed \/ Environment \/ Tick
    \/ pc = "ended" /\ UNCHANGED vars

Spec == Init /\ [][Next]_vars

\* The event loop and time go on, the consumer comes back for more and
\* ensure_connected ends (EveryCallReturns of Connection).
FairSpec ==
    Spec /\ WF_vars(Step) /\ WF_vars(Tick) /\ WF_vars(EnsureOk \/ EnsureFailed)

-----------------------------------------------------------------------------
(* Properties.                                                             *)

\* Types; a link belongs to a client, and only a wait keeps an old queue.
TypeOK ==
    /\ bleak \in BOOLEAN /\ link \in BOOLEAN /\ fresh \in BOOLEAN
    /\ pc \in {"wait", "grace", "ensure", "yielded", "ended"}
    /\ timer \in 0 .. NoDataTimeout + LinkDownGrace
    /\ pauseFor \in Nat \cup {Never}
    /\ reason \in Reasons
    /\ event \in {"none", "lost", "reconnected"}
    /\ downFor \in Nat /\ quietFor \in Nat /\ silence \in Nat
    /\ link => bleak
    /\ old \in {"no", "empty", "frame"} /\ (old # "no" => pc = "wait")

\* A power-off is noticed in time: a link that stays down is given up after at
\* most no_data_timeout + link_down_grace, whatever came before, and whatever
\* other tasks do to the client meanwhile.
DropNoticedInTime == downFor <= DownBound

\* A stuck meter is noticed in time: silence on a link that stays up is given
\* up after pause_cap rounded up to whole waits, one more wait and, if a blip
\* came first, the rest of its grace period.
StuckMeterNoticedInTime == PauseCap # Never => quietFor <= QuietBound

\* A pause is waited out: the loop asks for a new connection only when it has
\* none, when the link is down, or after a pause_cap in which it got no frame
\* and made no connection.
PauseIsWaitedOut ==
    [][pc # "ensure" /\ pc' = "ensure" =>
          \/ ~bleak \/ ~link
          \/ silence = PauseCap]_vars

\* A stream whose client is there and whose frames are pending gets on: the
\* pending frame is yielded or lost with its connection, even if the loop is
\* still waiting on the queue of an earlier one when it arrives.
PendingFrameLeaves == fresh /\ pc # "ended" ~> ~fresh \/ pc = "ended"

\* What the docstring says of on_reconnected, "called after a successful
\* reconnect": each call follows an on_lost.
ReconnectedFollowsLost ==
    [][event' = "reconnected" /\ pc = "ensure" /\ pc' = "wait" =>
          event = "lost"]_vars
=============================================================================
