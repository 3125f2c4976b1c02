----------------------------- MODULE FramePath ------------------------------
(***************************************************************************)
(* The way of a stream frame from bleak's notification callback to a       *)
(* consumer (transport.py): _on_notify on a worker thread posts            *)
(* _handle_notify to the event loop, which overwrites the one-place queue  *)
(* that wait_frame, latest_frame and frames take from.  Sessions come and  *)
(* go underneath: each connection has a queue of its own, and both callers *)
(* and callbacks may outlive the session they started in.                  *)
(*                                                                         *)
(* Queue s belongs to session s; 0 is None.  self._loop is set exactly     *)
(* when self._queue is (LockStep of Connection), so `queue` stands for     *)
(* both.                                                                   *)
(***************************************************************************)
EXTENDS Integers, Sequences, FiniteSets

CONSTANTS
    Consumers,    \* asyncio tasks that take frames
    Empty,        \* no frame
    MaxSessions,  \* bound: connections made in a behaviour
    MaxFrames     \* bound: notifications sent in a session

ASSUME BoundAssumption == {MaxSessions, MaxFrames} \subseteq Nat

VARIABLES
    queue,        \* self._queue (and self._loop)
    made,         \* sessions made so far
    lastNotify,   \* self._last_notify is not None
    notifying,    \* sessions whose notifications reach _on_notify
    open,         \* the event loop runs
    sent,         \* frames sent in each session
    posting,      \* frame a worker has yet to post, having read self._loop
    ready,        \* callbacks of call_soon_threadsafe not yet run
    buf,          \* content of each one-place asyncio.Queue
    getters,      \* consumers suspended in get() on each queue
    state,        \* consumer: "idle", "waiting" or "woken" in get()
    source,       \* consumer: the queue it resolved when it called
    timed,        \* consumer: its call has a timeout
    got,          \* the last frame a consumer was given
    delivered,    \* frames given to any consumer
    newest        \* the last frame enqueued on each queue

session  == <<queue, made, lastNotify, notifying, open>>
worker   == <<sent, posting>>
consumer == <<getters, state, source, timed>>
given    == <<got, delivered>>
vars     == <<session, worker, ready, buf, consumer, given, newest>>

Sessions == 1 .. MaxSessions
Frames   == [session : Sessions, n : 1 .. MaxFrames]

ASSUME EmptyAssumption == Empty \notin Frames

Init ==
    /\ queue = 0 /\ made = 0 /\ lastNotify = FALSE /\ notifying = {}
    /\ open = TRUE
    /\ sent = [s \in Sessions |-> 0]
    /\ posting = [s \in Sessions |-> Empty]
    /\ ready = <<>>
    /\ buf = [s \in Sessions |-> Empty]
    /\ getters = [s \in Sessions |-> <<>>]
    /\ state = [k \in Consumers |-> "idle"]
    /\ source = [k \in Consumers |-> 0]
    /\ timed = [k \in Consumers |-> FALSE]
    /\ got = [k \in Consumers |-> Empty]
    /\ delivered = {}
    /\ newest = [s \in Sessions |-> Empty]

-----------------------------------------------------------------------------
(* Sessions, as Connection makes them.                                     *)

\* _connect: a new queue, and the time of the last notification forgotten.
\* In reconnect the queue of the old session is dropped in the same step.
Dial ==
    /\ open /\ made < MaxSessions
    /\ made' = made + 1
    /\ queue' = made + 1
    /\ lastNotify' = FALSE
    /\ notifying' \in {notifying, notifying \ {queue}}
    /\ UNCHANGED <<open, worker, ready, buf, consumer, given, newest>>

\* start_notify succeeds; the meter serves one connection.
Subscribe ==
    /\ open /\ queue # 0 /\ notifying = {} /\ sent[queue] = 0
    /\ notifying' = {queue}
    /\ UNCHANGED <<queue, made, lastNotify, open, worker, ready, buf, consumer,
                   given, newest>>

\* _close: the notifications of a link that would not go down keep coming.
Teardown ==
    /\ open /\ queue # 0
    /\ queue' = 0
    /\ notifying' \in {notifying, notifying \ {queue}}
    /\ UNCHANGED <<made, lastNotify, open, worker, ready, buf, consumer, given,
                   newest>>

LinkDrop ==
    /\ notifying # {}
    /\ notifying' = {}
    /\ UNCHANGED <<queue, made, lastNotify, open, worker, ready, buf, consumer,
                   given, newest>>

\* asyncio.run ends: every task of the loop is over, and the callbacks that are
\* left never run.
LoopCloses ==
    /\ open /\ \A k \in Consumers : state[k] = "idle"
    /\ open' = FALSE
    /\ ready' = <<>>
    /\ UNCHANGED <<queue, made, lastNotify, notifying, worker, buf, consumer,
                   given, newest>>

-----------------------------------------------------------------------------
(* The notification callback.                                              *)

\* _on_notify up to its reading of self._loop; without a loop that runs it
\* returns.
OnNotify(s) ==
    /\ s \in notifying /\ posting[s] = Empty
    /\ sent[s] < MaxFrames
    /\ sent' = [sent EXCEPT ![s] = @ + 1]
    /\ posting' = IF queue = 0 \/ ~open THEN posting
                  ELSE [posting EXCEPT ![s] = [session |-> s, n |-> sent[s] + 1]]
    /\ UNCHANGED <<session, ready, buf, consumer, given, newest>>

\* call_soon_threadsafe: RuntimeError when the loop has been closed meanwhile,
\* and the frame is dropped.
Post(s) ==
    /\ posting[s] # Empty
    /\ ready' = IF open THEN Append(ready, posting[s]) ELSE ready
    /\ posting' = [posting EXCEPT ![s] = Empty]
    /\ UNCHANGED <<session, sent, buf, consumer, given, newest>>

-----------------------------------------------------------------------------
(* asyncio.Queue: put wakes the consumer that has waited longest; a woken  *)
(* consumer finds what is there when it runs.                              *)

Waits(k, s) ==
    /\ getters' = [getters EXCEPT ![s] = Append(@, k)]
    /\ state' = [state EXCEPT ![k] = "waiting"]

Listed(k, list) == \E i \in DOMAIN list : list[i] = k

\* deque.remove, and nothing when k is not in the list.
Without(list, k) ==
    LET at == CHOOSE i \in DOMAIN list : list[i] = k IN
    IF ~Listed(k, list) THEN list
    ELSE [i \in 1 .. Len(list) - 1 |-> IF i < at THEN list[i] ELSE list[i + 1]]

WakeNext(s) ==
    IF getters[s] = <<>> THEN UNCHANGED <<getters, state>>
    ELSE /\ state' = [state EXCEPT ![Head(getters[s])] = "woken"]
         /\ getters' = [getters EXCEPT ![s] = Tail(@)]

\* k is given frame f and leaves its call.
Give(k, f) ==
    /\ got' = [got EXCEPT ![k] = f]
    /\ delivered' = delivered \cup {f}

MutTake(k, s) == Give(k, buf[s]) /\ UNCHANGED buf
Take(k, s) ==
    /\ Give(k, buf[s])
    /\ buf' = [buf EXCEPT ![s] = Empty]

\* Keep only the latest frame: overwrite any pending one.
MutEnqueue(s, f) ==
    /\ buf' = IF buf[s] = Empty THEN [buf EXCEPT ![s] = f] ELSE buf
    /\ newest' = [newest EXCEPT ![s] = f]
    /\ WakeNext(s)
Enqueue(s, f) ==
    /\ buf' = [buf EXCEPT ![s] = f]
    /\ newest' = [newest EXCEPT ![s] = f]
    /\ WakeNext(s)

\* _handle_notify: the queue is the current one, whatever session the frame
\* comes from; a notification that does not parse only counts as a sign of life.
HandleNotify ==
    /\ ready # <<>>
    /\ ready' = Tail(ready)
    /\ lastNotify' = TRUE
    /\ \/ queue # 0 /\ Enqueue(queue, Head(ready))
       \/ UNCHANGED <<buf, newest, getters, state>>
    /\ UNCHANGED <<queue, made, notifying, open, worker, source, timed, given>>

-----------------------------------------------------------------------------
(* Consumers.                                                              *)

\* wait_frame(timeout) (t) and one turn of frames(), which is wait_frame()
\* without a timeout (~t).  With no queue both raise and change nothing.
Get(k, t) ==
    /\ open /\ state[k] = "idle" /\ queue # 0
    /\ source' = [source EXCEPT ![k] = queue]
    /\ timed' = [timed EXCEPT ![k] = t]
    /\ \/ buf[queue] # Empty /\ Take(k, queue) /\ UNCHANGED <<getters, state>>
       \/ buf[queue] = Empty /\ Waits(k, queue) /\ UNCHANGED <<buf, given>>
    /\ UNCHANGED <<session, worker, ready, newest>>

WaitFrame(k) == Get(k, TRUE)
NextFrame(k) == Get(k, FALSE)

\* latest_frame and wait_frame(0).
LatestFrame(k) ==
    /\ open /\ state[k] = "idle" /\ queue # 0 /\ buf[queue] # Empty
    /\ Take(k, queue)
    /\ UNCHANGED <<session, worker, ready, consumer, newest>>

\* A woken consumer runs: another may have taken the frame meanwhile.
Resume(k) ==
    /\ state[k] = "woken"
    /\ \/ /\ buf[source[k]] # Empty
          /\ Take(k, source[k])
          /\ state' = [state EXCEPT ![k] = "idle"]
          /\ UNCHANGED getters
       \/ /\ buf[source[k]] = Empty
          /\ Waits(k, source[k])
          /\ UNCHANGED <<buf, given>>
    /\ UNCHANGED <<session, worker, ready, source, timed, newest>>

\* The timeout of wait_frame expires, or the consumer is cancelled.  One that
\* had been woken hands the wake-up on and leaves the frame where it is.
MutGiveUp(k) ==
    /\ state[k] # "idle"
    /\ state' = [state EXCEPT ![k] = "idle"]
    /\ getters' = [getters EXCEPT ![source[k]] = Without(@, k)]
    /\ UNCHANGED <<session, worker, ready, buf, source, timed, given, newest>>
MutGiveUpListed(k) ==
    /\ state[k] # "idle"
    /\ state' = [state EXCEPT ![k] = "idle"]
    /\ UNCHANGED <<session, worker, ready, buf, getters, source, timed, given,
                   newest>>
MutGiveUpTaking(k) ==
    /\ state[k] # "idle"
    /\ state' = [state EXCEPT ![k] = "idle"]
    /\ getters' = [getters EXCEPT ![source[k]] = Without(@, k)]
    /\ buf' = IF state[k] = "woken" THEN [buf EXCEPT ![source[k]] = Empty] ELSE buf
    /\ UNCHANGED <<session, worker, ready, source, timed, given, newest>>
GiveUp(k) ==
    LET s == source[k]
        others == Without(getters[s], k)
        handOn == state[k] = "woken" /\ buf[s] # Empty /\ others # <<>>
    IN
    /\ state[k] # "idle"
    /\ state' = IF handOn THEN [state EXCEPT ![k] = "idle", ![Head(others)] = "woken"]
                ELSE [state EXCEPT ![k] = "idle"]
    /\ getters' = [getters EXCEPT ![s] = IF handOn THEN Tail(others) ELSE others]
    /\ UNCHANGED <<session, worker, ready, buf, source, timed, given, newest>>

Next ==
    \/ Dial \/ Subscribe \/ Teardown \/ LinkDrop \/ LoopCloses \/ HandleNotify
    \/ \E s \in Sessions : OnNotify(s) \/ Post(s)
    \/ \E k \in Consumers :
          \/ WaitFrame(k) \/ NextFrame(k) \/ LatestFrame(k)
          \/ Resume(k) \/ GiveUp(k)

Spec == Init /\ [][Next]_vars

\* The event loop runs what is ready, workers post what they began to post and
\* timeouts fire.
FairSpec ==
    /\ Spec
    /\ WF_vars(HandleNotify)
    /\ \A s \in Sessions : WF_vars(Post(s))
    /\ \A k \in Consumers : WF_vars(Resume(k)) /\ WF_vars(timed[k] /\ GiveUp(k))

-----------------------------------------------------------------------------
(* Properties.                                                             *)

\* Types; a consumer is in the list of the queue it waits on, and in no other.
TypeOK ==
    /\ queue \in 0 .. made /\ made \in 0 .. MaxSessions
    /\ lastNotify \in BOOLEAN /\ open \in BOOLEAN
    /\ notifying \subseteq Sessions
    /\ sent \in [Sessions -> 0 .. MaxFrames]
    /\ posting \in [Sessions -> Frames \cup {Empty}]
    /\ ready \in Seq(Frames)
    /\ buf \in [Sessions -> Frames \cup {Empty}]
    /\ getters \in [Sessions -> Seq(Consumers)]
    /\ state \in [Consumers -> {"idle", "waiting", "woken"}]
    /\ source \in [Consumers -> 0 .. MaxSessions]
    /\ timed \in [Consumers -> BOOLEAN]
    /\ got \in [Consumers -> Frames \cup {Empty}]
    /\ delivered \subseteq Frames
    /\ newest \in [Sessions -> Frames \cup {Empty}]
    /\ \A k \in Consumers, s \in Sessions :
          Listed(k, getters[s]) <=> state[k] = "waiting" /\ source[k] = s

\* The newest frame of a queue is never lost: it is there to be taken unless it
\* was given to a consumer, whatever timeouts and overwrites happened, and
\* nothing older is ever there in its place.
NewestKept ==
    \A s \in Sessions :
        /\ buf[s] \in {Empty, newest[s]}
        /\ newest[s] # Empty => buf[s] = newest[s] \/ newest[s] \in delivered

\* A frame is given to one consumer once, and no consumer sees the frames of a
\* session out of order.
DeliveredOnceInOrder ==
    [][\A k \in Consumers :
          got'[k] # got[k] =>
              /\ got'[k] \notin delivered
              /\ got[k] # Empty /\ got[k].session = got'[k].session =>
                     got[k].n < got'[k].n]_vars

\* A consumer that waits where a frame is pending is not forgotten: some
\* consumer of that queue has been woken and will look.
NoLostWakeup ==
    \A s \in Sessions :
        buf[s] # Empty /\ getters[s] # <<>> =>
            \E k \in Consumers : state[k] = "woken" /\ source[k] = s

\* What the comment in frames() and the changelog say: an iterator started
\* before a reconnect picks up the new queue, so that a frame pending there
\* does not stay while the iterator waits.
IteratorSurvivesReconnect ==
    \A k \in Consumers :
        ~timed[k] /\ state[k] = "waiting" /\ queue # 0 /\ buf[queue] # Empty ~>
            state[k] # "waiting" \/ queue = 0 \/ buf[queue] = Empty
=============================================================================
