----------------------------- MODULE Connection -----------------------------
(***************************************************************************)
(* The connection life cycle of BrymenbleClient (transport.py):            *)
(* __aenter__, ensure_connected, reconnect and close, run by asyncio tasks *)
(* that interleave at their await points, over a BLE link that may fail,   *)
(* hang or drop at any time.                                               *)
(*                                                                         *)
(* A task's control state is the await it is suspended at.  What runs      *)
(* between two awaits is one step, as it is on the event loop.             *)
(*                                                                         *)
(* A definition MutX is X with a plausible programming error; the README   *)
(* lists which property each of them breaks.                               *)
(***************************************************************************)
EXTENDS Integers, FiniteSets

CONSTANTS
    Clients,      \* BleakClient objects the factory returns
    Tasks,        \* asyncio tasks that use the one BrymenbleClient
    None,         \* Python's None in self._bleak and self._queue
    Forever,      \* retries=None
    RetryLimits,  \* the values of `retries` that callers pass
    SyncRtc,      \* sync_rtc_on_connect
    Overlap,      \* two life-cycle calls may be in progress at once
    Reenter       \* `async with` may be entered while already connected

ASSUME NoneAssumption    == None \notin Clients
ASSUME RetryAssumption   == RetryLimits \subseteq Nat \cup {Forever}
ASSUME ForeverAssumption == Forever \notin Nat
ASSUME FlagAssumption    == {SyncRtc, Overlap, Reenter} \subseteq BOOLEAN

VARIABLES
    bleak,        \* self._bleak
    queue,        \* self._queue, named after the client it was made with
    loop,         \* self._loop is not None
    link,         \* is the GATT link of a client up?
    verified,     \* clients whose password the meter acknowledged
    subscribed,   \* clients the meter sends notifications to
    stranded,     \* clients dropped by _close after a failed disconnect
    op,           \* the method a task is executing
    retries,      \* its `retries` argument
    attempt,      \* its local variable `attempt`
    pc,           \* the await it is suspended at
    cmd,          \* the command in progress while connecting
    on,           \* the client the awaited bleak call was made on
    reap,         \* it awaits an inner task it has cancelled
    exc,          \* the exception in flight; once idle, the last outcome
    cancelled     \* cancel() has been called on it during this call

fields  == <<bleak, queue, loop>>
radio   == <<link, verified, subscribed, stranded>>
call    == <<op, retries, attempt>>
control == <<pc, on, reap, exc>>
vars    == <<fields, radio, call, control, cmd, cancelled>>

Operations == {"enter", "ensure", "reconnect", "close"}
GattSteps  == {"connect", "write", "read", "startNotify",
               "disconnect", "stopNotify"}
Steps      == GattSteps \cup {"idle", "issue", "settle", "retry"}
BackendErrors == {"BleakError", "TimeoutError", "ConnectionError"}
Outcomes   == {"none", "Cancelled", "ConnectionError", "CommandError",
               "ValueError", "RuntimeError", "AttributeError"}

Init ==
    /\ bleak = None /\ queue = None /\ loop = FALSE
    /\ link = [c \in Clients |-> "down"]
    /\ verified = {} /\ subscribed = {} /\ stranded = {}
    /\ op = [t \in Tasks |-> "close"]
    /\ retries = [t \in Tasks |-> 0]
    /\ attempt = [t \in Tasks |-> 0]
    /\ pc = [t \in Tasks |-> "idle"]
    /\ cmd = [t \in Tasks |-> "verify"]
    /\ on = [t \in Tasks |-> None]
    /\ reap = [t \in Tasks |-> FALSE]
    /\ exc = [t \in Tasks |-> "none"]
    /\ cancelled = [t \in Tasks |-> FALSE]

-----------------------------------------------------------------------------
\* Suspend t at an await on client c with exception e in flight.
Goto(t, step, c, e) ==
    /\ pc' = [pc EXCEPT ![t] = step]
    /\ on' = [on EXCEPT ![t] = c]
    /\ reap' = [reap EXCEPT ![t] = FALSE]
    /\ exc' = [exc EXCEPT ![t] = e]

Return(t, e) == Goto(t, "idle", None, e)

\* A client object nothing refers to: stands for a freshly made one.
Unused(c) ==
    /\ c # bleak
    /\ link[c] = "down"
    /\ \A t \in Tasks : on[t] # c

\* New queue, new client, and the start of _connect up to its first await.
MutDial(t) ==
    \E c \in Clients :
        /\ Unused(c)
        /\ bleak' = None /\ queue' = None /\ loop' = FALSE
        /\ Goto(t, "connect", c, "none")
Dial(t) ==
    \E c \in Clients :
        /\ Unused(c)
        /\ bleak' = c /\ queue' = c /\ loop' = TRUE
        /\ Goto(t, "connect", c, "none")

MutClearFields == bleak' = None /\ loop' = FALSE /\ UNCHANGED queue
ClearFields == bleak' = None /\ queue' = None /\ loop' = FALSE

\* _connect_with_cleanup turns transport failures into ConnectionError.
MutNormalize(e) == IF e = "TimeoutError" THEN "ConnectionError" ELSE e
Normalize(e) == IF e \in BackendErrors THEN "ConnectionError" ELSE e

\* ensure_connected's decision to try again.
MutMayRetry(t) == retries[t] = Forever \/ attempt[t] <= retries[t]
MayRetry(t) == retries[t] = Forever \/ attempt[t] < retries[t]

\* The attempt ended with exception e, its cleanup done.
AttemptFailed(t, e) ==
    IF op[t] = "ensure" /\ e = "ConnectionError" /\ MayRetry(t)
    THEN Goto(t, "retry", None, "none")
    ELSE Return(t, e)

\* _close after its disconnect, and what its caller does next: raise the
\* exception it cleaned up for, return from close(), or dial again.
Closed(t, o, e) ==
    \/ e # "none" /\ ClearFields /\ AttemptFailed(t, e)
    \/ e = "none" /\ o = "close" /\ ClearFields /\ Return(t, "none")
    \/ e = "none" /\ o # "close" /\ Dial(t)

\* _close as called with exception e being handled ("none": reconnect, close).
MutCloseNoDisconnect(t, o, e) == Closed(t, o, e)
MutCloseUnchecked(t, o, e) == Goto(t, "disconnect", bleak, e) /\ UNCHANGED fields
CloseStart(t, o, e) ==
    \/ bleak # None /\ Goto(t, "disconnect", bleak, e) /\ UNCHANGED fields
    \/ bleak = None /\ Closed(t, o, e)

\* _connect raises e, which is not a cancellation.
MutRaise(t, e) == UNCHANGED fields /\ AttemptFailed(t, Normalize(e))
Raise(t, e) == CloseStart(t, op[t], Normalize(e))

\* An inner task t had cancelled has ended; the exception in flight goes on.
MutAbort(t) == Raise(t, "ConnectionError")
Abort(t) ==
    IF exc[t] = "Cancelled"
    THEN Return(t, "Cancelled") /\ UNCHANGED fields
    ELSE Raise(t, exc[t])

\* Link c is gone, and with it what the meter held for it.
DropLink(c) ==
    /\ link' = [link EXCEPT ![c] = "down"]
    /\ verified' = verified \ {c}
    /\ subscribed' = subscribed \ {c}
    /\ stranded' = stranded \ {c}

\* The link of c survived the disconnect that _close gives up on.
Strand(c) ==
    /\ stranded' = IF link[c] = "up" THEN stranded \cup {c} ELSE stranded
    /\ UNCHANGED <<link, verified, subscribed>>

-----------------------------------------------------------------------------
(* The calls a consumer makes.                                             *)

Begin(t, o, r) ==
    /\ pc[t] = "idle"
    /\ Overlap \/ \A u \in Tasks : pc[u] = "idle"
    /\ op' = [op EXCEPT ![t] = o]
    /\ retries' = [retries EXCEPT ![t] = r]
    /\ attempt' = [attempt EXCEPT ![t] = 1]
    /\ cancelled' = [cancelled EXCEPT ![t] = FALSE]
    /\ UNCHANGED <<radio, cmd>>

Enter(t) ==
    /\ Begin(t, "enter", 0)
    /\ Reenter \/ bleak = None
    /\ Dial(t)

Ensure(t) ==
    \E r \in RetryLimits :
        Begin(t, "ensure", r) /\ CloseStart(t, "ensure", "none")

Reconnect(t) == Begin(t, "reconnect", 0) /\ CloseStart(t, "reconnect", "none")

Close(t) ==
    /\ Begin(t, "close", 0)
    /\ \/ bleak # None /\ Goto(t, "stopNotify", bleak, "none") /\ UNCHANGED fields
       \/ bleak = None /\ Closed(t, "close", "none")

-----------------------------------------------------------------------------
(* Connecting: link, password, clock, settling window, subscription.       *)

Awaits(t, step) == pc[t] = step /\ ~reap[t]

\* send_command's check and the creation of its round-trip task.
BeginCommand(t, c) ==
    /\ cmd' = [cmd EXCEPT ![t] = c]
    /\ \/ bleak # None /\ Goto(t, "issue", None, "none") /\ UNCHANGED fields
       \/ bleak = None /\ Raise(t, "RuntimeError")

\* `self._bleak.<call>` made at an await that follows others: self._bleak is
\* read again.
CallBleak(t, step) ==
    \/ bleak # None /\ Goto(t, step, bleak, "none") /\ UNCHANGED fields
    \/ bleak = None /\ Raise(t, "AttributeError")

\* The meter accepts one connection.
LinkFree == \A c \in Clients : link[c] = "down"

MutConnectOk(t) ==
    /\ Awaits(t, "connect")
    /\ LinkFree
    /\ link' = [link EXCEPT ![on[t]] = "up"]
    /\ Goto(t, "settle", None, "none")
    /\ UNCHANGED <<fields, verified, subscribed, stranded, call, cmd, cancelled>>
ConnectOk(t) ==
    /\ Awaits(t, "connect")
    /\ LinkFree
    /\ link' = [link EXCEPT ![on[t]] = "up"]
    /\ \/ BeginCommand(t, "verify")
       \/ Raise(t, "ValueError") /\ UNCHANGED cmd  \* malformed self.password
    /\ UNCHANGED <<verified, subscribed, stranded, call, cancelled>>

\* The round-trip task starts.
CommandIssued(t) ==
    /\ Awaits(t, "issue")
    /\ CallBleak(t, "write")
    /\ UNCHANGED <<radio, call, cmd, cancelled>>

WriteDone(t) ==
    /\ Awaits(t, "write")
    /\ link[on[t]] = "up"
    /\ CallBleak(t, "read")
    /\ UNCHANGED <<radio, call, cmd, cancelled>>

\* A success frame.  Only the password's success matters to the meter.
CommandOk(t) ==
    /\ Awaits(t, "read")
    /\ link[on[t]] = "up"
    /\ verified' = verified \cup {c \in {on[t]} : cmd[t] = "verify"}
    /\ \/ cmd[t] = "verify" /\ SyncRtc /\ BeginCommand(t, "rtc")
       \/ /\ cmd[t] = "rtc" \/ ~SyncRtc
          /\ Goto(t, "settle", None, "none") /\ UNCHANGED <<fields, cmd>>
    /\ UNCHANGED <<link, subscribed, stranded, call, cancelled>>

\* A failure frame (CommandError) or one that does not parse.
CommandRefused(t) ==
    /\ Awaits(t, "read")
    /\ link[on[t]] = "up"
    /\ \E e \in {"CommandError", "ConnectionError"} : Raise(t, e)
    /\ UNCHANGED <<radio, call, cmd, cancelled>>

Settled(t) ==
    /\ Awaits(t, "settle")
    /\ CallBleak(t, "startNotify")
    /\ UNCHANGED <<radio, call, cmd, cancelled>>

StartNotifyOk(t) ==
    /\ Awaits(t, "startNotify")
    /\ link[on[t]] = "up"
    /\ subscribed' = subscribed \cup {on[t]}
    /\ Return(t, "none")
    /\ UNCHANGED <<fields, link, verified, stranded, call, cmd, cancelled>>

\* A bleak call made while connecting raises.
GattError(t) ==
    /\ \E step \in {"connect", "write", "read", "startNotify"} : Awaits(t, step)
    /\ \E e \in BackendErrors : Raise(t, e)
    /\ UNCHANGED <<radio, call, cmd, cancelled>>

-----------------------------------------------------------------------------
(* Tearing down.  Failures of stop_notify and disconnect are swallowed.    *)

StopNotifyDone(t) ==
    /\ Awaits(t, "stopNotify")
    /\ subscribed' \in {subscribed, subscribed \ {on[t]}}
    /\ CloseStart(t, op[t], "none")
    /\ UNCHANGED <<link, verified, stranded, call, cmd, cancelled>>

DisconnectOk(t) ==
    /\ Awaits(t, "disconnect")
    /\ DropLink(on[t])
    /\ Closed(t, op[t], exc[t])
    /\ UNCHANGED <<call, cmd, cancelled>>

MutDisconnectError(t) ==
    /\ Awaits(t, "disconnect")
    /\ Strand(on[t])
    /\ AttemptFailed(t, "ConnectionError")
    /\ UNCHANGED <<fields, call, cmd, cancelled>>
DisconnectError(t) ==
    /\ Awaits(t, "disconnect")
    /\ Strand(on[t])
    /\ Closed(t, op[t], exc[t])
    /\ UNCHANGED <<call, cmd, cancelled>>

-----------------------------------------------------------------------------
(* Timeouts: the inner task is cancelled and awaited (`reap`).  The call   *)
(* may still have taken effect by the time it ends.                        *)

Timeout(t) ==
    /\ pc[t] \in GattSteps /\ ~reap[t]
    /\ reap' = [reap EXCEPT ![t] = TRUE]
    /\ exc' = IF pc[t] \in {"disconnect", "stopNotify"}
              THEN exc
              ELSE [exc EXCEPT ![t] = "ConnectionError"]
    /\ UNCHANGED <<fields, radio, call, cmd, pc, on, cancelled>>

Reaped(t, step) == pc[t] = step /\ reap[t]

ReapConnect(t) ==
    /\ Reaped(t, "connect")
    /\ \/ UNCHANGED link
       \/ LinkFree /\ link' = [link EXCEPT ![on[t]] = "up"]
    /\ Abort(t)
    /\ UNCHANGED <<verified, subscribed, stranded, call, cmd, cancelled>>

ReapCommand(t) ==
    /\ Reaped(t, "write") \/ Reaped(t, "read")
    /\ Abort(t)
    /\ UNCHANGED <<radio, call, cmd, cancelled>>

MutReapStartNotify(t) ==
    /\ Reaped(t, "startNotify")
    /\ Return(t, IF exc[t] = "Cancelled" THEN "Cancelled" ELSE "none")
    /\ UNCHANGED <<fields, radio, call, cmd, cancelled>>
ReapStartNotify(t) ==
    /\ Reaped(t, "startNotify")
    /\ \/ UNCHANGED subscribed
       \/ link[on[t]] = "up" /\ subscribed' = subscribed \cup {on[t]}
    /\ Abort(t)
    /\ UNCHANGED <<link, verified, stranded, call, cmd, cancelled>>

\* A cancelled _close leaves its fields as they are.
MutReapDisconnect(t) ==
    /\ Reaped(t, "disconnect")
    /\ DropLink(on[t]) \/ Strand(on[t])
    /\ IF exc[t] = "Cancelled"
       THEN ClearFields /\ Return(t, "Cancelled")
       ELSE Closed(t, op[t], exc[t])
    /\ UNCHANGED <<call, cmd, cancelled>>
ReapDisconnect(t) ==
    /\ Reaped(t, "disconnect")
    /\ \/ /\ exc[t] = "Cancelled"
          /\ Return(t, "Cancelled")
          /\ DropLink(on[t]) \/ UNCHANGED radio
          /\ UNCHANGED fields
       \/ /\ exc[t] # "Cancelled"
          /\ Closed(t, op[t], exc[t])
          /\ DropLink(on[t]) \/ Strand(on[t])
    /\ UNCHANGED <<call, cmd, cancelled>>

ReapStopNotify(t) ==
    /\ Reaped(t, "stopNotify")
    /\ subscribed' \in {subscribed, subscribed \ {on[t]}}
    /\ IF exc[t] = "Cancelled"
       THEN Return(t, "Cancelled") /\ UNCHANGED fields
       ELSE CloseStart(t, op[t], "none")
    /\ UNCHANGED <<link, verified, stranded, call, cmd, cancelled>>

\* The sleep between two attempts is over.  The count is kept only where the
\* code reads it.
MutRetryWake(t) ==
    /\ Awaits(t, "retry")
    /\ CloseStart(t, op[t], "none")
    /\ UNCHANGED <<radio, call, cmd, cancelled>>
RetryWake(t) ==
    /\ Awaits(t, "retry")
    /\ attempt' = IF retries[t] = Forever THEN attempt
                  ELSE [attempt EXCEPT ![t] = @ + 1]
    /\ CloseStart(t, op[t], "none")
    /\ UNCHANGED <<radio, op, retries, cmd, cancelled>>

-----------------------------------------------------------------------------
(* The environment.                                                        *)

\* cancel() on a task that awaits.  A task that already awaits a cancelled
\* inner task loses the CancelledError to suppress(BaseException).  At
\* "issue" the inner task runs before the cancellation is delivered.
Cancel(t) ==
    /\ pc[t] \notin {"idle", "issue"} /\ ~cancelled[t]
    /\ cancelled' = [cancelled EXCEPT ![t] = TRUE]
    /\ \/ /\ pc[t] \in GattSteps /\ ~reap[t]
          /\ reap' = [reap EXCEPT ![t] = TRUE]
          /\ exc' = [exc EXCEPT ![t] = "Cancelled"]
          /\ UNCHANGED <<pc, on>>
       \/ pc[t] \in GattSteps /\ reap[t] /\ UNCHANGED control
       \/ pc[t] \in {"settle", "retry"} /\ Return(t, "Cancelled")
    /\ UNCHANGED <<fields, radio, call, cmd>>

LinkDrop(c) ==
    /\ link[c] = "up"
    /\ DropLink(c)
    /\ UNCHANGED <<fields, call, control, cmd, cancelled>>

Connecting(t) ==
    \/ ConnectOk(t) \/ CommandIssued(t) \/ WriteDone(t) \/ CommandOk(t)
    \/ CommandRefused(t) \/ Settled(t) \/ StartNotifyOk(t) \/ GattError(t)

TearingDown(t) == StopNotifyDone(t) \/ DisconnectOk(t) \/ DisconnectError(t)

Reaping(t) ==
    \/ ReapConnect(t) \/ ReapCommand(t) \/ ReapStartNotify(t)
    \/ ReapDisconnect(t) \/ ReapStopNotify(t)

\* What a call does by itself once it has begun.
Progress(t) ==
    \/ Connecting(t) \/ TearingDown(t) \/ Timeout(t) \/ Reaping(t)
    \/ RetryWake(t)

Start(t) == Enter(t) \/ Ensure(t) \/ Reconnect(t) \/ Close(t)

Next ==
    \/ \E t \in Tasks : Start(t) \/ Progress(t) \/ Cancel(t)
    \/ \E c \in Clients : LinkDrop(c)

Spec == Init /\ [][Next]_vars

\* The event loop runs every ready task, every wait has a timeout and every
\* cancelled bleak call ends.  Callers, cancel() and the meter owe nothing.
FairSpec == Spec /\ \A t \in Tasks : WF_vars(Progress(t))

\* Moreover the meter is in range now and then: no step of connecting that it
\* can answer fails every time it is tried.
MeterSpec ==
    /\ FairSpec
    /\ \A t \in Tasks :
        /\ SF_vars(ConnectOk(t)) /\ SF_vars(WriteDone(t))
        /\ SF_vars(CommandOk(t)) /\ SF_vars(StartNotifyOk(t))

-----------------------------------------------------------------------------
(* Properties.                                                             *)

FieldsOK ==
    /\ bleak \in Clients \cup {None}
    /\ queue \in Clients \cup {None}
    /\ loop \in BOOLEAN

RadioOK ==
    /\ link \in [Clients -> {"up", "down"}]
    /\ verified \subseteq Clients
    /\ subscribed \subseteq Clients
    /\ stranded \subseteq Clients

CallOK ==
    /\ op \in [Tasks -> Operations]
    /\ retries \in [Tasks -> Nat \cup {Forever}]
    /\ attempt \in [Tasks -> Nat]
    /\ cmd \in [Tasks -> {"verify", "rtc"}]
    /\ cancelled \in [Tasks -> BOOLEAN]

ControlOK ==
    /\ pc \in [Tasks -> Steps]
    /\ on \in [Tasks -> Clients \cup {None}]
    /\ reap \in [Tasks -> BOOLEAN]
    /\ exc \in [Tasks -> Outcomes]
    /\ \A t \in Tasks : pc[t] \in GattSteps <=> on[t] # None

\* Types; a task awaiting a bleak call awaits it on a client, never on None.
TypeOK == FieldsOK /\ RadioOK /\ CallOK /\ ControlOK

\* The client, its queue and its loop are set and cleared together, however
\* calls interleave: wait_frame never meets a client without a queue, so the
\* RuntimeError branch of read_stream is dead while self._bleak is set.
LockStep == queue = bleak /\ (loop <=> bleak # None)

\* While life-cycle calls do not overlap, a link that is up belongs to
\* self._bleak unless a disconnect of it failed: no half-open link leaks.
NoOrphanedLink ==
    \A c \in Clients : link[c] = "up" /\ c # bleak => c \in stranded

\* With at most one call at a time, callers see only what the docstrings name:
\* success, ConnectionError, CommandError, ValueError or their cancellation.
DocumentedOutcomes ==
    \A t \in Tasks : pc[t] = "idle" =>
        exc[t] \in {"none", "Cancelled", "ConnectionError", "CommandError",
                    "ValueError"}

\* Why the two properties above hold when calls do not overlap: one task at a
\* time is inside a call, and the client it works on is the one in self._bleak,
\* which nobody clears under it.
OneCall ==
    \A t, u \in Tasks : pc[t] # "idle" /\ pc[u] # "idle" => t = u

OnOwnClient ==
    \A t \in Tasks :
        /\ pc[t] \in GattSteps => on[t] = bleak
        /\ pc[t] \in {"issue", "settle"} => bleak # None

Surprises == {"RuntimeError", "AttributeError"}
NoSurprise == \A t \in Tasks : exc[t] \notin Surprises

SequentialInv == OneCall /\ OnOwnClient /\ NoSurprise /\ NoOrphanedLink

Returns(t, e) == pc[t] # "idle" /\ pc'[t] = "idle" /\ exc'[t] = e

\* enter, ensure_connected and reconnect return normally only with a live,
\* password-verified link that sends notifications.
SuccessIsStreaming ==
    [][\A t \in Tasks : op[t] # "close" /\ Returns(t, "none") =>
          /\ bleak' # None
          /\ link'[bleak'] = "up"
          /\ bleak' \in verified' \cap subscribed']_vars

\* A call that raises (other than its own cancellation), and close(), leave no
\* client behind and no link up that a disconnect was not tried on.
FailureReleasesLink ==
    [][\A t \in Tasks, e \in Outcomes \ {"Cancelled"} :
          Returns(t, e) /\ (e # "none" \/ op[t] = "close") =>
             /\ bleak' = None
             /\ \A c \in Clients : link'[c] = "up" => c \in stranded']_vars

\* ensure_connected raises ConnectionError only after as many attempts as it
\* was allowed, the first one included, and raises nothing else to retry.
GivesUpAfterRetries ==
    [][\A t \in Tasks : op[t] = "ensure" /\ Returns(t, "ConnectionError") =>
          /\ retries[t] # Forever
          /\ attempt[t] = IF retries[t] = 0 THEN 1 ELSE retries[t]]_vars

\* A CancelledError in flight is never turned into a retry, a success or
\* another exception.
CancellationIsFinal ==
    [][\A t \in Tasks : pc[t] # "idle" /\ exc[t] = "Cancelled" =>
          exc'[t] = "Cancelled"]_vars

\* Every call with a bounded number of retries returns, whatever the meter does.
EveryCallReturns ==
    \A t \in Tasks :
        pc[t] # "idle" /\ retries[t] # Forever ~> pc[t] = "idle"

\* ensure_connected(retries=None) gets through to a meter that answers now and
\* then, although attempts time out, connects end late and answers are lost,
\* provided the link stops dropping and failed disconnects stop stranding it.
ForeverEndsWhenMeterAnswers ==
    <>[](stranded = {}) /\ <>[][\A c \in Clients : ~LinkDrop(c)]_vars =>
        \A t \in Tasks :
            pc[t] # "idle" /\ retries[t] = Forever ~> pc[t] = "idle"

\* What the docstring of ensure_connected says of retries=None: cancelling the
\* task stops the loop.
CancelStopsTheCall == \A t \in Tasks : cancelled[t] ~> pc[t] = "idle"

\* What the docstrings of close and _connect_with_cleanup say of teardown: when
\* self._bleak is cleared, the link of the client it held is down, or its own
\* disconnect was tried and failed.
TeardownReleasesTheLink ==
    [][bleak # None /\ bleak' = None =>
          link'[bleak] = "down" \/ bleak \in stranded']_vars
=============================================================================
