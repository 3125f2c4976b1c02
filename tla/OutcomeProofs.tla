--------------------------- MODULE OutcomeProofs ----------------------------
(***************************************************************************)
(* How the calls of Connection end, for every set of clients and tasks and *)
(* every retry limit: the action properties of its runs, what calls that   *)
(* nobody overlaps keep whatever overlapping ones left behind, and that    *)
(* with one task Connection implements Session.                            *)
(***************************************************************************)
EXTENDS SessionRefinement, Overlaps, ConnectionProofs

\* The attempts of a call are counted from 1 and stay within its limit.
Counted(t) ==
    retries[t] # Forever =>
        attempt[t] >= 1 /\ (attempt[t] = 1 \/ attempt[t] <= retries[t])

\* What holds of a task inside a call, however calls interleave: a cancellation
\* in flight is carried by the wait for a cancelled inner task and by nothing
\* else, close() only tears down and raises nothing, and a task sleeps between
\* attempts only if it may try again.
Orderly ==
    \A t \in Tasks :
        /\ reap[t] => pc[t] \in GattSteps
        /\ pc[t] # "idle" =>
            /\ exc[t] = "Cancelled" => reap[t]
            /\ op[t] = "close" =>
                  /\ pc[t] \in {"stopNotify", "disconnect"}
                  /\ exc[t] \in {"none", "Cancelled"}
            /\ Counted(t)
            /\ pc[t] = "retry" => op[t] = "ensure" /\ MayRetry(t)

\* The other tasks stay where they are, with the calls they make.
OthersStay(t) ==
    \A u \in Tasks \ {t} :
        /\ pc'[u] = pc[u] /\ exc'[u] = exc[u] /\ reap'[u] = reap[u]
        /\ op'[u] = op[u] /\ retries'[u] = retries[u] /\ attempt'[u] = attempt[u]

OwnCall(t) ==
    \A u \in Tasks \ {t} :
        op'[u] = op[u] /\ retries'[u] = retries[u] /\ attempt'[u] = attempt[u]

\* How a call of t can end, apart from the success of start_notify: cancelled,
\* with the client as it was, or with the client given up; close() returns, and
\* ensure_connected raises ConnectionError once it may not try again.
EndsWell(t) ==
    pc'[t] = "idle" =>
        \/ exc'[t] = "Cancelled" /\ UNCHANGED fields
        \/ exc'[t] = "none" /\ op'[t] = "close" /\ bleak' = None
        \/ /\ exc'[t] \notin {"none", "Cancelled"} /\ op[t] # "close"
           /\ bleak' = None
           /\ op[t] = "ensure" /\ exc'[t] = "ConnectionError" => ~MayRetry(t)

\* Suspending t keeps the calls orderly if it does so for t.
LEMMA GotoOrderly ==
    ASSUME ControlOK, Orderly, NEW t \in Tasks, OwnCall(t),
           NEW step \in Steps, NEW c, NEW e \in Outcomes, Goto(t, step, c, e),
           step # "idle" =>
               /\ e # "Cancelled"
               /\ op'[t] = "close" =>
                     step \in {"stopNotify", "disconnect"} /\ e = "none"
               /\ Counted(t)',
           step = "retry" => op'[t] = "ensure" /\ MayRetry(t)'
    PROVE  Orderly' /\ OthersStay(t) /\ pc'[t] = step /\ exc'[t] = e
<1>1. /\ pc'[t] = step /\ exc'[t] = e /\ reap'[t] = FALSE
      /\ \A u \in Tasks \ {t} :
            pc'[u] = pc[u] /\ exc'[u] = exc[u] /\ reap'[u] = reap[u]
  BY DEF ControlOK, Goto
<1>2. OthersStay(t)
  BY <1>1 DEF OthersStay, OwnCall
<1>3. ASSUME NEW u \in Tasks \ {t}
      PROVE  /\ Counted(u)' <=> Counted(u)
             /\ MayRetry(u)' <=> MayRetry(u)
  BY DEF OwnCall, Counted, MayRetry
<1> QED
  BY <1>1, <1>2, <1>3 DEF Orderly, OthersStay

\* The end of _close and what follows it.
LEMMA ClosedOrderly ==
    ASSUME ControlOK, Orderly, NEW t \in Tasks, OwnCall(t), Counted(t)',
           NEW e \in Outcomes, op'[t] = "close" => e = "none",
           e # "none" => UNCHANGED call,
           Closed(t, op'[t], e)
    PROVE  Orderly' /\ OthersStay(t) /\ (e # "Cancelled" => EndsWell(t))
<1>1. CASE ClearFields /\ e # "none" /\ Return(t, e)
           /\ (op[t] = "ensure" /\ e = "ConnectionError" => ~MayRetry(t))
  <2>1. Orderly' /\ OthersStay(t) /\ exc'[t] = e
    BY <1>1, GotoOrderly DEF Return, Steps
  <2>2. op[t] # "close"
    BY <1>1 DEF call
  <2> QED
    BY <1>1, <2>1, <2>2 DEF EndsWell, ClearFields
<1>2. CASE e # "none" /\ op[t] = "ensure" /\ MayRetry(t)
           /\ Goto(t, "retry", None, "none")
  <2>1. op'[t] = "ensure" /\ MayRetry(t)'
    BY <1>2 DEF call, MayRetry
  <2> QED
    BY <1>2, <2>1, GotoOrderly DEF Steps, Outcomes, EndsWell
<1>3. CASE ClearFields /\ op'[t] = "close" /\ Return(t, "none")
  BY <1>3, GotoOrderly DEF Return, Steps, Outcomes, EndsWell, ClearFields
<1>4. CASE op'[t] # "close" /\ Dial(t)
  <2>1. PICK c \in Clients : Goto(t, "connect", c, "none")
    BY <1>4 DEF Dial
  <2> QED
    BY <1>4, <2>1, GotoOrderly DEF Steps, GattSteps, Outcomes, EndsWell
<1> QED
  BY <1>1, <1>2, <1>3, <1>4 DEF Closed, AttemptFailed

\* _close from its beginning.
LEMMA CloseStartOrderly ==
    ASSUME ControlOK, Orderly, NEW t \in Tasks, OwnCall(t), Counted(t)',
           NEW e \in Outcomes \ {"Cancelled"}, op'[t] = "close" => e = "none",
           e # "none" => UNCHANGED call,
           CloseStart(t, op'[t], e)
    PROVE  Orderly' /\ OthersStay(t) /\ EndsWell(t)
<1>1. CASE Goto(t, "disconnect", bleak, e)
  BY <1>1, GotoOrderly DEF Steps, GattSteps, EndsWell
<1>2. CASE Closed(t, op'[t], e)
  BY <1>2, ClosedOrderly
<1> QED
  BY <1>1, <1>2 DEF CloseStart

\* A call in progress goes on: its arguments and its count stay.
LEMMA SameCall ==
    ASSUME Orderly, NEW t \in Tasks, pc[t] # "idle", UNCHANGED call
    PROVE  OwnCall(t) /\ Counted(t)' /\ op'[t] = op[t]
  BY DEF Orderly, call, OwnCall, Counted

\* A failed attempt, a cancelled wait, a command or a call made while connecting.
LEMMA RaiseOrderly ==
    ASSUME ControlOK, Orderly, NEW t \in Tasks, pc[t] # "idle", UNCHANGED call,
           op[t] # "close",
           NEW e \in (Outcomes \cup BackendErrors) \ {"Cancelled"}, Raise(t, e)
    PROVE  Orderly' /\ OthersStay(t) /\ EndsWell(t)
<1>1. Normalize(e) \in Outcomes \ {"Cancelled"}
  BY DEF Normalize, Outcomes, BackendErrors
<1> QED
  BY <1>1, SameCall, CloseStartOrderly DEF Raise

LEMMA ReturnCancelled ==
    ASSUME ControlOK, Orderly, NEW t \in Tasks, pc[t] # "idle", UNCHANGED call,
           Return(t, "Cancelled"), UNCHANGED fields
    PROVE  Orderly' /\ OthersStay(t) /\ EndsWell(t) /\ exc'[t] = "Cancelled"
  BY SameCall, GotoOrderly DEF Return, Steps, Outcomes, EndsWell

LEMMA AbortOrderly ==
    ASSUME ControlOK, Orderly, NEW t \in Tasks, pc[t] # "idle", UNCHANGED call,
           op[t] # "close", Abort(t)
    PROVE  /\ Orderly' /\ OthersStay(t) /\ EndsWell(t)
           /\ exc[t] = "Cancelled" => exc'[t] = "Cancelled"
<1>1. exc[t] \in Outcomes
  BY DEF ControlOK
<1> QED
  BY <1>1, RaiseOrderly, ReturnCancelled DEF Abort

LEMMA CallOrderly ==
    ASSUME ControlOK, Orderly, NEW t \in Tasks, pc[t] # "idle", UNCHANGED call,
           op[t] # "close", NEW c, NEW step \in GattSteps,
           \/ BeginCommand(t, c) \/ CallBleak(t, step)
           \/ Goto(t, "settle", None, "none")
    PROVE  Orderly' /\ OthersStay(t) /\ EndsWell(t)
<1>1. ASSUME NEW s \in GattSteps \cup {"issue", "settle"}, NEW d,
             Goto(t, s, d, "none")
      PROVE  Orderly' /\ OthersStay(t) /\ EndsWell(t)
  BY <1>1, SameCall, GotoOrderly DEF Steps, GattSteps, Outcomes, EndsWell
<1> QED
  BY <1>1, RaiseOrderly DEF BeginCommand, CallBleak, Outcomes

-----------------------------------------------------------------------------
\* A call begins with its first attempt and nothing in flight.
LEMMA StartOrderly ==
    ASSUME TypeOK, Orderly, NEW t \in Tasks, Start(t)
    PROVE  Orderly' /\ OthersStay(t) /\ pc[t] = "idle"
<1>c. ControlOK
  BY DEF TypeOK
<1>1. ASSUME NEW o, NEW r, Begin(t, o, r)
      PROVE  OwnCall(t) /\ Counted(t)' /\ op'[t] = o /\ pc[t] = "idle"
  BY <1>1 DEF Begin, OwnCall, Counted, TypeOK, CallOK
<1>2. CASE Enter(t)
  <2>1. OwnCall(t) /\ Counted(t)' /\ op'[t] = "enter" /\ pc[t] = "idle"
    BY <1>1, <1>2 DEF Enter
  <2>2. PICK c \in Clients : Goto(t, "connect", c, "none")
    BY <1>2 DEF Enter, Dial
  <2> QED
    BY <1>c, <2>1, <2>2, GotoOrderly DEF Steps, GattSteps, Outcomes
<1>3. CASE Ensure(t)
  <2>1. OwnCall(t) /\ Counted(t)' /\ op'[t] = "ensure" /\ pc[t] = "idle"
    BY <1>1, <1>3 DEF Ensure
  <2> QED
    BY <1>c, <1>3, <2>1, CloseStartOrderly DEF Ensure, Outcomes
<1>4. CASE Reconnect(t)
  <2>1. OwnCall(t) /\ Counted(t)' /\ op'[t] = "reconnect" /\ pc[t] = "idle"
    BY <1>1, <1>4 DEF Reconnect
  <2> QED
    BY <1>c, <1>4, <2>1, CloseStartOrderly DEF Reconnect, Outcomes
<1>5. CASE Close(t)
  <2>1. OwnCall(t) /\ Counted(t)' /\ op'[t] = "close" /\ pc[t] = "idle"
    BY <1>1, <1>5 DEF Close
  <2>2. CASE Goto(t, "stopNotify", bleak, "none")
    BY <1>c, <2>1, <2>2, GotoOrderly DEF Steps, GattSteps, Outcomes
  <2> QED
    BY <1>c, <1>5, <2>1, <2>2, ClosedOrderly DEF Close, Outcomes
<1> QED
  BY <1>2, <1>3, <1>4, <1>5 DEF Start

\* A call in progress stays orderly, ends well, and keeps its cancellation.
LEMMA CallStepOrderly ==
    ASSUME TypeOK, Orderly, NEW t \in Tasks, Progress(t) \/ Cancel(t)
    PROVE  /\ Orderly' /\ OthersStay(t) /\ pc[t] # "idle"
           /\ StartNotifyOk(t) \/ EndsWell(t)
           /\ exc[t] = "Cancelled" => exc'[t] = "Cancelled"
<1>c. ControlOK
  BY DEF TypeOK
<1>o. ASSUME pc[t] \notin {"idle", "stopNotify", "disconnect"}
      PROVE  op[t] # "close"
  BY <1>o DEF Orderly
<1>r. ASSUME pc[t] # "idle", ~reap[t]
      PROVE  exc[t] # "Cancelled"
  BY <1>r DEF Orderly
<1>1. CASE Connecting(t)
  <2>1. /\ pc[t] \notin {"idle", "stopNotify", "disconnect"}
        /\ ~reap[t] /\ UNCHANGED call
    BY <1>1 DEF Connecting, ConnectOk, CommandIssued, WriteDone, CommandOk,
                CommandRefused, Settled, StartNotifyOk, GattError, Awaits
  <2>2. op[t] # "close" /\ exc[t] # "Cancelled"
    BY <2>1, <1>o, <1>r
  <2>3. CASE StartNotifyOk(t)
    <3>1. Return(t, "none") /\ OwnCall(t)
      BY <2>1, <2>3, SameCall DEF StartNotifyOk
    <3> QED
      BY <1>c, <2>1, <2>2, <2>3, <3>1, GotoOrderly DEF Return, Steps, Outcomes
  <2>4. CASE ConnectOk(t) \/ CommandRefused(t) \/ GattError(t)
    BY <1>c, <2>1, <2>2, <2>4, RaiseOrderly, CallOrderly
       DEF ConnectOk, CommandRefused, GattError, Outcomes, BackendErrors,
           GattSteps
  <2>5. CASE CommandIssued(t) \/ WriteDone(t) \/ CommandOk(t) \/ Settled(t)
    BY <1>c, <2>1, <2>2, <2>5, CallOrderly
       DEF CommandIssued, WriteDone, CommandOk, Settled, GattSteps
  <2> QED
    BY <1>1, <2>3, <2>4, <2>5 DEF Connecting
<1>2. CASE TearingDown(t)
  <2>1. pc[t] # "idle" /\ ~reap[t] /\ UNCHANGED call
    BY <1>2 DEF TearingDown, StopNotifyDone, DisconnectOk, DisconnectError, Awaits
  <2>2. OwnCall(t) /\ Counted(t)' /\ op'[t] = op[t]
    BY <2>1, SameCall
  <2>3. /\ exc[t] \in Outcomes \ {"Cancelled"}
        /\ op[t] = "close" => exc[t] = "none"
    BY <2>1 DEF TypeOK, ControlOK, Orderly
  <2>4. CASE StopNotifyDone(t)
    BY <1>c, <2>1, <2>2, <2>3, <2>4, CloseStartOrderly
       DEF StopNotifyDone, Outcomes
  <2>5. CASE DisconnectOk(t) \/ DisconnectError(t)
    BY <1>c, <2>1, <2>2, <2>3, <2>5, ClosedOrderly
       DEF DisconnectOk, DisconnectError
  <2> QED
    BY <1>2, <2>4, <2>5 DEF TearingDown
<1>3. CASE Timeout(t)
  <2>1. /\ pc[t] \in GattSteps /\ ~reap[t] /\ UNCHANGED <<pc, call>>
        /\ reap' = [reap EXCEPT ![t] = TRUE]
        /\ \/ exc' = exc /\ pc[t] \in {"disconnect", "stopNotify"}
           \/ /\ exc' = [exc EXCEPT ![t] = "ConnectionError"]
              /\ pc[t] \notin {"disconnect", "stopNotify"}
    BY <1>3 DEF Timeout
  <2>2. \A u \in Tasks : (Counted(u)' <=> Counted(u)) /\ (MayRetry(u)' <=> MayRetry(u))
    BY <2>1 DEF Counted, MayRetry, call
  <2>3. OthersStay(t) /\ pc'[t] = pc[t] /\ pc[t] # "idle"
    BY <2>1 DEF TypeOK, ControlOK, OthersStay, call, GattSteps
  <2>4. Orderly'
    BY <2>1, <2>2 DEF TypeOK, ControlOK, Orderly, call
  <2> QED
    BY <1>r, <2>1, <2>3, <2>4 DEF EndsWell
<1>4. CASE Reaping(t)
  <2>1. pc[t] # "idle" /\ UNCHANGED call
    BY <1>4 DEF Reaping, ReapConnect, ReapCommand, ReapStartNotify,
                ReapDisconnect, ReapStopNotify, Reaped
  <2>2. CASE ReapConnect(t) \/ ReapCommand(t) \/ ReapStartNotify(t)
    <3>1. op[t] # "close"
      BY <1>o, <2>2 DEF ReapConnect, ReapCommand, ReapStartNotify, Reaped
    <3> QED
      BY <1>c, <2>1, <2>2, <3>1, AbortOrderly
         DEF ReapConnect, ReapCommand, ReapStartNotify
  <2>3. CASE Return(t, "Cancelled") /\ UNCHANGED fields
    BY <1>c, <2>1, <2>3, ReturnCancelled
  <2>4. CASE exc[t] # "Cancelled" /\ (ReapDisconnect(t) \/ ReapStopNotify(t))
    <3>1. OwnCall(t) /\ Counted(t)' /\ op'[t] = op[t]
      BY <2>1, SameCall
    <3>2. /\ exc[t] \in Outcomes \ {"Cancelled"}
          /\ op[t] = "close" => exc[t] = "none"
      BY <2>1, <2>4 DEF TypeOK, ControlOK, Orderly
    <3> QED
      BY <1>c, <2>1, <2>4, <3>1, <3>2, ClosedOrderly, CloseStartOrderly
         DEF ReapDisconnect, ReapStopNotify, Outcomes
  <2> QED
    BY <1>4, <2>2, <2>3, <2>4 DEF Reaping, ReapDisconnect, ReapStopNotify
<1>5. CASE RetryWake(t)
  <2>1. /\ pc[t] = "retry" /\ ~reap[t] /\ op' = op /\ retries' = retries
        /\ CloseStart(t, op[t], "none")
    BY <1>5 DEF RetryWake, Awaits
  <2>2. OwnCall(t) /\ Counted(t)'
    BY <1>5, <2>1 DEF RetryWake, OwnCall, Counted, Orderly, MayRetry, TypeOK, CallOK
  <2> QED
    BY <1>c, <1>r, <2>1, <2>2, CloseStartOrderly DEF Outcomes
<1>6. CASE Cancel(t)
  <2>1. pc[t] # "idle" /\ UNCHANGED <<fields, call>>
    BY <1>6 DEF Cancel
  <2>2. CASE Return(t, "Cancelled")
    BY <1>c, <2>1, <2>2, ReturnCancelled
  <2>3. CASE ~Return(t, "Cancelled")
    <3>1. /\ pc[t] \in GattSteps /\ pc' = pc
          /\ \/ exc' = exc /\ reap' = reap
             \/ /\ exc' = [exc EXCEPT ![t] = "Cancelled"]
                /\ reap' = [reap EXCEPT ![t] = TRUE]
      BY <1>6, <2>3 DEF Cancel, control
    <3>2. \A u \in Tasks :
             (Counted(u)' <=> Counted(u)) /\ (MayRetry(u)' <=> MayRetry(u))
      BY <2>1 DEF Counted, MayRetry, call
    <3>3. /\ OthersStay(t) /\ pc'[t] = pc[t]
          /\ exc[t] = "Cancelled" => exc'[t] = "Cancelled"
      BY <2>1, <3>1 DEF TypeOK, ControlOK, OthersStay, call
    <3>4. Orderly'
      BY <2>1, <3>1, <3>2 DEF TypeOK, ControlOK, Orderly, call
    <3> QED
      BY <2>1, <3>3, <3>4 DEF EndsWell
  <2> QED
    BY <2>2, <2>3
<1> QED
  BY <1>1, <1>2, <1>3, <1>4, <1>5, <1>6 DEF Progress

\* Which task a step moves, and how.
LEMMA NextOrderly ==
    ASSUME TypeOK, Orderly, Next
    PROVE  /\ Orderly'
           /\ \/ \E t \in Tasks :
                    /\ OthersStay(t)
                    /\ \/ pc[t] = "idle"
                       \/ /\ StartNotifyOk(t) \/ EndsWell(t)
                          /\ exc[t] = "Cancelled" => exc'[t] = "Cancelled"
              \/ UNCHANGED <<pc, exc>>
<1>1. ASSUME NEW c \in Clients, LinkDrop(c)
      PROVE  Orderly' /\ UNCHANGED <<pc, exc>>
  BY <1>1 DEF LinkDrop, call, control, Orderly, Counted, MayRetry
<1> QED
  BY <1>1, StartOrderly, CallStepOrderly DEF Next

LEMMA OrderlyInvariant == Spec => []Orderly
<1>1. Init => Orderly
  BY DEF Init, Orderly
<1>2. TypeOK /\ Orderly /\ [Next]_vars => Orderly'
  <2>1. ASSUME Orderly, UNCHANGED vars
        PROVE  Orderly'
    BY <2>1 DEF vars, call, control, Orderly, Counted, MayRetry
  <2> QED
    BY <2>1, NextOrderly
<1> QED
  BY <1>1, <1>2, TypeCorrect, PTL DEF Spec

\* A call in progress stays the call it is.
LEMMA NextOps ==
    ASSUME TypeOK, Next, NEW t \in Tasks, pc[t] # "idle"
    PROVE  op'[t] = op[t]
<1>1. ASSUME NEW u \in Tasks, Start(u)
      PROVE  op'[t] = op[t]
  BY <1>1 DEF Start, Enter, Ensure, Reconnect, Close, Begin, TypeOK, CallOK
<1>2. ASSUME NEW u \in Tasks, Connecting(u) \/ TearingDown(u)
      PROVE  op' = op
  BY <1>2 DEF Connecting, ConnectOk, CommandIssued, WriteDone, CommandOk,
              CommandRefused, Settled, StartNotifyOk, GattError, TearingDown,
              StopNotifyDone, DisconnectOk, DisconnectError, call
<1>3. ASSUME NEW u \in Tasks, Reaping(u)
      PROVE  op' = op
  BY <1>3 DEF Reaping, ReapConnect, ReapCommand, ReapStartNotify,
              ReapDisconnect, ReapStopNotify, call
<1> QED
  BY <1>1, <1>2, <1>3
     DEF Next, Progress, Timeout, RetryWake, Cancel, LinkDrop, call

\* A call ends by the success of start_notify or as EndsWell says.
LEMMA HowCallsEnd ==
    ASSUME TypeOK, Orderly, Next, NEW t \in Tasks,
           pc[t] # "idle", pc'[t] = "idle"
    PROVE  StartNotifyOk(t) \/ EndsWell(t)
  BY NextOrderly DEF OthersStay

\* A cancellation in flight reaches the caller of every task, however calls
\* overlap: no step turns it into a retry, a success or another exception.
THEOREM CancellationReachesCaller == Spec => CancellationIsFinal
<1>1. TypeOK /\ Orderly /\ [Next]_vars =>
          [\A t \in Tasks : pc[t] # "idle" /\ exc[t] = "Cancelled" =>
              exc'[t] = "Cancelled"]_vars
  <2>1. ASSUME TypeOK, Orderly, Next, NEW t \in Tasks,
               pc[t] # "idle", exc[t] = "Cancelled"
        PROVE  exc'[t] = "Cancelled"
    BY <2>1, NextOrderly DEF OthersStay
  <2> QED
    BY <2>1
<1> QED
  BY <1>1, TypeCorrect, OrderlyInvariant, PTL DEF Spec, CancellationIsFinal

\* ensure_connected gives up after exactly the attempts it was allowed, for
\* every limit and however calls overlap.
THEOREM RetriesExhausted == Spec => GivesUpAfterRetries
<1>1. TypeOK /\ Orderly /\ [Next]_vars =>
          [\A t \in Tasks : op[t] = "ensure" /\ Returns(t, "ConnectionError") =>
              /\ retries[t] # Forever
              /\ attempt[t] = IF retries[t] = 0 THEN 1 ELSE retries[t]]_vars
  <2>1. ASSUME TypeOK, Orderly, Next, NEW t \in Tasks,
               op[t] = "ensure", Returns(t, "ConnectionError")
        PROVE  /\ retries[t] # Forever
               /\ attempt[t] = IF retries[t] = 0 THEN 1 ELSE retries[t]
    <3>1. pc[t] # "idle" /\ pc'[t] = "idle" /\ exc'[t] = "ConnectionError"
      BY <2>1 DEF Returns
    <3>2. ~StartNotifyOk(t)
      BY <2>1, <3>1 DEF StartNotifyOk, Return, Goto, TypeOK, ControlOK
    <3>3. ~MayRetry(t)
      BY <2>1, <3>1, <3>2, HowCallsEnd DEF EndsWell
    <3>4. Counted(t)
      BY <2>1, <3>1 DEF Orderly
    <3> QED
      BY <2>1, <3>3, <3>4 DEF Counted, MayRetry, TypeOK, CallOK
  <2> QED
    BY <2>1
<1> QED
  BY <1>1, TypeCorrect, OrderlyInvariant, PTL DEF Spec, GivesUpAfterRetries

-----------------------------------------------------------------------------
\* A call that fails, and close(), leave no client and no link that a
\* disconnect was not tried on, when calls do not overlap.
THEOREM FailureLeavesNothing ==
    ASSUME ~Overlap, ~Reenter
    PROVE  Spec => FailureReleasesLink
<1>1. TypeOK /\ Orderly /\ SequentialInv /\ [Next]_vars =>
          [\A t \in Tasks, e \in Outcomes \ {"Cancelled"} :
              Returns(t, e) /\ (e # "none" \/ op[t] = "close") =>
                 /\ bleak' = None
                 /\ \A c \in Clients : link'[c] = "up" => c \in stranded']_vars
  <2>1. ASSUME TypeOK, Orderly, SequentialInv, Next, NEW t \in Tasks,
               NEW e \in Outcomes \ {"Cancelled"},
               Returns(t, e), e # "none" \/ op[t] = "close"
        PROVE  /\ bleak' = None
               /\ \A c \in Clients : link'[c] = "up" => c \in stranded'
    <3>1. pc[t] # "idle" /\ pc'[t] = "idle" /\ exc'[t] = e
      BY <2>1 DEF Returns
    <3>2. ASSUME StartNotifyOk(t)
          PROVE  FALSE
      <4>1. exc'[t] = "none" /\ op[t] # "close"
        BY <2>1, <3>1, <3>2
           DEF StartNotifyOk, Awaits, Return, Goto, TypeOK, ControlOK, Orderly
      <4> QED
        BY <2>1, <3>1, <4>1
    <3>3. bleak' = None
      BY <2>1, <3>1, <3>2, HowCallsEnd DEF EndsWell
    <3>4. NoOrphanedLink'
      BY <2>1, NextSequential DEF SequentialInv
    <3> QED
      BY <3>3, <3>4, NoneAssumption DEF NoOrphanedLink
  <2> QED
    BY <2>1
<1> QED
  BY <1>1, TypeCorrect, OrderlyInvariant, SequentialInvariant, PTL
     DEF Spec, FailureReleasesLink

-----------------------------------------------------------------------------
\* Past the password: from there on a link that is still up is a verified one.
PastPassword(t) ==
    \/ pc[t] \in {"settle", "startNotify"}
    \/ pc[t] \in {"issue", "write", "read"} /\ cmd[t] = "rtc"

Handshaken(t) ==
    PastPassword(t) /\ bleak # None /\ link[bleak] = "up" => bleak \in verified

VerifiedFirst == \A t \in Tasks : Handshaken(t)

\* Returning, failing, dialling and tearing down leave the commands behind.
LEMMA LeavesCommands ==
    ASSUME ControlOK, NEW t \in Tasks, NEW o, NEW e,
           \/ Return(t, e) \/ Dial(t) \/ Closed(t, o, e) \/ CloseStart(t, o, e)
           \/ Raise(t, e) \/ Abort(t)
    PROVE  ~PastPassword(t)'
<1>1. ASSUME NEW step, NEW c, NEW f, Goto(t, step, c, f),
             step \in {"idle", "connect", "disconnect", "retry"}
      PROVE  ~PastPassword(t)'
  BY <1>1 DEF ControlOK, Goto, PastPassword
<1>2. ASSUME NEW f, Return(t, f) \/ Dial(t) \/ AttemptFailed(t, f)
      PROVE  ~PastPassword(t)'
  BY <1>1, <1>2 DEF Return, Dial, AttemptFailed
<1>3. ASSUME NEW p, NEW f, Closed(t, p, f) \/ CloseStart(t, p, f)
      PROVE  ~PastPassword(t)'
  BY <1>1, <1>2, <1>3 DEF Closed, CloseStart
<1> QED
  BY <1>2, <1>3 DEF Raise, Abort

\* A call made while connecting, with the radio as it was.
LEMMA KeepsVerified ==
    ASSUME ControlOK, NEW t \in Tasks, NEW step \in GattSteps,
           Handshaken(t), PastPassword(t)' => PastPassword(t),
           CallBleak(t, step), UNCHANGED <<link, verified>>
    PROVE  Handshaken(t)'
<1>1. CASE UNCHANGED fields
  BY <1>1 DEF fields, Handshaken
<1>2. CASE Raise(t, "AttributeError")
  BY <1>2, LeavesCommands DEF Handshaken
<1> QED
  BY <1>1, <1>2 DEF CallBleak

\* The task that moves has verified what it is about to use.
LEMMA StepVerified ==
    ASSUME TypeOK, NEW t \in Tasks, pc[t] # "idle" => Steady(t), Handshaken(t),
           Start(t) \/ Progress(t) \/ Cancel(t)
    PROVE  Handshaken(t)'
<1>c. ControlOK
  BY DEF TypeOK
<1>0. ASSUME ~PastPassword(t)' PROVE Handshaken(t)'
  BY <1>0 DEF Handshaken
<1>g. ASSUME NEW step, NEW c, NEW e, Goto(t, step, c, e)
      PROVE  pc'[t] = step
  BY <1>c, <1>g DEF ControlOK, Goto
<1>1. CASE Start(t)
  <2>1. CASE Goto(t, "stopNotify", bleak, "none")
    BY <1>g, <1>0, <2>1 DEF PastPassword
  <2> QED
    BY <1>c, <1>0, <1>1, <2>1, LeavesCommands
       DEF Start, Enter, Ensure, Reconnect, Close
<1>2. CASE Connecting(t)
  <2>1. CASE \E e : Raise(t, e) \/ Return(t, e)
    BY <1>c, <1>0, <2>1, LeavesCommands
  <2>2. CASE ConnectOk(t)
    <3>1. CASE Goto(t, "issue", None, "none") /\ cmd' = [cmd EXCEPT ![t] = "verify"]
      BY <1>g, <1>0, <3>1 DEF PastPassword, TypeOK, CallOK
    <3> QED
      BY <2>1, <2>2, <3>1 DEF ConnectOk, BeginCommand
  <2>3. CASE CommandIssued(t) \/ WriteDone(t) \/ Settled(t)
    <3>1. PICK step \in {"write", "read", "startNotify"} :
             /\ CallBleak(t, step) /\ UNCHANGED <<link, verified, cmd>>
             /\ \/ step \in {"write", "read"} /\ pc[t] \in {"issue", "write"}
                \/ step = "startNotify" /\ pc[t] = "settle"
      BY <2>3 DEF CommandIssued, WriteDone, Settled, Awaits, radio
    <3>2. CASE Goto(t, step, bleak, "none")
      <4>1. PastPassword(t)' => PastPassword(t)
        BY <1>g, <3>1, <3>2 DEF PastPassword
      <4> QED
        BY <1>c, <3>1, <4>1, KeepsVerified DEF GattSteps
    <3> QED
      BY <2>1, <3>1, <3>2 DEF CallBleak
  <2>4. CASE CommandOk(t)
    <3>1. on[t] = bleak
      BY <2>4 DEF CommandOk, Awaits, Steady, GattSteps
    <3>2. CASE UNCHANGED fields
      <4>1. link' = link /\ verified \subseteq verified' /\ bleak' = bleak
            /\ (cmd[t] # "verify" \/ bleak \in verified')
        BY <2>4, <3>1, <3>2 DEF CommandOk, fields
      <4>2. cmd[t] = "verify" \/ PastPassword(t)
        BY <2>4 DEF CommandOk, Awaits, PastPassword, TypeOK, CallOK
      <4> QED
        BY <4>1, <4>2 DEF Handshaken
    <3> QED
      BY <2>1, <2>4, <3>2 DEF CommandOk, BeginCommand
  <2> QED
    BY <1>2, <2>1, <2>2, <2>3, <2>4
       DEF Connecting, CommandRefused, StartNotifyOk, GattError
<1>3. CASE TearingDown(t) \/ Reaping(t) \/ RetryWake(t)
  <2>1. \E o, e : \/ Return(t, e) \/ Closed(t, o, e) \/ CloseStart(t, o, e)
                  \/ Abort(t)
    BY <1>3 DEF TearingDown, StopNotifyDone, DisconnectOk, DisconnectError,
                Reaping, ReapConnect, ReapCommand, ReapStartNotify,
                ReapDisconnect, ReapStopNotify, RetryWake
  <2> QED
    BY <1>c, <1>0, <2>1, LeavesCommands
<1>4. CASE Timeout(t) \/ Cancel(t)
  <2>1. CASE Return(t, "Cancelled")
    BY <1>c, <1>0, <2>1, LeavesCommands
  <2>2. CASE UNCHANGED <<pc, cmd, bleak, link, verified>>
    BY <2>2 DEF Handshaken, PastPassword
  <2> QED
    BY <1>4, <2>1, <2>2 DEF Timeout, Cancel, fields, radio, control
<1> QED
  BY <1>1, <1>2, <1>3, <1>4 DEF Progress

LEMMA LinkDropVerified ==
    ASSUME TypeOK, NEW c \in Clients, LinkDrop(c), NEW t \in Tasks, Handshaken(t)
    PROVE  Handshaken(t)'
BY DEF LinkDrop, DropLink, fields, control, Handshaken, PastPassword, TypeOK,
       FieldsOK, RadioOK

LEMMA NextVerified ==
    ASSUME TypeOK, SequentialInv, ~Overlap, VerifiedFirst, Next
    PROVE  VerifiedFirst'
<1>1. ASSUME NEW t \in Tasks, Start(t) \/ Progress(t) \/ Cancel(t)
      PROVE  VerifiedFirst'
  <2>1. Alone(t)' /\ Steady(t)
    BY <1>1, MovesAlone
  <2>2. Handshaken(t)'
    BY <1>1, <2>1, StepVerified DEF VerifiedFirst
  <2> QED
    BY <2>1, <2>2 DEF Alone, VerifiedFirst, Handshaken, PastPassword
<1> QED
  BY <1>1, LinkDropVerified DEF Next, VerifiedFirst

LEMMA VerifiedInvariant ==
    ASSUME ~Overlap, ~Reenter
    PROVE  Spec => []VerifiedFirst
<1>1. Init => VerifiedFirst
  BY DEF Init, VerifiedFirst, Handshaken, PastPassword
<1>2. TypeOK /\ SequentialInv /\ VerifiedFirst /\ [Next]_vars => VerifiedFirst'
  <2>1. ASSUME VerifiedFirst, UNCHANGED vars
        PROVE  VerifiedFirst'
    BY <2>1 DEF vars, fields, radio, control, VerifiedFirst, Handshaken,
                PastPassword
  <2> QED
    BY <2>1, NextVerified
<1> QED
  BY <1>1, <1>2, TypeCorrect, SequentialInvariant, PTL DEF Spec

\* What the success of start_notify means on one's own client.
LEMMA StartNotifyStreams ==
    ASSUME TypeOK, NEW t \in Tasks, Steady(t), Handshaken(t), StartNotifyOk(t)
    PROVE  /\ bleak' # None /\ link'[bleak'] = "up"
           /\ bleak' \in verified' \cap subscribed'
<1>1. on[t] = bleak /\ bleak # None
  BY AwaitsOwnClient DEF StartNotifyOk, Awaits, GattSteps
<1>2. /\ link[bleak] = "up" /\ PastPassword(t)
      /\ UNCHANGED <<bleak, link, verified>> /\ bleak \in subscribed'
  BY <1>1 DEF StartNotifyOk, Awaits, PastPassword, fields
<1> QED
  BY <1>1, <1>2 DEF Handshaken

\* A call that opens the connection returns normally only with a link that is
\* up, verified and subscribed, through any failures, timeouts, retries and
\* cancellations before, when calls do not overlap.
THEOREM SuccessStreams ==
    ASSUME ~Overlap, ~Reenter
    PROVE  Spec => SuccessIsStreaming
<1>1. TypeOK /\ Orderly /\ SequentialInv /\ VerifiedFirst /\ [Next]_vars =>
          [\A t \in Tasks : op[t] # "close" /\ Returns(t, "none") =>
              /\ bleak' # None
              /\ link'[bleak'] = "up"
              /\ bleak' \in verified' \cap subscribed']_vars
  <2>1. ASSUME TypeOK, Orderly, SequentialInv, VerifiedFirst, Next,
               NEW t \in Tasks, op[t] # "close", Returns(t, "none")
        PROVE  /\ bleak' # None
               /\ link'[bleak'] = "up"
               /\ bleak' \in verified' \cap subscribed'
    <3>1. pc[t] # "idle" /\ pc'[t] = "idle" /\ exc'[t] = "none"
      BY <2>1 DEF Returns
    <3>2. op'[t] = op[t]
      BY <2>1, <3>1, NextOps
    <3>3. StartNotifyOk(t)
      BY <2>1, <3>1, <3>2, HowCallsEnd DEF EndsWell
    <3> QED
      BY <2>1, <3>3, SequentialSteady, StartNotifyStreams DEF VerifiedFirst
  <2> QED
    BY <2>1
<1> QED
  BY <1>1, TypeCorrect, OrderlyInvariant, SequentialInvariant,
     VerifiedInvariant, PTL DEF Spec, SuccessIsStreaming

\* What the docstrings of close and _connect_with_cleanup say of teardown holds
\* as long as calls do not overlap (the run conn_overlap shows that it does not
\* hold when they do): a client that is given up has its link down or was
\* disconnected in vain.
THEOREM TeardownKept ==
    ASSUME ~Overlap, ~Reenter
    PROVE  Spec => TeardownReleasesTheLink
<1>1. TypeOK /\ SequentialInv /\ [Next]_vars =>
          [bleak # None /\ bleak' = None =>
              link'[bleak] = "down" \/ bleak \in stranded']_vars
  <2>1. ASSUME TypeOK, SequentialInv, Next, bleak # None, bleak' = None
        PROVE  link'[bleak] = "down" \/ bleak \in stranded'
    <3>1. RadioOK' /\ NoOrphanedLink' /\ bleak \in Clients
      BY <2>1, NextRadioCall, NextSequential DEF SequentialInv, TypeOK, FieldsOK
    <3> QED
      BY <2>1, <3>1 DEF RadioOK, NoOrphanedLink
  <2> QED
    BY <2>1
<1> QED
  BY <1>1, TypeCorrect, SequentialInvariant, PTL
     DEF Spec, TeardownReleasesTheLink

-----------------------------------------------------------------------------
(* Overlapping calls.  Whatever they leave behind, a call that nobody        *)
(* overlaps is the only one, is steady and verifies its client.              *)

Tracked ==
    \A t \in Tasks : t \in Busy /\ t \notin overlapped =>
        Alone(t) /\ Steady(t) /\ Handshaken(t)

\* A call that begins, and is over at once, has found and left no client.
LEMMA StartsAndEnds ==
    ASSUME TypeOK, NEW u \in Tasks, Start(u), pc'[u] = "idle"
    PROVE  UNCHANGED <<bleak, link, verified>>
<1>c. ControlOK /\ UNCHANGED <<link, verified>>
  BY DEF TypeOK, Start, Enter, Ensure, Reconnect, Close, Begin, radio
<1>1. ASSUME NEW step, NEW c, NEW e, Goto(u, step, c, e)
      PROVE  step = "idle"
  BY <1>c, <1>1 DEF ControlOK, Goto
<1>2. ~Dial(u)
  BY <1>1 DEF Dial
<1>3. ASSUME NEW o, o # "close" PROVE ~CloseStart(u, o, "none")
  BY <1>1, <1>2, <1>3 DEF CloseStart, Closed
<1>4. bleak = None /\ Closed(u, "close", "none")
  BY <1>1, <1>2, <1>3 DEF Start, Enter, Ensure, Reconnect, Close
<1> QED
  BY <1>c, <1>2, <1>4 DEF Closed, ClearFields

\* A step during the call of t that nobody overlaps is one of t's own, or
\* leaves what t works on as it is, but for a link that drops.
LEMMA UnsharedStep ==
    ASSUME TypeOK, Orderly, Tracked, OverlapNext, NEW t \in Tasks, Unshared(t)
    PROVE  /\ Steady(t)' /\ Handshaken(t)' /\ Tidy
           /\ Progress(t) \/ Cancel(t) \/ (pc'[t] = pc[t] /\ bleak' = bleak)
<1>1. Alone(t) /\ Steady(t) /\ Handshaken(t)
  BY DEF Unshared, Tracked
<1>2. CASE Progress(t) \/ Cancel(t)
  BY <1>1, <1>2, CallStepSteady, StepVerified DEF Steadily
<1>3. ASSUME NEW c \in Clients, LinkDrop(c)
      PROVE  /\ Steady(t)' /\ Handshaken(t)' /\ Tidy
             /\ pc'[t] = pc[t] /\ bleak' = bleak
  <2>1. Tidy /\ UNCHANGED <<bleak, pc, on, exc>>
    BY <1>3, LinkDropTidy
  <2> QED
    BY <1>1, <1>3, <2>1, LinkDropVerified DEF Steady
<1>4. ASSUME NEW u \in Tasks, u # t, Start(u)
      PROVE  /\ Steady(t)' /\ Handshaken(t)' /\ Tidy
             /\ pc'[t] = pc[t] /\ bleak' = bleak
  <2>1. Steadily(u) /\ UNCHANGED <<link, stranded, cmd>>
    BY <1>4, StartSteady DEF Start, Enter, Ensure, Reconnect, Close, Begin, radio
  <2>2. pc'[t] = pc[t] /\ on'[t] = on[t] /\ exc'[t] = exc[t]
    BY <1>4, <2>1 DEF Steadily
  <2>3. t \in Busy' /\ t \notin overlapped'
    BY <2>2 DEF Unshared, Busy
  <2>4. pc'[u] = "idle"
    BY <1>4, <2>3 DEF OverlapNext, Busy
  <2>5. UNCHANGED <<bleak, link, verified>>
    BY <1>4, <2>4, StartsAndEnds
  <2> QED
    BY <1>1, <2>1, <2>2, <2>5, RadioTidy DEF Steady, Handshaken, PastPassword
<1>5. ASSUME NEW u \in Tasks, Progress(u) \/ Cancel(u)
      PROVE  u = t
  BY <1>1, <1>5, CallStepOrderly DEF Alone
<1>6. ~Start(t)
  BY StartSteady DEF Unshared, Busy
<1> QED
  BY <1>2, <1>3, <1>4, <1>5, <1>6 DEF OverlapNext, Next

LEMMA NextTracked ==
    ASSUME TypeOK, Orderly, Tracked, OverlapNext
    PROVE  Tracked'
<1> SUFFICES ASSUME NEW t \in Tasks, t \in Busy', t \notin overlapped'
             PROVE  Alone(t)' /\ Steady(t)' /\ Handshaken(t)'
  BY DEF Tracked
<1>1. Busy' = {t} /\ t \notin overlapped
  BY DEF OverlapNext
<1>2. Alone(t)'
  BY <1>1 DEF Busy, Alone
<1>3. CASE t \in Busy
  BY <1>1, <1>2, <1>3, UnsharedStep DEF Unshared
<1>4. CASE t \notin Busy
  <2>1. pc[t] = "idle" /\ pc'[t] # "idle"
    BY <1>4 DEF Busy
  <2>2. ASSUME NEW u \in Tasks, Start(u) \/ Progress(u) \/ Cancel(u)
        PROVE  u = t /\ Start(t)
    BY <2>1, <2>2, StartOrderly, CallStepOrderly DEF OthersStay
  <2>3. ~\E c \in Clients : LinkDrop(c)
    BY <2>1, LinkDropTidy
  <2>4. Start(t)
    BY <2>2, <2>3 DEF OverlapNext, Next
  <2>5. Handshaken(t)
    BY <2>1 DEF Handshaken, PastPassword
  <2> QED
    BY <1>2, <2>1, <2>4, <2>5, StartSteady, StepVerified DEF Steadily
<1> QED
  BY <1>3, <1>4

\* Overlapped or not, the calls are those of Connection.
LEMMA TrackedInvariant == OverlapSpec => Spec /\ [](TypeOK /\ Orderly /\ Tracked)
<1>1. OverlapSpec => Spec
  <2>1. OverlapInit => Init
    BY DEF OverlapInit
  <2>2. [OverlapNext]_overlapVars => [Next]_vars
    BY DEF OverlapNext, overlapVars
  <2> QED
    BY <2>1, <2>2, PTL DEF OverlapSpec, Spec
<1>2. OverlapInit => Tracked
  BY DEF OverlapInit, Init, Tracked, Busy
<1>3. TypeOK /\ Orderly /\ Tracked /\ [OverlapNext]_overlapVars => Tracked'
  <2>1. ASSUME Tracked, UNCHANGED overlapVars
        PROVE  Tracked'
    BY <2>1 DEF overlapVars, vars, fields, radio, control, Tracked, Busy, Alone,
                Steady, Handshaken, PastPassword
  <2> QED
    BY <2>1, NextTracked
<1> QED
  BY <1>1, <1>2, <1>3, TypeCorrect, OrderlyInvariant, PTL DEF OverlapSpec

\* AttributeError and RuntimeError reach only callers whose call another one
\* has overlapped, for any number of tasks, re-entry included.
THEOREM SurprisesOverlap == OverlapSpec => SurprisesNeedOverlap
<1>1. TypeOK /\ Orderly /\ Tracked /\ [OverlapNext]_overlapVars =>
          [\A t \in Tasks : Unshared(t) => exc'[t] \notin Surprises]_overlapVars
  BY UnsharedStep DEF Steady
<1> QED
  BY <1>1, TrackedInvariant, PTL DEF OverlapSpec, SurprisesNeedOverlap

\* A call that nobody overlaps and that returns normally has a link that is up,
\* verified and subscribed, whatever overlapping calls left behind.
THEOREM AloneStreams == OverlapSpec => AloneIsStreaming
<1>1. ASSUME TypeOK, Orderly, Tracked, OverlapNext, NEW t \in Tasks,
             Unshared(t), op[t] # "close", Returns(t, "none")
      PROVE  /\ bleak' # None
             /\ link'[bleak'] = "up"
             /\ bleak' \in verified' \cap subscribed'
  <2>1. pc[t] # "idle" /\ pc'[t] = "idle" /\ exc'[t] = "none" /\ Next
    BY <1>1 DEF Returns, OverlapNext
  <2>2. op'[t] = op[t]
    BY <1>1, <2>1, NextOps
  <2>3. StartNotifyOk(t)
    BY <1>1, <2>1, <2>2, HowCallsEnd DEF EndsWell
  <2>4. Steady(t) /\ Handshaken(t)
    BY <1>1 DEF Unshared, Tracked
  <2> QED
    BY <1>1, <2>3, <2>4, StartNotifyStreams
<1>2. TypeOK /\ Orderly /\ Tracked /\ [OverlapNext]_overlapVars =>
          [\A t \in Tasks :
              Unshared(t) /\ op[t] # "close" /\ Returns(t, "none") =>
                 /\ bleak' # None
                 /\ link'[bleak'] = "up"
                 /\ bleak' \in verified' \cap subscribed']_overlapVars
  BY <1>1
<1> QED
  BY <1>2, TrackedInvariant, PTL DEF OverlapSpec, AloneIsStreaming

\* A call that nobody overlaps lets go of a client with its link down or
\* disconnected in vain, and of any client when it fails or closes.
THEOREM AloneCleansUp == OverlapSpec => AloneLeavesNothing
<1>1. ASSUME TypeOK, Orderly, Tracked, OverlapNext, NEW t \in Tasks, Unshared(t)
      PROVE  bleak # None /\ bleak' # bleak =>
                link'[bleak] = "down" \/ bleak \in stranded'
  BY <1>1, UnsharedStep DEF Tidy
<1>2. ASSUME TypeOK, Orderly, Tracked, OverlapNext, NEW t \in Tasks,
             NEW e \in Outcomes \ {"Cancelled"},
             Returns(t, e), e # "none" \/ op[t] = "close"
      PROVE  bleak' = None
  <2>1. pc[t] # "idle" /\ pc'[t] = "idle" /\ exc'[t] = e /\ Next
    BY <1>2 DEF Returns, OverlapNext
  <2>2. ASSUME StartNotifyOk(t)
        PROVE  FALSE
    <3>1. exc'[t] = "none" /\ op[t] # "close"
      BY <1>2, <2>1, <2>2
         DEF StartNotifyOk, Awaits, Return, Goto, TypeOK, ControlOK, Orderly
    <3> QED
      BY <1>2, <2>1, <3>1
  <2> QED
    BY <1>2, <2>1, <2>2, HowCallsEnd DEF EndsWell
<1>3. TypeOK /\ Orderly /\ Tracked /\ [OverlapNext]_overlapVars =>
          [\A t \in Tasks : Unshared(t) =>
              /\ bleak # None /\ bleak' # bleak =>
                     link'[bleak] = "down" \/ bleak \in stranded'
              /\ \A e \in Outcomes \ {"Cancelled"} :
                    Returns(t, e) /\ (e # "none" \/ op[t] = "close") =>
                       bleak' = None]_overlapVars
  BY <1>1, <1>2
<1> QED
  BY <1>3, TrackedInvariant, PTL DEF OverlapSpec, AloneLeavesNothing

-----------------------------------------------------------------------------
(* Each step of the client is a step of the promise or leaves what the       *)
(* caller sees as it was.                                                    *)

OneTask == \E t : Tasks = {t}

Invariant == TypeOK /\ LockStep /\ Orderly /\ SequentialInv /\ VerifiedFirst

LEMMA CallerIsTheTask ==
    ASSUME OneTask
    PROVE  Tasks = {Caller}
  BY DEF OneTask, Caller

\* A step that the caller does not see.
LEMMA Unseen ==
    ASSUME pc' = pc, exc' = exc, op' = op, bleak' = bleak,
           pc[Caller] # "idle" \/ (Streams <=> Streams')
    PROVE  UNCHANGED Promise!sessionVars
  BY DEF Promise!sessionVars, Phase, Goal, Outcome

LEMMA InitMaps ==
    ASSUME OneTask, Init
    PROVE  Promise!Init
<1>1. Caller \in Tasks
  BY CallerIsTheTask
<1> QED
  BY <1>1 DEF Init, Promise!Init, Phase, Goal, Outcome

\* A call begins, or is over at once because there is nothing to close.
LEMMA StartMaps ==
    ASSUME OneTask, Invariant, Start(Caller)
    PROVE  Promise!Next
<1>t. Caller \in Tasks /\ ControlOK /\ CallOK
  BY CallerIsTheTask DEF Invariant, TypeOK
<1>1. pc[Caller] = "idle"
  BY <1>t, StartOrderly DEF Invariant
<1>2. \/ pc'[Caller] # "idle"
      \/ /\ op'[Caller] = "close" /\ exc'[Caller] = "none"
         /\ bleak = None /\ bleak' = None
  <2>1. ASSUME NEW step, NEW c, NEW e, Goto(Caller, step, c, e)
        PROVE  pc'[Caller] = step /\ exc'[Caller] = e
    BY <1>t, <2>1 DEF ControlOK, Goto
  <2>2. ASSUME Dial(Caller)
        PROVE  pc'[Caller] # "idle"
    BY <2>1, <2>2 DEF Dial
  <2>3. ASSUME NEW o, o # "close", CloseStart(Caller, o, "none")
        PROVE  pc'[Caller] # "idle"
    BY <2>1, <2>2, <2>3 DEF CloseStart, Closed
  <2>4. CASE Close(Caller)
    <3>1. op'[Caller] = "close"
      BY <1>t, <2>4 DEF Close, Begin, CallOK
    <3> QED
      BY <2>1, <2>2, <2>4, <3>1 DEF Close, Closed, Return, ClearFields
  <2> QED
    BY <2>2, <2>3, <2>4 DEF Start, Enter, Ensure, Reconnect
<1>3. Outcome' = "none"
  BY <1>2 DEF Outcome
<1>4. Goal' \in {"open", "closed"}
  BY DEF Goal
<1>5. Phase' = "busy"
      \/ (Goal' = "closed" /\ Phase = "closed" /\ Phase' = "closed")
  BY <1>1, <1>2 DEF Phase, Goal
<1>6. Phase # "busy"
  BY <1>1 DEF Phase, Streams
<1> QED
  BY <1>3, <1>4, <1>5, <1>6 DEF Promise!Next, Promise!Call

\* A call in progress goes on unseen, or ends as Session says.
LEMMA CallStepMaps ==
    ASSUME OneTask, Invariant, ~Overlap, ~Reenter,
           Progress(Caller) \/ Cancel(Caller)
    PROVE  Promise!Next \/ UNCHANGED Promise!sessionVars
<1>t. Caller \in Tasks /\ ControlOK /\ Next
  BY CallerIsTheTask DEF Invariant, TypeOK, Next
<1>1. /\ pc[Caller] # "idle" /\ op'[Caller] = op[Caller]
      /\ StartNotifyOk(Caller) \/ EndsWell(Caller)
  BY <1>t, CallStepOrderly, NextOps DEF Invariant
<1>2. Phase = "busy" /\ Outcome = "none" /\ Goal' = Goal
  BY <1>1 DEF Phase, Outcome, Goal
<1>3. CASE pc'[Caller] # "idle"
  BY <1>2, <1>3 DEF Promise!sessionVars, Phase, Outcome
<1>4. CASE pc'[Caller] = "idle" /\ StartNotifyOk(Caller)
  <2>1. Streams' /\ bleak' # None
    BY <1>t, <1>4, SequentialSteady, StartNotifyStreams
       DEF Invariant, VerifiedFirst, Streams
  <2>2. exc'[Caller] = "none" /\ op[Caller] # "close"
    BY <1>t, <1>1, <1>4
       DEF StartNotifyOk, Awaits, Return, Goto, ControlOK, Invariant, Orderly
  <2>3. Goal = "open" /\ Phase' = "open" /\ Outcome' = "none"
    BY <1>4, <2>1, <2>2 DEF Goal, Phase, Outcome
  <2> QED
    BY <1>2, <2>3 DEF Promise!Next, Promise!Succeeds, Promise!Ends
<1>5. CASE pc'[Caller] = "idle" /\ EndsWell(Caller)
  <2>1. CASE exc'[Caller] = "Cancelled" /\ UNCHANGED fields
    <3>1. Outcome' = "Cancelled" /\ bleak' = bleak
      BY <1>5, <2>1 DEF Outcome, fields
    <3>2. Phase' \in Promise!Phases \ {"busy"}
      BY <1>5 DEF Phase, Promise!Phases
    <3>3. ASSUME Goal = "closed"
          PROVE  Phase' # "closed"
      <4>1. pc[Caller] \in GattSteps
        BY <1>t, <1>1, <3>3 DEF Goal, Invariant, Orderly, GattSteps
      <4>2. bleak # None
        BY <1>t, <4>1, SequentialSteady, AwaitsOwnClient DEF Invariant
      <4> QED
        BY <1>5, <3>1, <4>2 DEF Phase
    <3> QED
      BY <1>2, <3>1, <3>2, <3>3
         DEF Promise!Next, Promise!Interrupted, Promise!Ends
  <2>2. CASE exc'[Caller] = "none" /\ op'[Caller] = "close" /\ bleak' = None
    <3>1. Goal = "closed" /\ Phase' = "closed" /\ Outcome' = "none"
      BY <1>1, <1>5, <2>2 DEF Goal, Phase, Outcome
    <3> QED
      BY <1>2, <3>1 DEF Promise!Next, Promise!Releases, Promise!Ends
  <2>3. CASE /\ exc'[Caller] \notin {"none", "Cancelled"}
             /\ op[Caller] # "close" /\ bleak' = None
    <3>1. Goal = "open" /\ Phase' = "closed" /\ Outcome' = exc'[Caller]
      BY <1>5, <2>3 DEF Goal, Phase, Outcome
    <3>2. ControlOK' /\ NoSurprise'
      BY <1>t, NextCore, NextSequential
         DEF Invariant, SequentialInv, Core, TypeOK
    <3>3. exc'[Caller] \in Promise!Failures
      BY <1>t, <2>3, <3>2
         DEF ControlOK, NoSurprise, Surprises, Outcomes, Promise!Failures
    <3> QED
      BY <1>2, <3>1, <3>3 DEF Promise!Next, Promise!Fails, Promise!Ends
  <2> QED
    BY <1>5, <2>1, <2>2, <2>3 DEF EndsWell
<1> QED
  BY <1>1, <1>3, <1>4, <1>5

\* The link goes down: between calls the caller may lose an open connection.
LEMMA LinkDropMaps ==
    ASSUME OneTask, Invariant, NEW c \in Clients, LinkDrop(c)
    PROVE  Promise!Next \/ UNCHANGED Promise!sessionVars
<1>1. UNCHANGED <<pc, exc, op, bleak>>
  BY DEF LinkDrop, fields, call, control
<1>2. CASE pc[Caller] # "idle" \/ (Streams <=> Streams')
  BY <1>1, <1>2, Unseen
<1>3. CASE pc[Caller] = "idle" /\ ~(Streams <=> Streams')
  <2>1. Streams /\ ~Streams'
    BY <1>1, <1>3
       DEF LinkDrop, DropLink, Streams, Invariant, TypeOK, FieldsOK, RadioOK
  <2>2. Phase = "open" /\ Phase' = "half" /\ UNCHANGED <<Goal, Outcome>>
    BY <1>1, <1>3, <2>1 DEF Phase, Goal, Outcome, Streams
  <2> QED
    BY <2>2 DEF Promise!Next, Promise!Drop
<1> QED
  BY <1>2, <1>3

LEMMA NextMaps ==
    ASSUME OneTask, ~Overlap, ~Reenter, Invariant, [Next]_vars
    PROVE  [Promise!Next]_Promise!sessionVars
<1>1. ASSUME NEW t \in Tasks, Start(t) \/ Progress(t) \/ Cancel(t)
      PROVE  Promise!Next \/ UNCHANGED Promise!sessionVars
  <2>1. t = Caller
    BY CallerIsTheTask
  <2> QED
    BY <1>1, <2>1, StartMaps, CallStepMaps
<1>2. CASE UNCHANGED vars
  <2>1. Streams <=> Streams'
    BY <1>2 DEF vars, fields, radio, Streams
  <2> QED
    BY <1>2, <2>1, Unseen DEF vars, fields, call, control
<1> QED
  BY <1>1, <1>2, LinkDropMaps DEF Next

\* What Session promises a caller that makes one call at a time is kept by the
\* client, for any number of client objects and any retry limit.
THEOREM SessionKept ==
    ASSUME OneTask, ~Overlap, ~Reenter
    PROVE  Spec => ImplementsSession
<1>1. Init => Promise!Init
  BY InitMaps
<1>2. Invariant /\ [Next]_vars => [Promise!Next]_Promise!sessionVars
  BY NextMaps
<1>3. Spec => []Invariant
  BY TypeCorrect, FieldsInLockStep, OrderlyInvariant, SequentialInvariant,
     VerifiedInvariant, PTL DEF Invariant
<1> QED
  BY <1>1, <1>2, <1>3, PTL DEF Spec, ImplementsSession, Promise!Spec
=============================================================================
