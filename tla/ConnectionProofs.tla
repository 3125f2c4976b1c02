-------------------------- MODULE ConnectionProofs --------------------------
(***************************************************************************)
(* Proofs about Connection for every set of clients and tasks and every    *)
(* retry limit.                                                            *)
(*                                                                         *)
(* The actions are built from a few operators that say where a task goes   *)
(* next.  Each lemma gives what one of them establishes, so that the proof *)
(* for an action cites the lemma instead of expanding the operator.        *)
(***************************************************************************)
EXTENDS Connection, TLAPS

\* What those operators preserve.
Core == FieldsOK /\ LockStep /\ ControlOK

\* Suspending a task keeps its control state well formed when the client it
\* awaits goes with the step (asyncio task suspended in transport.py).
LEMMA GotoControl ==
    ASSUME ControlOK, NEW t \in Tasks, NEW step \in Steps,
           NEW c \in Clients \cup {None}, NEW e \in Outcomes,
           step \in GattSteps <=> c # None,
           Goto(t, step, c, e)
    PROVE  ControlOK'
  BY DEF ControlOK, Goto

\* Installing a new client sets the three fields together.
LEMMA DialCore ==
    ASSUME Core, NEW t \in Tasks, Dial(t)
    PROVE  Core'
<1>1. PICK c \in Clients : /\ bleak' = c /\ queue' = c /\ loop' = TRUE
                           /\ Goto(t, "connect", c, "none")
  BY DEF Dial
<1>2. ControlOK'
  BY <1>1, GotoControl, NoneAssumption DEF Core, Steps, GattSteps, Outcomes
<1> QED
  BY <1>1, <1>2, NoneAssumption DEF Core, FieldsOK, LockStep

\* The end of an attempt: retry, or return to the caller.
LEMMA AttemptFailedControl ==
    ASSUME ControlOK, NEW t \in Tasks, NEW e \in Outcomes, AttemptFailed(t, e)
    PROVE  ControlOK'
<1>1. CASE Goto(t, "retry", None, "none")
  BY <1>1, GotoControl DEF Steps, GattSteps, Outcomes
<1>2. CASE Return(t, e)
  BY <1>2, GotoControl DEF Return, Steps, GattSteps, Outcomes
<1> QED
  BY <1>1, <1>2 DEF AttemptFailed

\* The end of _close and what follows it.
LEMMA ClosedCore ==
    ASSUME Core, NEW t \in Tasks, NEW o, NEW e \in Outcomes, Closed(t, o, e)
    PROVE  Core'
<1>1. CASE ClearFields /\ AttemptFailed(t, e)
  BY <1>1, AttemptFailedControl
     DEF Core, ClearFields, FieldsOK, LockStep
<1>2. CASE ClearFields /\ Return(t, "none")
  <2>1. ControlOK'
    BY <1>2, GotoControl DEF Core, Return, Steps, GattSteps, Outcomes
  <2> QED
    BY <1>2, <2>1 DEF Core, ClearFields, FieldsOK, LockStep
<1>3. CASE Dial(t)
  BY <1>3, DialCore
<1> QED
  BY <1>1, <1>2, <1>3 DEF Closed

\* _close from its beginning.
LEMMA CloseStartCore ==
    ASSUME Core, NEW t \in Tasks, NEW o, NEW e \in Outcomes, CloseStart(t, o, e)
    PROVE  Core'
<1>1. CASE bleak # None /\ Goto(t, "disconnect", bleak, e) /\ UNCHANGED fields
  <2>1. ControlOK'
    BY <1>1, GotoControl DEF Core, FieldsOK, Steps, GattSteps
  <2> QED
    BY <1>1, <2>1 DEF Core, fields, FieldsOK, LockStep
<1>2. CASE Closed(t, o, e)
  BY <1>2, ClosedCore
<1> QED
  BY <1>1, <1>2 DEF CloseStart

\* A failed attempt closes with a documented exception in flight.
LEMMA RaiseCore ==
    ASSUME Core, NEW t \in Tasks, NEW e \in Outcomes \cup BackendErrors,
           Raise(t, e)
    PROVE  Core'
<1>1. Normalize(e) \in Outcomes
  BY DEF Normalize, Outcomes, BackendErrors
<1> QED
  BY <1>1, CloseStartCore DEF Raise

\* A task that stops awaiting a cancelled inner task.
LEMMA AbortCore ==
    ASSUME Core, NEW t \in Tasks, Abort(t)
    PROVE  Core'
<1>1. CASE Return(t, "Cancelled") /\ UNCHANGED fields
  <2>1. ControlOK'
    BY <1>1, GotoControl DEF Core, Return, Steps, GattSteps, Outcomes
  <2> QED
    BY <1>1, <2>1 DEF Core, fields, FieldsOK, LockStep
<1>2. CASE Raise(t, exc[t])
  <2>1. exc[t] \in Outcomes
    BY DEF Core, ControlOK
  <2> QED
    BY <1>2, <2>1, RaiseCore
<1> QED
  BY <1>1, <1>2 DEF Abort

\* send_command begins.
LEMMA BeginCommandCore ==
    ASSUME Core, NEW t \in Tasks, NEW c, BeginCommand(t, c)
    PROVE  Core'
<1>1. CASE Goto(t, "issue", None, "none") /\ UNCHANGED fields
  <2>1. ControlOK'
    BY <1>1, GotoControl DEF Core, Steps, GattSteps, Outcomes
  <2> QED
    BY <1>1, <2>1 DEF Core, fields, FieldsOK, LockStep
<1>2. CASE Raise(t, "RuntimeError")
  BY <1>2, RaiseCore DEF Outcomes
<1> QED
  BY <1>1, <1>2 DEF BeginCommand

\* A bleak call on whatever self._bleak is now.
LEMMA CallBleakCore ==
    ASSUME Core, NEW t \in Tasks, NEW step \in GattSteps, CallBleak(t, step)
    PROVE  Core'
<1>1. CASE bleak # None /\ Goto(t, step, bleak, "none") /\ UNCHANGED fields
  <2>1. ControlOK'
    BY <1>1, GotoControl DEF Core, FieldsOK, Steps, Outcomes
  <2> QED
    BY <1>1, <2>1 DEF Core, fields, FieldsOK, LockStep
<1>2. CASE Raise(t, "AttributeError")
  BY <1>2, RaiseCore DEF Outcomes
<1> QED
  BY <1>1, <1>2 DEF CallBleak

-----------------------------------------------------------------------------
\* Every step keeps Core: by the lemma of the operator it ends with.
LEMMA NextCore ==
    ASSUME Core, Next
    PROVE  Core'
<1> USE DEF Core
<1>1. ASSUME NEW t \in Tasks, Start(t)
      PROVE  Core'
  <2>1. CASE Enter(t)
    BY <2>1, DialCore DEF Enter
  <2>2. CASE Ensure(t)
    BY <2>2, CloseStartCore DEF Ensure, Outcomes
  <2>3. CASE Reconnect(t)
    BY <2>3, CloseStartCore DEF Reconnect, Outcomes
  <2>4. CASE Close(t)
    <3>1. CASE bleak # None /\ Goto(t, "stopNotify", bleak, "none")
                 /\ UNCHANGED fields
      <4>1. ControlOK'
        BY <3>1, GotoControl DEF FieldsOK, Steps, GattSteps, Outcomes
      <4> QED
        BY <3>1, <4>1 DEF fields, FieldsOK, LockStep
    <3>2. CASE Closed(t, "close", "none")
      BY <3>2, ClosedCore DEF Outcomes
    <3> QED
      BY <2>4, <3>1, <3>2 DEF Close
  <2> QED
    BY <1>1, <2>1, <2>2, <2>3, <2>4 DEF Start
<1>2. ASSUME NEW t \in Tasks, Connecting(t)
      PROVE  Core'
  <2>1. CASE ConnectOk(t)
    BY <2>1, BeginCommandCore, RaiseCore DEF ConnectOk, Outcomes
  <2>2. CASE CommandIssued(t)
    BY <2>2, CallBleakCore DEF CommandIssued, GattSteps
  <2>3. CASE WriteDone(t)
    BY <2>3, CallBleakCore DEF WriteDone, GattSteps
  <2>4. CASE CommandOk(t)
    <3>1. CASE Goto(t, "settle", None, "none") /\ UNCHANGED fields
      <4>1. ControlOK'
        BY <3>1, GotoControl DEF Steps, GattSteps, Outcomes
      <4> QED
        BY <3>1, <4>1 DEF fields, FieldsOK, LockStep
    <3> QED
      BY <2>4, <3>1, BeginCommandCore DEF CommandOk
  <2>5. CASE CommandRefused(t)
    BY <2>5, RaiseCore DEF CommandRefused, Outcomes
  <2>6. CASE Settled(t)
    BY <2>6, CallBleakCore DEF Settled, GattSteps
  <2>7. CASE StartNotifyOk(t)
    <3>1. Goto(t, "idle", None, "none") /\ UNCHANGED fields
      BY <2>7 DEF StartNotifyOk, Return, fields
    <3>2. ControlOK'
      BY <3>1, GotoControl DEF Steps, GattSteps, Outcomes
    <3> QED
      BY <3>1, <3>2 DEF fields, FieldsOK, LockStep
  <2>8. CASE GattError(t)
    BY <2>8, RaiseCore DEF GattError
  <2> QED
    BY <1>2, <2>1, <2>2, <2>3, <2>4, <2>5, <2>6, <2>7, <2>8 DEF Connecting
<1>3. ASSUME NEW t \in Tasks, TearingDown(t)
      PROVE  Core'
  <2>1. exc[t] \in Outcomes
    BY DEF ControlOK
  <2> QED
    BY <1>3, <2>1, CloseStartCore, ClosedCore
       DEF TearingDown, StopNotifyDone, DisconnectOk, DisconnectError, Outcomes
<1>4. ASSUME NEW t \in Tasks, Timeout(t)
      PROVE  Core'
  BY <1>4 DEF Timeout, fields, FieldsOK, LockStep, ControlOK, Outcomes
<1>5. ASSUME NEW t \in Tasks, Reaping(t)
      PROVE  Core'
  <2>1. CASE ReapConnect(t) \/ ReapCommand(t) \/ ReapStartNotify(t)
    BY <2>1, AbortCore DEF ReapConnect, ReapCommand, ReapStartNotify
  <2>2. CASE ReapDisconnect(t) \/ ReapStopNotify(t)
    <3>1. CASE Return(t, "Cancelled") /\ UNCHANGED fields
      <4>1. ControlOK'
        BY <3>1, GotoControl DEF Return, Steps, GattSteps, Outcomes
      <4> QED
        BY <3>1, <4>1 DEF fields, FieldsOK, LockStep
    <3>2. CASE Closed(t, op[t], exc[t])
      BY <3>2, ClosedCore DEF ControlOK
    <3>3. CASE CloseStart(t, op[t], "none")
      BY <3>3, CloseStartCore DEF Outcomes
    <3> QED
      BY <2>2, <3>1, <3>2, <3>3 DEF ReapDisconnect, ReapStopNotify
  <2> QED
    BY <1>5, <2>1, <2>2 DEF Reaping
<1>6. ASSUME NEW t \in Tasks, RetryWake(t)
      PROVE  Core'
  BY <1>6, CloseStartCore DEF RetryWake, Outcomes
<1>7. ASSUME NEW t \in Tasks, Cancel(t)
      PROVE  Core'
  <2>1. FieldsOK' /\ LockStep'
    BY <1>7 DEF Cancel, fields, FieldsOK, LockStep
  <2>2. CASE Return(t, "Cancelled")
    BY <2>2, GotoControl, <2>1 DEF Return, Steps, GattSteps, Outcomes
  <2>3. CASE ~Return(t, "Cancelled")
    BY <1>7, <2>1, <2>3 DEF Cancel, control, ControlOK, Outcomes
  <2> QED
    BY <2>2, <2>3
<1>8. ASSUME NEW c \in Clients, LinkDrop(c)
      PROVE  Core'
  BY <1>8 DEF LinkDrop, fields, control, FieldsOK, LockStep, ControlOK
<1> QED
  BY <1>1, <1>2, <1>3, <1>4, <1>5, <1>6, <1>7, <1>8 DEF Next, Progress

\* The radio and the arguments of the calls stay well typed.
LEMMA NextRadioCall ==
    ASSUME TypeOK, Next
    PROVE  RadioOK' /\ CallOK'
<1> USE DEF TypeOK, ControlOK
<1>1. ASSUME NEW t \in Tasks, Start(t)
      PROVE  RadioOK' /\ CallOK'
  <2>1. PICK o \in Operations, r \in RetryLimits \cup {0} : Begin(t, o, r)
    BY <1>1 DEF Start, Enter, Ensure, Reconnect, Close, Operations
  <2>2. r \in Nat \cup {Forever}
    BY RetryAssumption
  <2> QED
    BY <2>1, <2>2 DEF Begin, radio, RadioOK, CallOK
<1>2. ASSUME NEW t \in Tasks, Connecting(t)
      PROVE  RadioOK' /\ CallOK'
  <2>1. CASE ConnectOk(t)
    BY <2>1 DEF ConnectOk, BeginCommand, call, RadioOK, CallOK
  <2>2. CASE CommandOk(t)
    <3>1. CallOK'
      BY <2>2 DEF CommandOk, BeginCommand, call, CallOK
    <3>2. on[t] \in Clients
      BY <2>2, NoneAssumption DEF CommandOk, Awaits, GattSteps
    <3> QED
      BY <2>2, <3>1, <3>2 DEF CommandOk, RadioOK
  <2>3. CASE StartNotifyOk(t)
    <3>1. on[t] \in Clients
      BY <2>3, NoneAssumption DEF StartNotifyOk, Awaits, GattSteps
    <3> QED
      BY <2>3, <3>1 DEF StartNotifyOk, call, RadioOK, CallOK
  <2>4. CASE UNCHANGED <<radio, call, cmd, cancelled>>
    BY <2>4 DEF radio, call, RadioOK, CallOK
  <2> QED
    BY <1>2, <2>1, <2>2, <2>3, <2>4
       DEF Connecting, CommandIssued, WriteDone, CommandRefused, Settled,
           GattError
<1>3. ASSUME NEW t \in Tasks, on[t] \in Clients, DropLink(on[t]) \/ Strand(on[t])
      PROVE  RadioOK'
  BY <1>3 DEF DropLink, Strand, RadioOK
<1>4. ASSUME NEW t \in Tasks, TearingDown(t)
      PROVE  RadioOK' /\ CallOK'
  <2>1. CallOK'
    BY <1>4 DEF TearingDown, StopNotifyDone, DisconnectOk, DisconnectError,
                call, CallOK
  <2>2. on[t] \in Clients
    BY <1>4, NoneAssumption
       DEF TearingDown, StopNotifyDone, DisconnectOk, DisconnectError, Awaits,
           GattSteps
  <2>3. CASE StopNotifyDone(t)
    BY <2>1, <2>3 DEF StopNotifyDone, RadioOK
  <2> QED
    BY <1>3, <1>4, <2>1, <2>2, <2>3
       DEF TearingDown, DisconnectOk, DisconnectError
<1>5. ASSUME NEW t \in Tasks, Reaping(t)
      PROVE  RadioOK' /\ CallOK'
  <2>1. CallOK'
    BY <1>5 DEF Reaping, ReapConnect, ReapCommand, ReapStartNotify,
                ReapDisconnect, ReapStopNotify, call, CallOK
  <2>2. on[t] \in Clients
    BY <1>5, NoneAssumption
       DEF Reaping, ReapConnect, ReapCommand, ReapStartNotify, ReapDisconnect,
           ReapStopNotify, Reaped, GattSteps
  <2>3. CASE ReapDisconnect(t)
    <3>1. CASE UNCHANGED radio
      BY <2>1, <3>1 DEF radio, RadioOK
    <3> QED
      BY <1>3, <2>1, <2>2, <2>3, <3>1 DEF ReapDisconnect
  <2>4. CASE ReapConnect(t) \/ ReapCommand(t)
    BY <2>1, <2>4 DEF ReapConnect, ReapCommand, radio, RadioOK
  <2>5. CASE ReapStartNotify(t) \/ ReapStopNotify(t)
    BY <2>1, <2>2, <2>5 DEF ReapStartNotify, ReapStopNotify, RadioOK
  <2> QED
    BY <1>5, <2>1, <2>3, <2>4, <2>5 DEF Reaping
<1>6. ASSUME NEW t \in Tasks, Timeout(t) \/ Cancel(t)
      PROVE  RadioOK' /\ CallOK'
  BY <1>6 DEF Timeout, Cancel, radio, call, RadioOK, CallOK
<1>7. ASSUME NEW t \in Tasks, RetryWake(t)
      PROVE  RadioOK' /\ CallOK'
  <2>1. RadioOK'
    BY <1>7 DEF RetryWake, radio, RadioOK
  <2>2. attempt' \in [Tasks -> Nat]
    BY <1>7 DEF RetryWake, CallOK
  <2> QED
    BY <1>7, <2>1, <2>2 DEF RetryWake, radio, CallOK
<1>8. ASSUME NEW c \in Clients, LinkDrop(c)
      PROVE  RadioOK' /\ CallOK'
  BY <1>8 DEF LinkDrop, DropLink, call, RadioOK, CallOK
<1> QED
  BY <1>1, <1>2, <1>4, <1>5, <1>6, <1>7, <1>8 DEF Next, Progress

\* The state a client is constructed in (__init__).
LEMMA InitTyped == Init => TypeOK /\ LockStep
<1> SUFFICES ASSUME Init PROVE TypeOK /\ LockStep
  OBVIOUS
<1>1. FieldsOK /\ LockStep
  BY DEF Init, FieldsOK, LockStep
<1>2. RadioOK
  BY DEF Init, RadioOK
<1>3. CallOK
  BY DEF Init, CallOK, Operations
<1>4. ControlOK
  BY DEF Init, ControlOK, Steps, GattSteps, Outcomes
<1> QED
  BY <1>1, <1>2, <1>3, <1>4 DEF TypeOK

LEMMA NextTyped == TypeOK /\ LockStep /\ [Next]_vars => (TypeOK /\ LockStep)'
<1> SUFFICES ASSUME TypeOK, LockStep, [Next]_vars
             PROVE  (TypeOK /\ LockStep)'
  OBVIOUS
<1>1. CASE Next
  BY <1>1, NextCore, NextRadioCall DEF Core, TypeOK
<1>2. CASE UNCHANGED vars
  BY <1>2 DEF vars, fields, radio, call, control, TypeOK, FieldsOK, RadioOK,
              CallOK, ControlOK, LockStep
<1> QED
  BY <1>1, <1>2

\* Every reachable state of BrymenbleClient is well typed, and no task ever
\* awaits a bleak call on None, however many tasks share the client.
THEOREM TypeCorrect == Spec => []TypeOK
<1>1. Spec => [](TypeOK /\ LockStep)
  BY InitTyped, NextTyped, PTL DEF Spec
<1> QED
  BY <1>1, PTL

\* self._bleak, self._queue and self._loop are set and cleared together under
\* every interleaving of life-cycle calls.
THEOREM FieldsInLockStep == Spec => []LockStep
<1>1. Spec => [](TypeOK /\ LockStep)
  BY InitTyped, NextTyped, PTL DEF Spec
<1> QED
  BY <1>1, PTL

-----------------------------------------------------------------------------
(* What holds when life-cycle calls do not overlap and `async with` is not   *)
(* entered on a connected client: no link leaks and no undocumented          *)
(* exception escapes.  The argument is about the steps of one task.          *)

\* Task t works on the client in self._bleak and has met no exception that the
\* docstrings do not name.
Steady(t) ==
    /\ pc[t] \in GattSteps => on[t] = bleak
    /\ pc[t] \in {"issue", "settle"} => bleak # None
    /\ exc[t] \notin Surprises

\* A step of t, after which it is steady.
Steadily(t) ==
    /\ Steady(t)'
    /\ \A u \in Tasks \ {t} : pc'[u] = pc[u] /\ on'[u] = on[u] /\ exc'[u] = exc[u]

\* Every task other than t is outside a call.
Alone(t) == \A u \in Tasks : u # t => pc[u] = "idle"

Quiet == Outcomes \ Surprises

\* Suspending a task keeps it on the client in self._bleak.
LEMMA GotoSteady ==
    ASSUME ControlOK, NEW t \in Tasks, NEW step \in Steps, NEW c, NEW e \in Quiet,
           step \in GattSteps => c = bleak',
           step \in {"issue", "settle"} => bleak' # None,
           Goto(t, step, c, e)
    PROVE  Steadily(t)
  BY DEF ControlOK, Goto, Steadily, Steady, Quiet

\* A task that dials works on the client it has just installed.
LEMMA DialSteady ==
    ASSUME ControlOK, NEW t \in Tasks, Dial(t)
    PROVE  Steadily(t)
<1>1. PICK c \in Clients : bleak' = c /\ Goto(t, "connect", c, "none")
  BY DEF Dial
<1> QED
  BY <1>1, GotoSteady DEF Steps, GattSteps, Quiet, Outcomes, Surprises

\* Returning and sleeping between attempts need no client.
LEMMA ReturnSteady ==
    ASSUME ControlOK, NEW t \in Tasks, NEW e \in Quiet,
           Return(t, e) \/ AttemptFailed(t, e)
    PROVE  Steadily(t)
<1>1. CASE Return(t, e)
  BY <1>1, GotoSteady DEF Return, Steps, GattSteps
<1>2. CASE Goto(t, "retry", None, "none")
  BY <1>2, GotoSteady DEF Steps, GattSteps, Quiet, Outcomes, Surprises
<1> QED
  BY <1>1, <1>2 DEF AttemptFailed

\* The end of _close.
LEMMA ClosedSteady ==
    ASSUME ControlOK, NEW t \in Tasks, NEW o, NEW e \in Quiet, Closed(t, o, e)
    PROVE  Steadily(t)
  BY DialSteady, ReturnSteady DEF Closed, Quiet, Outcomes, Surprises

\* The beginning of _close: the client stays until its disconnect has ended.
LEMMA CloseStartSteady ==
    ASSUME ControlOK, NEW t \in Tasks, NEW o, NEW e \in Quiet, CloseStart(t, o, e)
    PROVE  Steadily(t) /\ (bleak' = bleak \/ bleak = None)
<1>1. CASE bleak # None /\ Goto(t, "disconnect", bleak, e) /\ UNCHANGED fields
  <2>1. bleak' = bleak
    BY <1>1 DEF fields
  <2> QED
    BY <1>1, <2>1, GotoSteady DEF Steps, GattSteps
<1>2. CASE bleak = None /\ Closed(t, o, e)
  BY <1>2, ClosedSteady
<1> QED
  BY <1>1, <1>2 DEF CloseStart

\* A failed attempt keeps its client until the disconnect has ended.
LEMMA RaiseSteady ==
    ASSUME ControlOK, NEW t \in Tasks, bleak # None,
           NEW e \in Quiet \cup BackendErrors, Raise(t, e)
    PROVE  Steadily(t) /\ bleak' = bleak
<1>1. Normalize(e) \in Quiet
  BY DEF Normalize, Quiet, Outcomes, Surprises, BackendErrors
<1> QED
  BY <1>1, CloseStartSteady DEF Raise

\* So does a task that stops awaiting a cancelled inner task.
LEMMA AbortSteady ==
    ASSUME ControlOK, NEW t \in Tasks, bleak # None, Steady(t), Abort(t)
    PROVE  Steadily(t) /\ bleak' = bleak
<1>1. exc[t] \in Quiet
  BY DEF ControlOK, Steady, Quiet
<1>2. CASE Return(t, "Cancelled") /\ UNCHANGED fields
  BY <1>2, ReturnSteady DEF fields, Quiet, Outcomes, Surprises
<1>3. CASE Raise(t, exc[t])
  BY <1>1, <1>3, RaiseSteady
<1> QED
  BY <1>2, <1>3 DEF Abort

\* While the client is there, commands and calls are made on it.
LEMMA CallSteady ==
    ASSUME ControlOK, NEW t \in Tasks, bleak # None,
           NEW c, NEW step \in GattSteps,
           BeginCommand(t, c) \/ CallBleak(t, step)
    PROVE  Steadily(t) /\ bleak' = bleak
<1>1. CASE Goto(t, "issue", None, "none") /\ UNCHANGED fields
  BY <1>1, GotoSteady DEF fields, Steps, GattSteps, Quiet, Outcomes, Surprises
<1>2. CASE Goto(t, step, bleak, "none") /\ UNCHANGED fields
  BY <1>2, GotoSteady DEF fields, Steps, GattSteps, Quiet, Outcomes, Surprises
<1> QED
  BY <1>1, <1>2 DEF BeginCommand, CallBleak

-----------------------------------------------------------------------------
\* A step brings up at most the link of self._bleak, forgets no stranded link
\* that is up, and lets go of a client only with its link down or stranded.
Tidy ==
    /\ \A c \in Clients : link'[c] = "up" => link[c] = "up" \/ c = bleak
    /\ \A c \in stranded : link'[c] = "up" => c \in stranded'
    /\ bleak = None \/ bleak' = bleak \/ link'[bleak] = "down" \/ bleak \in stranded'

LEMMA TidyNoOrphan ==
    ASSUME TypeOK, NoOrphanedLink, Tidy
    PROVE  NoOrphanedLink'
  BY NoneAssumption DEF TypeOK, FieldsOK, Tidy, NoOrphanedLink

\* The two ways a disconnect leaves the radio.
LEMMA TeardownTidy ==
    ASSUME TypeOK, bleak # None, DropLink(bleak) \/ Strand(bleak)
    PROVE  Tidy
  BY DEF TypeOK, FieldsOK, RadioOK, Tidy, DropLink, Strand

\* Keeping the client, or having none, with no link changed.
LEMMA RadioTidy ==
    ASSUME bleak' = bleak \/ bleak = None, UNCHANGED <<link, stranded>>
    PROVE  Tidy
  BY DEF Tidy

\* A task awaiting a bleak call awaits it on self._bleak, which is a client.
LEMMA AwaitsOwnClient ==
    ASSUME TypeOK, NEW t \in Tasks, Steady(t), pc[t] \in GattSteps
    PROVE  on[t] = bleak /\ bleak # None /\ bleak \in Clients
  BY DEF TypeOK, FieldsOK, ControlOK, Steady

\* A call begins steady, whatever the client's state.  Only `async with` on a
\* client that is connected lets go of it with its link up.
LEMMA StartSteady ==
    ASSUME TypeOK, NEW t \in Tasks, Start(t)
    PROVE  /\ Steadily(t) /\ pc[t] = "idle" /\ UNCHANGED radio
           /\ ~Reenter => Tidy
<1>c. ControlOK
  BY DEF TypeOK
<1>r. pc[t] = "idle" /\ UNCHANGED <<radio, link, stranded>>
  BY DEF Start, Enter, Ensure, Reconnect, Close, Begin, radio
<1>1. CASE Enter(t)
  <2>1. Steadily(t) /\ (Reenter \/ bleak = None)
    BY <1>c, <1>1, DialSteady DEF Enter
  <2> QED
    BY <1>r, <2>1, RadioTidy
<1>2. ASSUME NEW o, CloseStart(t, o, "none")
      PROVE  Steadily(t) /\ Tidy
  <2>1. Steadily(t) /\ (bleak' = bleak \/ bleak = None)
    BY <1>c, <1>2, CloseStartSteady DEF Quiet, Outcomes, Surprises
  <2> QED
    BY <1>r, <2>1, RadioTidy
<1>3. CASE Close(t)
  <2>1. CASE bleak # None /\ Goto(t, "stopNotify", bleak, "none")
               /\ UNCHANGED fields
    <3>1. bleak' = bleak
      BY <2>1 DEF fields
    <3>2. Steadily(t)
      BY <1>c, <2>1, <3>1, GotoSteady
         DEF Steps, GattSteps, Quiet, Outcomes, Surprises
    <3> QED
      BY <1>r, <3>1, <3>2, RadioTidy
  <2>2. CASE bleak = None /\ Closed(t, "close", "none")
    BY <1>r, <1>2, <2>2 DEF CloseStart
  <2> QED
    BY <1>3, <2>1, <2>2 DEF Close
<1> QED
  BY <1>r, <1>1, <1>2, <1>3 DEF Start, Ensure, Reconnect

\* A steady task stays steady, and lets go of its client tidily.
LEMMA CallStepSteady ==
    ASSUME TypeOK, NEW t \in Tasks, Steady(t), Progress(t) \/ Cancel(t)
    PROVE  Steadily(t) /\ Tidy /\ pc[t] # "idle"
<1>c. ControlOK
  BY DEF TypeOK
<1>e. exc[t] \in Quiet
  BY <1>c DEF ControlOK, Steady, Quiet
<1>1. CASE Connecting(t)
  <2>1. pc[t] \in GattSteps \cup {"issue", "settle"}
    BY <1>1 DEF Connecting, ConnectOk, CommandIssued, WriteDone, CommandOk,
                CommandRefused, Settled, StartNotifyOk, GattError, Awaits,
                GattSteps
  <2>2. bleak # None
    BY <2>1, AwaitsOwnClient DEF Steady
  <2>3. Steadily(t) /\ bleak' = bleak
    <3> USE <1>c, <2>2
    <3>1. CASE ConnectOk(t)
      BY <3>1, CallSteady, RaiseSteady
         DEF ConnectOk, GattSteps, Quiet, Outcomes, Surprises
    <3>2. CASE CommandIssued(t) \/ WriteDone(t) \/ Settled(t)
      BY <3>2, CallSteady DEF CommandIssued, WriteDone, Settled, GattSteps
    <3>3. CASE CommandOk(t)
      <4>1. CASE Goto(t, "settle", None, "none") /\ UNCHANGED fields
        BY <4>1, GotoSteady
           DEF fields, Steps, GattSteps, Quiet, Outcomes, Surprises
      <4> QED
        BY <3>3, <4>1, CallSteady DEF CommandOk, GattSteps
    <3>4. CASE CommandRefused(t) \/ GattError(t)
      BY <3>4, RaiseSteady
         DEF CommandRefused, GattError, Quiet, Outcomes, Surprises
    <3>5. CASE StartNotifyOk(t)
      BY <3>5, ReturnSteady DEF StartNotifyOk, fields, Quiet, Outcomes, Surprises
    <3> QED
      BY <1>1, <3>1, <3>2, <3>3, <3>4, <3>5 DEF Connecting
  <2>4. CASE ConnectOk(t)
    <3>1. on[t] = bleak
      BY <2>4, AwaitsOwnClient DEF ConnectOk, Awaits, GattSteps
    <3>2. link' = [link EXCEPT ![bleak] = "up"] /\ UNCHANGED stranded
      BY <2>4, <3>1 DEF ConnectOk
    <3> QED
      BY <2>1, <2>3, <3>2 DEF Tidy, TypeOK, RadioOK, GattSteps
  <2>5. CASE ~ConnectOk(t)
    <3>1. UNCHANGED <<link, stranded>>
      BY <1>1, <2>5 DEF Connecting, CommandIssued, WriteDone, CommandOk,
                        CommandRefused, Settled, StartNotifyOk, GattError, radio
    <3> QED
      BY <2>1, <2>3, <3>1, RadioTidy DEF GattSteps
  <2> QED
    BY <2>4, <2>5
<1>2. CASE TearingDown(t)
  <2>1. on[t] = bleak /\ bleak # None /\ pc[t] # "idle"
    BY <1>2, AwaitsOwnClient
       DEF TearingDown, StopNotifyDone, DisconnectOk, DisconnectError, Awaits,
           GattSteps
  <2>2. CASE StopNotifyDone(t)
    <3>1. Steadily(t) /\ (bleak' = bleak \/ bleak = None)
      BY <1>c, <2>2, CloseStartSteady
         DEF StopNotifyDone, Quiet, Outcomes, Surprises
    <3> QED
      BY <2>1, <2>2, <3>1, RadioTidy DEF StopNotifyDone
  <2>3. CASE DisconnectOk(t) \/ DisconnectError(t)
    BY <1>c, <1>e, <2>1, <2>3, ClosedSteady, TeardownTidy
       DEF DisconnectOk, DisconnectError
  <2> QED
    BY <1>2, <2>2, <2>3 DEF TearingDown
<1>3. CASE Timeout(t)
  <2>1. /\ pc[t] \in GattSteps /\ UNCHANGED <<pc, on, bleak, link, stranded>>
        /\ exc' = exc \/ exc' = [exc EXCEPT ![t] = "ConnectionError"]
    BY <1>3 DEF Timeout, fields, radio
  <2>2. Steadily(t)
    BY <1>c, <2>1 DEF ControlOK, Steadily, Steady, Surprises
  <2> QED
    BY <2>1, <2>2, RadioTidy DEF GattSteps
<1>4. CASE Reaping(t)
  <2>1. on[t] = bleak /\ bleak # None /\ bleak \in Clients /\ pc[t] # "idle"
    BY <1>4, AwaitsOwnClient
       DEF Reaping, ReapConnect, ReapCommand, ReapStartNotify, ReapDisconnect,
           ReapStopNotify, Reaped, GattSteps
  <2>2. CASE ReapConnect(t) \/ ReapCommand(t) \/ ReapStartNotify(t)
    <3>1. Steadily(t) /\ bleak' = bleak
      BY <1>c, <2>1, <2>2, AbortSteady
         DEF ReapConnect, ReapCommand, ReapStartNotify
    <3>2. /\ stranded' = stranded
          /\ link' = link \/ link' = [link EXCEPT ![bleak] = "up"]
      BY <2>1, <2>2 DEF ReapConnect, ReapCommand, ReapStartNotify, radio
    <3> QED
      BY <2>1, <3>1, <3>2 DEF Tidy, TypeOK, RadioOK
  <2>3. CASE ReapDisconnect(t)
    <3>1. Steadily(t)
      BY <1>c, <1>e, <2>3, ReturnSteady, ClosedSteady DEF ReapDisconnect
    <3>2. CASE DropLink(bleak) \/ Strand(bleak)
      BY <2>1, <3>1, <3>2, TeardownTidy
    <3>3. CASE UNCHANGED radio /\ UNCHANGED fields
      BY <2>1, <3>1, <3>3, RadioTidy DEF radio, fields
    <3> QED
      BY <2>1, <2>3, <3>2, <3>3 DEF ReapDisconnect
  <2>4. CASE ReapStopNotify(t)
    <3>1. Steadily(t) /\ (bleak' = bleak \/ bleak = None)
      BY <1>c, <2>4, ReturnSteady, CloseStartSteady
         DEF ReapStopNotify, fields, Quiet, Outcomes, Surprises
    <3> QED
      BY <2>1, <2>4, <3>1, RadioTidy DEF ReapStopNotify
  <2> QED
    BY <1>4, <2>2, <2>3, <2>4 DEF Reaping
<1>5. CASE RetryWake(t)
  <2>1. Steadily(t) /\ (bleak' = bleak \/ bleak = None)
    BY <1>5, <1>c, CloseStartSteady DEF RetryWake, Quiet, Outcomes, Surprises
  <2> QED
    BY <1>5, <2>1, RadioTidy DEF RetryWake, Awaits, radio
<1>6. CASE Cancel(t)
  <2>1. pc[t] # "idle" /\ UNCHANGED <<bleak, link, stranded>>
    BY <1>6 DEF Cancel, fields, radio
  <2>2. CASE Return(t, "Cancelled")
    BY <1>c, <2>1, <2>2, ReturnSteady, RadioTidy DEF Quiet, Outcomes, Surprises
  <2>3. CASE ~Return(t, "Cancelled")
    <3>1. /\ UNCHANGED <<pc, on>>
          /\ exc' = exc \/ exc' = [exc EXCEPT ![t] = "Cancelled"]
      BY <1>6, <2>3 DEF Cancel, control
    <3>2. Steadily(t)
      BY <1>c, <2>1, <3>1 DEF ControlOK, Steadily, Steady, Surprises
    <3> QED
      BY <2>1, <3>2, RadioTidy
  <2> QED
    BY <2>2, <2>3
<1> QED
  BY <1>1, <1>2, <1>3, <1>4, <1>5, <1>6 DEF Progress

\* A link that drops disturbs nobody.
LEMMA LinkDropTidy ==
    ASSUME TypeOK, NEW c \in Clients, LinkDrop(c)
    PROVE  Tidy /\ UNCHANGED <<bleak, pc, on, exc, cmd>>
  BY DEF LinkDrop, DropLink, fields, control, TypeOK, RadioOK, Tidy

-----------------------------------------------------------------------------
LEMMA SequentialSteady == SequentialInv => \A t \in Tasks : Steady(t)
BY DEF SequentialInv, OnOwnClient, NoSurprise, Steady

\* When calls do not overlap the task that moves is alone before and after.
LEMMA MovesAlone ==
    ASSUME TypeOK, SequentialInv, ~Overlap, NEW t \in Tasks,
           Start(t) \/ Progress(t) \/ Cancel(t)
    PROVE  Alone(t) /\ Alone(t)' /\ Steady(t) /\ Steadily(t)
<1>1. Steady(t)
  BY SequentialSteady
<1>2. Steadily(t) /\ (Start(t) \/ pc[t] # "idle")
  BY <1>1, StartSteady, CallStepSteady
<1>3. Alone(t)
  BY <1>2 DEF Start, Enter, Ensure, Reconnect, Close, Begin, SequentialInv,
              OneCall, Alone
<1> QED
  BY <1>1, <1>2, <1>3 DEF Steadily, Alone

\* Every step keeps SequentialInv when calls do not overlap.
LEMMA NextSequential ==
    ASSUME TypeOK, SequentialInv, ~Overlap, ~Reenter, Next
    PROVE  SequentialInv'
<1> USE DEF SequentialInv
<1>1. ASSUME NEW t \in Tasks, Start(t) \/ Progress(t) \/ Cancel(t)
      PROVE  SequentialInv'
  <2>1. Alone(t) /\ Steadily(t) /\ Tidy
    BY <1>1, MovesAlone, StartSteady, CallStepSteady
  <2>2. OneCall'
    BY <2>1 DEF Steadily, Alone, OneCall
  <2>3. OnOwnClient' /\ NoSurprise'
    BY <2>1 DEF Steadily, Steady, Alone, OnOwnClient, NoSurprise, GattSteps
  <2> QED
    BY <2>1, <2>2, <2>3, TidyNoOrphan
<1>2. ASSUME NEW c \in Clients, LinkDrop(c)
      PROVE  SequentialInv'
  <2>1. Tidy /\ UNCHANGED <<bleak, pc, on, exc>>
    BY <1>2, LinkDropTidy
  <2> QED
    BY <2>1, TidyNoOrphan DEF OneCall, OnOwnClient, NoSurprise
<1> QED
  BY <1>1, <1>2 DEF Next

\* The invariant of a client whose calls do not overlap.
LEMMA SequentialInvariant ==
    ASSUME ~Overlap, ~Reenter
    PROVE  Spec => []SequentialInv
<1>1. Init => SequentialInv
  BY DEF Init, SequentialInv, OneCall, OnOwnClient, NoSurprise, NoOrphanedLink,
         GattSteps, Surprises
<1>2. TypeOK /\ SequentialInv /\ [Next]_vars => SequentialInv'
  <2>1. CASE Next
    BY <2>1, NextSequential
  <2>2. CASE UNCHANGED vars
    BY <2>2 DEF vars, fields, radio, control, SequentialInv, OneCall,
                OnOwnClient, NoSurprise, NoOrphanedLink
  <2> QED
    BY <2>1, <2>2
<1> QED
  BY <1>1, <1>2, TypeCorrect, PTL DEF Spec

\* No half-open link leaks: without overlapping calls a link that is up belongs
\* to self._bleak or survived a disconnect that was tried on it, through any
\* sequence of failures, timeouts, retries and cancellations.
THEOREM NoLeak ==
    ASSUME ~Overlap, ~Reenter
    PROVE  Spec => []NoOrphanedLink
<1>1. SequentialInv => NoOrphanedLink
  BY DEF SequentialInv
<1> QED
  BY <1>1, SequentialInvariant, PTL

\* Without overlapping calls only the documented exceptions reach a caller:
\* self._bleak is never found None between two awaits of a call.
THEOREM OnlyDocumentedOutcomes ==
    ASSUME ~Overlap, ~Reenter
    PROVE  Spec => []DocumentedOutcomes
<1>1. TypeOK /\ SequentialInv => DocumentedOutcomes
  BY DEF TypeOK, ControlOK, SequentialInv, NoSurprise, Surprises, Outcomes,
         DocumentedOutcomes
<1> QED
  BY <1>1, TypeCorrect, SequentialInvariant, PTL
=============================================================================
