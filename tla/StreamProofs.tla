---------------------------- MODULE StreamProofs -----------------------------
(***************************************************************************)
(* What read_stream promises of time, for every no_data_timeout,           *)
(* link_down_grace and pause_cap: a drop and a stuck meter are noticed     *)
(* within the stated number of ticks, and a pause is waited out.           *)
(***************************************************************************)
EXTENDS ReadStream, TLAPS

\* A pause is counted from a wait that timed out, and forgotten with a frame
\* and with a connection.
PauseKnown ==
    /\ pc = "yielded" => pauseFor = Never
    /\ pc = "ensure" /\ reason = "first" => pauseFor = Never

\* The clocks stand still where the loop does not watch.
WatchOk ==
    /\ pc = "wait" => timer <= NoDataTimeout
    /\ pc = "grace" => timer <= LinkDownGrace
    /\ link => downFor = 0
    /\ pc # "ended" /\ (~link \/ fresh) => quietFor = 0

\* A drop is as old as the wait and the grace period it was watched in.
DropInv ==
    /\ downFor <= DownBound
    /\ pc = "wait" => downFor + timer <= NoDataTimeout
    /\ pc = "grace" => downFor + timer <= DownBound

\* The loop has watched for at least as long as it knows of a pause.
SilenceInv ==
    PauseCap # Never =>
        /\ silence <= PauseCap
        /\ pauseFor # Never => pauseFor <= silence

\* Whole waits, one or more.
Waits == {m \in Nat : \E r \in Nat : m = (r + 1) * NoDataTimeout}

\* The pause will have been noticed m ticks ago when the wait in progress ends,
\* and had not reached pause_cap when that began.
Round(m) ==
    /\ m - NoDataTimeout < PauseCap
    /\ quietFor + timer <= LinkDownGrace + NoDataTimeout + m
    /\ \/ pauseFor = PauseCap
       \/ pauseFor = m - timer

\* Silence on a link that is up is as old as the rest of a grace period, the
\* wait that noticed it and the rounds since.
QuietInv ==
    PauseCap # Never =>
        /\ quietFor <= QuietBound
        /\ pc = "grace" => quietFor + timer <= LinkDownGrace
        /\ pc = "wait" /\ pauseFor = Never =>
              quietFor + timer <= LinkDownGrace + NoDataTimeout
        /\ pc = "wait" /\ pauseFor # Never => \E m \in Waits : Round(m)

StreamInv == TypeOK /\ PauseKnown /\ WatchOk /\ DropInv /\ SilenceInv /\ QuietInv

-----------------------------------------------------------------------------

LEMMA Times ==
    /\ NoDataTimeout \in Nat /\ NoDataTimeout > 0
    /\ LinkDownGrace \in Nat
    /\ PauseCap # Never => PauseCap \in Nat /\ PauseCap > 0
    /\ DownBound \in Nat
BY TimeoutAssumption, NeverAssumption DEF DownBound

LEMMA WholeWaits ==
    /\ Waits \subseteq Nat
    /\ NoDataTimeout \in Waits
    /\ \A m \in Waits : m + NoDataTimeout \in Waits
<1>. DEFINE n == NoDataTimeout
<1>1. n \in Nat /\ n = (0 + 1) * n
  BY Times
<1>2. ASSUME NEW r \in Nat
      PROVE  r + 1 \in Nat /\ (r + 1) * n + n = ((r + 1) + 1) * n /\ (r + 1) * n \in Nat
  BY <1>1
<1>. HIDE DEF n
<1>3. n \in Waits
  BY <1>1 DEF Waits, n
<1>4. ASSUME NEW m \in Waits PROVE m + n \in Waits
  <2>1. PICK r \in Nat : m = (r + 1) * n
    BY DEF Waits, n
  <2>2. m + n = ((r + 1) + 1) * n /\ m + n \in Nat
    BY <1>1, <1>2, <2>1
  <2>. QED  BY <1>2, <2>2 DEF Waits, n
<1>. QED  BY <1>3, <1>4 DEF Waits, n

\* Waits that began before pause_cap are CapRounds at most.
LEMMA RoundsFit ==
    ASSUME PauseCap # Never, NEW m \in Waits, m - NoDataTimeout < PauseCap
    PROVE  LinkDownGrace + NoDataTimeout + m <= QuietBound
<1>. DEFINE n == NoDataTimeout
           q == CapRounds
<1>1. n \in Nat /\ n > 0 /\ PauseCap \in Nat
  BY Times
<1>2. PICK r \in Nat : m = (r + 1) * n
  BY DEF Waits
<1>3. q \in Int /\ PauseCap + n - 1 < (q + 1) * n
  BY <1>1 DEF CapRounds
<1>4. m \in Nat /\ m < (q + 1) * n
  BY <1>1, <1>3, WholeWaits
<1>. HIDE DEF n, q
<1>5. r + 1 <= q
  <2>1. SUFFICES ASSUME q + 1 <= r + 1 PROVE FALSE
    BY <1>1, <1>3
  <2>2. (q + 1) * n <= (r + 1) * n
    BY <1>1, <1>3, <2>1
  <2>. QED  BY <1>1, <1>2, <1>3, <1>4, <2>2
<1>6. n * (r + 2) <= n * (1 + q)
  BY <1>1, <1>3, <1>5
<1>7. n * (r + 2) = n + m
  BY <1>1, <1>2
<1>. QED  BY <1>1, <1>3, <1>4, <1>6, <1>7, Times DEF QuietBound, n, q

LEMMA Bounded ==
    ASSUME PauseCap # Never
    PROVE  QuietBound \in Int /\ LinkDownGrace + NoDataTimeout + NoDataTimeout <= QuietBound
<1>1. NoDataTimeout - NoDataTimeout < PauseCap
  BY Times
<1>2. LinkDownGrace + NoDataTimeout + NoDataTimeout <= QuietBound
  BY <1>1, RoundsFit, WholeWaits
<1>3. CapRounds \in Int
  BY Times DEF CapRounds
<1>4. QuietBound \in Int
  BY <1>3, Times DEF QuietBound
<1>. QED  BY <1>2, <1>4

LEMMA TypeNext == TypeOK /\ [Next]_vars => TypeOK'
<1>. SUFFICES ASSUME TypeOK, [Next]_vars PROVE TypeOK'
  OBVIOUS
<1>. USE Times, NeverAssumption DEF TypeOK, Reasons
<1>1. CASE Continue
  BY <1>1 DEF Continue, Loop, Await, StopWatch, client
<1>2. CASE Frame
  <2>1. fresh' \in BOOLEAN /\ bleak' = bleak /\ link' = link
    BY <1>2 DEF Frame
  <2>. QED  BY <1>2, <2>1 DEF Frame, Await, StopWatch
<1>3. CASE Paused
  BY <1>3 DEF Paused, Capped, PauseSoFar, Lost, Loop, Await, client, watch
<1>4. CASE Dropped
  BY <1>4 DEF Dropped, Lost, Await, client, watch
<1>5. CASE GraceOver
  BY <1>5 DEF GraceOver, Lost, Loop, Await, client, watch
<1>6. CASE EnsureOk
  <2>1. fresh' \in BOOLEAN /\ bleak' \in BOOLEAN /\ link' \in BOOLEAN /\ bleak'
    BY <1>6 DEF EnsureOk
  <2>. QED  BY <1>6, <2>1 DEF EnsureOk, Await, StopWatch
<1>7. CASE EnsureFailed
  <2>1. fresh' \in BOOLEAN /\ bleak' \in BOOLEAN /\ link' \in BOOLEAN /\ ~link'
    BY <1>7 DEF EnsureFailed
  <2>. QED  BY <1>7, <2>1 DEF EnsureFailed, Await, watch
<1>8. CASE FrameArrives
  BY <1>8 DEF FrameArrives
<1>9. CASE LinkDown
  BY <1>9 DEF LinkDown
<1>10. CASE LinkBack
  BY <1>10 DEF LinkBack
<1>11. CASE CloseElsewhere
  BY <1>11 DEF CloseElsewhere, LetGo
<1>14. CASE ReconnectElsewhere
  BY <1>14 DEF ReconnectElsewhere, LetGo
<1>12. CASE Tick
  BY <1>12 DEF Tick, client
<1>13. CASE UNCHANGED vars
  BY <1>13 DEF vars, client, watch
<1>. QED  BY <1>1, <1>2, <1>3, <1>4, <1>5, <1>6, <1>7, <1>8, <1>9, <1>10, <1>11, <1>12, <1>13, <1>14 DEF Next, Step, Environment

LEMMA WatchNext == TypeOK /\ PauseKnown /\ WatchOk /\ [Next]_vars => (PauseKnown /\ WatchOk)'
<1>. SUFFICES ASSUME TypeOK, PauseKnown, WatchOk, [Next]_vars PROVE (PauseKnown /\ WatchOk)'
  OBVIOUS
<1>. USE Times, NeverAssumption DEF TypeOK, PauseKnown, WatchOk
<1>1. CASE Continue
  BY <1>1 DEF Continue, Loop, Await, StopWatch, client
<1>2. CASE Frame
  BY <1>2 DEF Frame, Await, StopWatch
<1>3. CASE Paused
  BY <1>3 DEF Paused, Capped, PauseSoFar, Lost, Loop, Await, client, watch
<1>4. CASE Dropped
  BY <1>4 DEF Dropped, Lost, Await, client, watch
<1>5. CASE GraceOver
  BY <1>5 DEF GraceOver, Lost, Loop, Await, client, watch
<1>6. CASE EnsureOk
  BY <1>6 DEF EnsureOk, Await, StopWatch
<1>7. CASE EnsureFailed
  BY <1>7 DEF EnsureFailed, Await, watch
<1>8. CASE FrameArrives
  BY <1>8 DEF FrameArrives
<1>9. CASE LinkDown
  BY <1>9 DEF LinkDown
<1>10. CASE LinkBack
  BY <1>10 DEF LinkBack
<1>11. CASE CloseElsewhere
  BY <1>11 DEF CloseElsewhere, LetGo
<1>14. CASE ReconnectElsewhere
  BY <1>14 DEF ReconnectElsewhere, LetGo
<1>12. CASE Tick
  BY <1>12 DEF Tick, client
<1>13. CASE UNCHANGED vars
  BY <1>13 DEF vars, client, watch
<1>. QED  BY <1>1, <1>2, <1>3, <1>4, <1>5, <1>6, <1>7, <1>8, <1>9, <1>10, <1>11, <1>12, <1>13, <1>14 DEF Next, Step, Environment

LEMMA DropNext == TypeOK /\ WatchOk /\ DropInv /\ [Next]_vars => DropInv'
<1>. SUFFICES ASSUME TypeOK, WatchOk, DropInv, [Next]_vars PROVE DropInv'
  OBVIOUS
<1>. USE Times, NeverAssumption DEF TypeOK, WatchOk, DropInv, DownBound
<1>1. CASE Continue
  BY <1>1 DEF Continue, Loop, Await, StopWatch, client
<1>2. CASE Frame
  BY <1>2 DEF Frame, Await, StopWatch
<1>3. CASE Paused
  BY <1>3 DEF Paused, Capped, PauseSoFar, Lost, Loop, Await, client, watch
<1>4. CASE Dropped
  BY <1>4 DEF Dropped, Lost, Await, client, watch
<1>5. CASE GraceOver
  BY <1>5 DEF GraceOver, Lost, Loop, Await, client, watch
<1>6. CASE EnsureOk
  BY <1>6 DEF EnsureOk, Await, StopWatch
<1>7. CASE EnsureFailed
  BY <1>7 DEF EnsureFailed, Await, watch
<1>8. CASE FrameArrives
  BY <1>8 DEF FrameArrives
<1>9. CASE LinkDown
  BY <1>9 DEF LinkDown
<1>10. CASE LinkBack
  BY <1>10 DEF LinkBack
<1>11. CASE CloseElsewhere
  BY <1>11 DEF CloseElsewhere, LetGo
<1>14. CASE ReconnectElsewhere
  BY <1>14 DEF ReconnectElsewhere, LetGo
<1>12. CASE Tick
  <2>1. /\ pc \in {"wait", "grace"} /\ pc' = pc /\ timer > 0 /\ timer' = timer - 1
        /\ downFor' = 0 \/ (downFor' = downFor + 1)
    BY <1>12 DEF Tick, Watching
  <2>. QED  BY <2>1
<1>13. CASE UNCHANGED vars
  BY <1>13 DEF vars, client, watch
<1>. QED  BY <1>1, <1>2, <1>3, <1>4, <1>5, <1>6, <1>7, <1>8, <1>9, <1>10, <1>11, <1>12, <1>13, <1>14 DEF Next, Step, Environment

LEMMA SilenceNext == TypeOK /\ PauseKnown /\ SilenceInv /\ [Next]_vars => SilenceInv'
<1>. SUFFICES ASSUME TypeOK, PauseKnown, SilenceInv, [Next]_vars PROVE SilenceInv'
  OBVIOUS
<1>. USE Times, NeverAssumption DEF TypeOK, PauseKnown, SilenceInv
<1>1. CASE Continue
  BY <1>1 DEF Continue, Loop, Await, StopWatch, client
<1>2. CASE Frame
  BY <1>2 DEF Frame, Await, StopWatch
<1>3. CASE Paused
  BY <1>3 DEF Paused, Capped, PauseSoFar, Lost, Loop, Await, client, watch
<1>4. CASE Dropped
  BY <1>4 DEF Dropped, Lost, Await, client, watch
<1>5. CASE GraceOver
  BY <1>5 DEF GraceOver, Lost, Loop, Await, client, watch
<1>6. CASE EnsureOk
  BY <1>6 DEF EnsureOk, Await, StopWatch
<1>7. CASE EnsureFailed
  BY <1>7 DEF EnsureFailed, Await, watch
<1>8. CASE FrameArrives
  BY <1>8 DEF FrameArrives
<1>9. CASE LinkDown
  BY <1>9 DEF LinkDown
<1>10. CASE LinkBack
  BY <1>10 DEF LinkBack
<1>11. CASE CloseElsewhere
  BY <1>11 DEF CloseElsewhere, LetGo
<1>14. CASE ReconnectElsewhere
  BY <1>14 DEF ReconnectElsewhere, LetGo
<1>12. CASE Tick
  BY <1>12 DEF Tick, client
<1>13. CASE UNCHANGED vars
  BY <1>13 DEF vars, client, watch
<1>. QED  BY <1>1, <1>2, <1>3, <1>4, <1>5, <1>6, <1>7, <1>8, <1>9, <1>10, <1>11, <1>12, <1>13, <1>14 DEF Next, Step, Environment

\* A round goes on while the silence is not older than it was.
LEMMA RoundKept ==
    ASSUME TypeOK, QuietInv, UNCHANGED <<pc, timer, pauseFor>>,
           quietFor' = 0 \/ quietFor' = quietFor
    PROVE  QuietInv'
<1>. USE DEF QuietInv
<1>. SUFFICES ASSUME PauseCap # Never PROVE QuietInv'
  OBVIOUS
<1>1. quietFor \in Nat /\ timer \in Nat
  BY Times DEF TypeOK
<1>2. QuietBound \in Int
  BY Bounded
<1>3. ASSUME NEW m \in Waits, Round(m) PROVE Round(m)'
  <2>1. m \in Nat
    BY WholeWaits
  <2>. QED  BY <1>1, <1>3, <2>1, Times DEF Round
<1>. QED  BY <1>1, <1>2, <1>3, Times DEF QuietInv

LEMMA QuietNext == TypeOK /\ PauseKnown /\ WatchOk /\ QuietInv /\ [Next]_vars => QuietInv'
<1>. SUFFICES ASSUME TypeOK, PauseKnown, WatchOk, QuietInv, [Next]_vars PROVE QuietInv'
  OBVIOUS
<1>. USE Times, NeverAssumption DEF TypeOK, PauseKnown, WatchOk, QuietInv
<1>1. CASE Continue
  <2>1. /\ quietFor' = 0 /\ pauseFor' = Never
        /\ pc' = "ensure" \/ (pc' = "wait" /\ timer' = NoDataTimeout)
    BY <1>1 DEF Continue, Loop, Await, StopWatch
  <2>. QED  BY <2>1, Bounded
<1>2. CASE Frame
  <2>1. quietFor' = 0 /\ pc' = "yielded"
    BY <1>2 DEF Frame, Await, StopWatch
  <2>. QED  BY <2>1, Bounded
<1>3. CASE Paused
  <2>. SUFFICES ASSUME PauseCap # Never PROVE QuietInv'
    OBVIOUS
  <2>1. /\ pc = "wait" /\ timer = 0 /\ quietFor' = quietFor
        /\ pauseFor' = PauseSoFar /\ PauseSoFar \in Nat
        /\ \/ pc' = "ensure"
           \/ pc' = "wait" /\ timer' = NoDataTimeout /\ PauseSoFar < PauseCap
    BY <1>3 DEF Paused, Capped, PauseSoFar, Lost, Loop, Await, watch
  <2>2. CASE pc' = "ensure"
    BY <2>1, <2>2
  <2>3. CASE pc' = "wait" /\ timer' = NoDataTimeout /\ PauseSoFar < PauseCap
    <3>1. CASE pauseFor = Never
      <4>1. Round(NoDataTimeout)'
        BY <2>1, <2>3, <3>1 DEF Round, PauseSoFar
      <4>. QED  BY <2>1, <2>3, <4>1, WholeWaits
    <3>2. CASE pauseFor # Never
      <4>1. PICK m \in Waits : Round(m)
        BY <2>1, <3>2
      <4>2. m \in Nat /\ m + NoDataTimeout \in Waits
        BY WholeWaits
      <4>3. PauseSoFar = m /\ quietFor <= LinkDownGrace + NoDataTimeout + m
        BY <2>1, <2>3, <3>2, <4>1, <4>2 DEF Round, PauseSoFar
      <4>4. Round(m + NoDataTimeout)'
        BY <2>1, <2>3, <4>2, <4>3 DEF Round
      <4>. QED  BY <2>1, <2>3, <4>2, <4>4
    <3>. QED  BY <3>1, <3>2
  <2>. QED  BY <2>1, <2>2, <2>3
<1>4. CASE Dropped
  BY <1>4 DEF Dropped, Lost, Await, client, watch
<1>5. CASE GraceOver
  BY <1>5 DEF GraceOver, Lost, Loop, Await, client, watch
<1>6. CASE EnsureOk
  <2>1. quietFor' = 0 /\ pauseFor' = Never /\ pc' = "wait" /\ timer' = NoDataTimeout
    BY <1>6 DEF EnsureOk, Await, StopWatch
  <2>. QED  BY <2>1, Bounded
<1>7. CASE EnsureFailed
  BY <1>7 DEF EnsureFailed, Await, watch
<1>8. CASE FrameArrives
  <2>1. UNCHANGED <<pc, timer, pauseFor>> /\ (quietFor' = 0 \/ quietFor' = quietFor)
    BY <1>8 DEF FrameArrives
  <2>. QED  BY <2>1, RoundKept
<1>9. CASE LinkDown
  <2>1. UNCHANGED <<pc, timer, pauseFor>> /\ (quietFor' = 0 \/ quietFor' = quietFor)
    BY <1>9 DEF LinkDown
  <2>. QED  BY <2>1, RoundKept
<1>10. CASE LinkBack
  <2>1. UNCHANGED <<pc, timer, pauseFor>> /\ (quietFor' = 0 \/ quietFor' = quietFor)
    BY <1>10 DEF LinkBack
  <2>. QED  BY <2>1, RoundKept
<1>11. CASE CloseElsewhere
  <2>1. UNCHANGED <<pc, timer, pauseFor>> /\ (quietFor' = 0 \/ quietFor' = quietFor)
    BY <1>11 DEF CloseElsewhere
  <2>. QED  BY <2>1, RoundKept
<1>14. CASE ReconnectElsewhere
  <2>1. UNCHANGED <<pc, timer, pauseFor>> /\ (quietFor' = 0 \/ quietFor' = quietFor)
    BY <1>14 DEF ReconnectElsewhere
  <2>. QED  BY <2>1, RoundKept
<1>12. CASE Tick
  <2>. SUFFICES ASSUME PauseCap # Never PROVE QuietInv'
    OBVIOUS
  <2>1. /\ pc \in {"wait", "grace"} /\ pc' = pc /\ timer > 0 /\ timer' = timer - 1
        /\ quietFor' = 0 \/ quietFor' = quietFor + 1
        /\ pauseFor' = IF pauseFor \in {Never, PauseCap} THEN pauseFor ELSE pauseFor + 1
    BY <1>12 DEF Tick, Watching
  <2>2. LinkDownGrace + NoDataTimeout <= QuietBound /\ QuietBound \in Int
    BY Bounded
  <2>3. CASE pc = "grace"
    BY <2>1, <2>2, <2>3
  <2>4. CASE pc = "wait" /\ pauseFor = Never
    BY <2>1, <2>2, <2>4
  <2>5. CASE pc = "wait" /\ pauseFor # Never
    <3>1. PICK m \in Waits : Round(m)
      BY <2>5
    <3>2. m \in Nat
      BY WholeWaits
    <3>3. quietFor' + timer' <= LinkDownGrace + NoDataTimeout + m
      BY <2>1, <3>1, <3>2 DEF Round
    <3>4. pauseFor' = PauseCap \/ pauseFor' = m - timer'
      BY <2>1, <2>5, <3>1, <3>2 DEF Round
    <3>5. Round(m)'
      BY <3>1, <3>3, <3>4 DEF Round
    <3>6. quietFor' <= QuietBound
      <4>1. LinkDownGrace + NoDataTimeout + m <= QuietBound
        BY <3>1, RoundsFit DEF Round
      <4>. QED  BY <2>1, <2>2, <3>2, <3>3, <4>1
    <3>. QED  BY <2>1, <2>5, <3>1, <3>5, <3>6
  <2>. QED  BY <2>1, <2>3, <2>4, <2>5
<1>13. CASE UNCHANGED vars
  <2>1. UNCHANGED <<pc, timer, pauseFor>> /\ quietFor' = quietFor
    BY <1>13 DEF vars, watch
  <2>. QED  BY <2>1, RoundKept
<1>. QED  BY <1>1, <1>2, <1>3, <1>4, <1>5, <1>6, <1>7, <1>8, <1>9, <1>10, <1>11, <1>12, <1>13, <1>14 DEF Next, Step, Environment

LEMMA InvariantKept == Spec => []StreamInv
<1>1. Init => StreamInv
  <2>. SUFFICES ASSUME Init PROVE StreamInv
    OBVIOUS
  <2>1. TypeOK
    <3>1. bleak \in BOOLEAN /\ link \in BOOLEAN /\ fresh \in BOOLEAN /\ (link => bleak)
      BY DEF Init
    <3>. QED  BY <3>1, Times DEF Init, TypeOK, Reasons
  <2>2. PauseCap # Never => 0 <= QuietBound
    BY Bounded, Times
  <2>. QED  BY <2>1, <2>2, Times
            DEF Init, StreamInv, PauseKnown, WatchOk, DropInv, SilenceInv, QuietInv
<1>2. StreamInv /\ [Next]_vars => StreamInv'
  BY TypeNext, WatchNext, DropNext, SilenceNext, QuietNext DEF StreamInv
<1>. QED  BY <1>1, <1>2, PTL DEF Spec

-----------------------------------------------------------------------------

\* Types of the streaming loop and its clocks, for any timeouts.
THEOREM StreamTyped == Spec => []TypeOK
<1>1. StreamInv => TypeOK
  BY DEF StreamInv
<1>. QED  BY <1>1, InvariantKept, PTL

\* A link that stays down is given up within no_data_timeout and
\* link_down_grace, whatever pauses, blips and frames came before.
THEOREM DropsNoticed == Spec => []DropNoticedInTime
<1>1. StreamInv => DropNoticedInTime
  BY DEF StreamInv, DropInv, DropNoticedInTime
<1>. QED  BY <1>1, InvariantKept, PTL

\* Silence on a link that stays up is given up within pause_cap rounded up to
\* whole waits, one wait and the rest of a grace period.
THEOREM StuckMetersNoticed == Spec => []StuckMeterNoticedInTime
<1>1. StreamInv => StuckMeterNoticedInTime
  BY DEF StreamInv, QuietInv, StuckMeterNoticedInTime
<1>. QED  BY <1>1, InvariantKept, PTL

\* No reconnection cuts a pause short.
THEOREM PausesWaitedOut == Spec => PauseIsWaitedOut
<1>1. ASSUME StreamInv, [Next]_vars, pc # "ensure", pc' = "ensure"
      PROVE  ~bleak \/ ~link \/ silence = PauseCap
  <2>1. Continue \/ Paused \/ Dropped \/ GraceOver
    BY <1>1 DEF Next, Step, Environment, Frame, EnsureOk, EnsureFailed, FrameArrives,
                LinkDown, LinkBack, CloseElsewhere, ReconnectElsewhere, Tick, Await, vars
  <2>2. CASE Continue
    BY <1>1, <2>2 DEF Continue, Loop, Await
  <2>3. CASE Paused
    BY <1>1, <2>3, Times, NeverAssumption
       DEF Paused, Capped, PauseSoFar, Lost, Loop, Await, StreamInv, TypeOK, SilenceInv
  <2>4. CASE Dropped
    BY <2>4 DEF Dropped
  <2>5. CASE GraceOver
    BY <1>1, <2>5 DEF GraceOver, Loop, Await, StreamInv, TypeOK
  <2>. QED  BY <2>1, <2>2, <2>3, <2>4, <2>5
<1>2. StreamInv /\ [Next]_vars =>
        [pc # "ensure" /\ pc' = "ensure" =>
            \/ ~bleak \/ ~link
            \/ silence = PauseCap]_vars
  BY <1>1
<1>. QED  BY <1>2, InvariantKept, PTL DEF Spec, PauseIsWaitedOut
=============================================================================
