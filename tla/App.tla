--------------------------------- MODULE App ---------------------------------
(***************************************************************************)
(* The programs that scan for a meter, stream from it and clean up behind  *)
(* themselves: the examples (examples/_common.py with live.py or           *)
(* debug_stream.py) and tools/connection_state.py.  They compose Scanner   *)
(* with Session, which stands for the client; the frames in between are    *)
(* the subject of FramePath and ReadStream.                                *)
(***************************************************************************)
EXTENDS Scanner

CONSTANT MaxPresses   \* bound: times Ctrl-C is pressed

ASSUME PressAssumption == MaxPresses \in Nat

VARIABLES
    phase, goal, outcome,   \* the client, see Session
    on,         \* meters powered on, in range and not connected elsewhere
    app,        \* "example" or "tool"
    mac,        \* the meter's address, once known
    step,       \* "scan", "connect", "stream", "reconnect", "close"
    raised,     \* the exception that leaves the program
    exit,       \* "running", or the exit status
    presses     \* times Ctrl-C was pressed

Client == INSTANCE Session

session == <<phase, goal, outcome>>
program == <<app, mac, step, raised, exit>>
vars == <<scannerVars, session, on, program, presses>>

Init ==
    /\ ScannerInit
    /\ Client!Init
    /\ on \in SUBSET Meters
    /\ app \in {"example", "tool"}
    /\ mac \in Meters \cup {None}    \* the command line may name it
    /\ step = IF mac = None THEN "scan" ELSE "connect"
    /\ raised = "none" /\ exit = "running" /\ presses = 0

Running == exit = "running"

\* Both programs end by an exception; Ctrl-C is no failure of the tool.
Status(e) ==
    IF e # "Cancelled" THEN "1" ELSE [example |-> "130", tool |-> "0"][app]

\* Exception e leaves the program from outside its try block ...
Quit(e) ==
    /\ raised' = e /\ exit' = Status(e)
    /\ UNCHANGED <<app, mac, step, session>>

\* ... or from inside it: `finally: await client.close()`.
CloseAndRaise(e) ==
    /\ Client!Call("closed")
    /\ raised' = e /\ step' = "close"
    /\ UNCHANGED <<app, mac, exit>>

\* The program awaits a call of the client for step s.
Open(s) ==
    /\ Client!Call("open")
    /\ step' = s
    /\ UNCHANGED <<app, raised, exit>>

-----------------------------------------------------------------------------
(* The program.                                                            *)

Scanning == Running /\ step = "scan"

\* The examples scan once, the tool until it finds a meter.
ScanOver ==
    /\ Scanning
    /\ EndScan(app = "tool")
    /\ UNCHANGED <<session, on, program, presses>>

NextScan ==
    /\ Scanning
    /\ Rescan
    /\ UNCHANGED <<session, on, program, presses>>

NoMeter ==
    /\ Scanning /\ scan = "returned" /\ result = None
    /\ Quit("ConnectionError")
    /\ UNCHANGED <<scannerVars, on, presses>>

\* No Bluetooth adapter, say: neither program scans inside a try block.
ScanBroken ==
    /\ Scanning
    /\ ScanFails
    /\ Quit("BleakError")
    /\ UNCHANGED <<on, presses>>

Connect ==
    /\ Running /\ phase # "busy"
    /\ \/ step = "scan" /\ scan = "returned" /\ result # None
          /\ mac' = result.address
       \/ step = "connect" /\ goal = "closed" /\ UNCHANGED mac
    /\ Open("connect")
    /\ UNCHANGED <<scannerVars, on, presses>>

Returned(s) == Running /\ step = s /\ goal = "open" /\ phase # "busy"

\* The first connection.  The examples make it before their try block.
MutConnected ==
    /\ Returned("connect")
    /\ \/ outcome = "none" /\ step' = "stream"
          /\ UNCHANGED <<app, mac, raised, exit, session>>
       \/ outcome # "none" /\ Quit(outcome)
    /\ UNCHANGED <<scannerVars, on, presses>>
Connected ==
    /\ Returned("connect")
    /\ \/ outcome = "none" /\ step' = "stream"
          /\ UNCHANGED <<app, mac, raised, exit, session>>
       \/ outcome # "none" /\ app = "example" /\ Quit(outcome)
       \/ outcome # "none" /\ app = "tool" /\ CloseAndRaise(outcome)
    /\ UNCHANGED <<scannerVars, on, presses>>

Streaming == Running /\ step = "stream"

\* No frame and no link: read_stream and the tool's loop connect again.
LinkLost ==
    /\ Streaming /\ phase = "half"
    /\ Open("reconnect")
    /\ UNCHANGED <<scannerVars, on, mac, presses>>

\* No frame for the pause cap, which only the tool has.
PauseCap ==
    /\ Streaming /\ phase = "open" /\ app = "tool"
    /\ Open("reconnect")
    /\ UNCHANGED <<scannerVars, on, mac, presses>>

MutReconnected ==
    /\ Returned("reconnect")
    /\ \/ outcome \in {"none", "ConnectionError"} /\ Open("reconnect") /\ UNCHANGED mac
       \/ outcome \notin {"none", "ConnectionError"} /\ CloseAndRaise(outcome)
    /\ UNCHANGED <<scannerVars, on, presses>>
Reconnected ==
    /\ Returned("reconnect")
    /\ \/ outcome = "none" /\ step' = "stream"
          /\ UNCHANGED <<app, mac, raised, exit, session>>
       \/ outcome # "none" /\ CloseAndRaise(outcome)
    /\ UNCHANGED <<scannerVars, on, presses>>

\* close() has returned, or was itself cancelled.
ClosedDown ==
    /\ Running /\ step = "close" /\ phase # "busy"
    /\ Quit(IF outcome = "Cancelled" THEN "Cancelled" ELSE raised)
    /\ UNCHANGED <<scannerVars, on, presses>>

-----------------------------------------------------------------------------
(* The client, as Session has it.  ensure_connected(retries=None) does not *)
(* give up; a connection is made to a meter that is there.                 *)

Untouched == UNCHANGED <<scannerVars, on, program, presses>>

Opened     == Running /\ Client!Succeeds /\ mac \in on /\ Untouched
OpenFailed ==
    /\ Running
    /\ \E e \in Client!Failures :
          /\ e = "ConnectionError" => app = "example"
          /\ Client!Fails(e)
    /\ Untouched
CloseEnds == Running /\ Client!Releases /\ Untouched
LinkDrops == Running /\ Client!Drop /\ Untouched

-----------------------------------------------------------------------------
(* The environment.                                                        *)

Advertise(m) ==
    /\ Scanning /\ m \in on
    /\ \E ad \in MeterAds, r \in Rssi : Hear(m, ad, r)
    /\ UNCHANGED <<session, on, program, presses>>

OtherDevice ==
    /\ Scanning
    /\ \E d \in Others, ad \in OtherAds, r \in Rssi : Hear(d, ad, r)
    /\ UNCHANGED <<session, on, program, presses>>

Toggle(m) ==
    /\ Running
    /\ on' = IF m \in on THEN on \ {m} ELSE on \cup {m}
    /\ UNCHANGED <<scannerVars, session, program, presses>>

\* asyncio.run cancels the main task.  A call of the client ends with that,
\* or swallows it and goes on.
CtrlC ==
    /\ Running /\ presses < MaxPresses
    /\ presses' = presses + 1
    /\ \/ step = "scan" /\ Quit("Cancelled")
       \/ step = "stream" /\ CloseAndRaise("Cancelled")
       \/ Client!Interrupted /\ UNCHANGED program
       \/ phase = "busy" /\ UNCHANGED <<session, program>>
    /\ UNCHANGED <<scannerVars, on>>

Next ==
    \/ ScanOver \/ NextScan \/ NoMeter \/ ScanBroken \/ Connect \/ Connected
    \/ LinkLost \/ PauseCap \/ Reconnected \/ ClosedDown
    \/ Opened \/ OpenFailed \/ CloseEnds \/ LinkDrops
    \/ OtherDevice \/ CtrlC
    \/ \E m \in Meters : Advertise(m) \/ Toggle(m)

Spec == Init /\ [][Next]_vars

Step == ScanOver \/ NextScan \/ NoMeter \/ Connect \/ Connected \/ LinkLost
        \/ Reconnected \/ ClosedDown

\* The event loop runs the program; its calls with bounded retries and close()
\* return (EveryCallReturns of Connection), the call without a bound gets
\* through to a meter that is there (ForeverEndsWhenMeterAnswers); the link to
\* a meter that is gone times out; a meter that is there is heard now and then.
FairSpec ==
    /\ Spec
    /\ WF_vars(Step) /\ WF_vars(CloseEnds)
    /\ WF_vars(app = "example" /\ (Opened \/ OpenFailed))
    /\ SF_vars(app = "tool" /\ Opened)
    /\ WF_vars(mac \notin on /\ LinkDrops)
    /\ \A m \in Meters : SF_vars(Advertise(m))

-----------------------------------------------------------------------------
(* Properties.                                                             *)

\* The client is closed when the program ends, whatever made it end, except
\* that Ctrl-C may interrupt close() itself or, in the examples, the first
\* connection, which they make before their try block.
ReleasedAtExit ==
    ~Running /\ phase # "closed" =>
        /\ exit \in {"0", "130"} /\ presses > 0
        /\ goal = "closed" \/ (app = "example" /\ step = "connect")

\* An example ends, with its connection closed, when the meters are gone for
\* good: no scan, stream or reconnect waits for one for ever.
GivesUpWhenGone ==
    app = "example" /\ <>[](on = {}) => <>~Running

\* The tool gets through to a meter that is on now and then lost, from the
\* first scan on and after every drop: unless it is stopped, its password is
\* refused or a scan fails, it streams again and again while the meters stay on.
ToolComesBack ==
    app = "tool" /\ <>[](on = Meters) =>
        \/ []<>(phase = "open")
        \/ <>(presses > 0 \/ raised \in {"CommandError", "ValueError", "BleakError"})
=============================================================================
