------------------------------- MODULE Probe --------------------------------
(***************************************************************************)
(* Two users of module Commands: the tool probe.py, which changes settings *)
(* of the meter and restores them, and an application whose tasks send     *)
(* commands as they like.  A behaviour is of one or of the other.          *)
(*                                                                         *)
(* The script runs inside `async with`, so a password equal to the one it  *)
(* was started with has been verified.  Names of devices are not empty.    *)
(***************************************************************************)
EXTENDS Commands

CONSTANTS
    Prober,   \* the task that runs the script
    Wanted,   \* what the tasks of the application send
    Unknown   \* original_name = None

ASSUME ProberAssumption  == Prober \in Callers
ASSUME WantedAssumption  == Wanted \subseteq AllCommands
ASSUME UnknownAssumption == Unknown \notin Values

VARIABLES
    tool,      \* the client belongs to the script
    step,      \* where the script is
    original,  \* original_name
    failed,    \* FAILED_STEPS is not empty
    exit,      \* how the script ended
    raising,   \* the exception in flight, for which the finally block runs
    stopped,   \* Ctrl-C has been pressed
    begun,     \* steps begun
    broken,    \* steps that raised what probe() does not catch
    reverted,  \* settings whose revert returned normally
    damaged    \* a response with crc_ok FALSE has been used

script     == <<step, original, failed, exit, raising>>
scriptPast == <<stopped, begun, broken, reverted, damaged>>
vars == <<commandVars, tool, script, scriptPast>>

Script ==
    <<"rtc", "confirmRtc", "firmware", "model", "getPassword", "getName",
      "setPassword", "setName", "checkPassword", "checkName",
      "revertPassword", "revertName", "summary">>
Steps    == {Script[i] : i \in DOMAIN Script}
TryBlock == {"setPassword", "setName", "checkPassword", "checkName"}
Reverts  == [revertPassword |-> "password", revertName |-> "name"]
After(s) == Script[1 + CHOOSE i \in DOMAIN Script : Script[i] = s]

\* The command a step sends.
CommandOf(s) ==
    [rtc           |-> Set("clock", Test),
     firmware      |-> Get("info"),
     model         |-> Get("info"),
     getPassword   |-> Get("password"),
     getName       |-> Get("name"),
     setPassword   |-> Set("password", Test),
     setName       |-> Set("name", Test),
     checkPassword |-> Get("password"),
     checkName     |-> Get("name"),
     revertPassword |-> Set("password", Original),
     revertName    |-> Set("name", original)][s]

Init ==
    /\ CommandsInit
    /\ tool \in BOOLEAN
    /\ step = "rtc" /\ original = Unknown /\ failed = FALSE
    /\ exit = "running" /\ raising = "none"
    /\ stopped = FALSE /\ begun = {} /\ broken = {} /\ reverted = {}
    /\ damaged = FALSE

-----------------------------------------------------------------------------
Running == tool /\ exit = "running" /\ pc[Prober] = "idle"

\* The script ends with exception e, which the finally block may precede.
MutPropagate(e) ==
    /\ broken' = broken \cup {step}
    /\ exit' = e /\ UNCHANGED <<step, raising>>
Propagate(e) ==
    /\ broken' = broken \cup {step}
    /\ IF step \in TryBlock
       THEN step' = "revertPassword" /\ raising' = e /\ UNCHANGED exit
       ELSE exit' = e /\ UNCHANGED <<step, raising>>

\* The script goes on to the next step, or, after the last revert, raises the
\* exception that was in flight.
GoOn ==
    /\ IF step = "revertName" /\ raising # "none"
       THEN exit' = raising /\ UNCHANGED step
       ELSE step' = After(step) /\ UNCHANGED exit
    /\ UNCHANGED <<raising, broken>>

StepBegins ==
    /\ Running /\ outcome[Prober] = "none"
    /\ step \notin {"confirmRtc", "summary"}
    /\ step = "revertName" => original # Unknown
    /\ begun' = begun \cup {step}
    /\ \/ /\ Begin(Prober, CommandOf(step))
          /\ UNCHANGED <<script, broken>>
       \/ /\ step = "revertName" /\ original = Garbled
          /\ Propagate("ValueError")    \* too long once it is encoded again
          /\ UNCHANGED <<commandVars, original, failed>>
    /\ UNCHANGED <<tool, stopped, reverted, damaged>>

SkipNameRevert ==
    /\ Running /\ step = "revertName" /\ original = Unknown
    /\ outcome[Prober] = "none"
    /\ GoOn
    /\ UNCHANGED <<commandVars, tool, original, failed, stopped, begun,
                   reverted, damaged>>

Accepted == outcome[Prober] = "ok"
Refused  == outcome[Prober] \in {"CommandError", "ConnectionError"}

\* What a confirmed value that is not the value that was set does.
Mismatch ==
    /\ step \in {"checkPassword", "checkName"}
    /\ Accepted /\ answer[Prober].value # Test

\* original_name.
MutCapture ==
    original' = IF step = "getName" THEN answer[Prober].value ELSE original
Capture ==
    original' = IF step = "getName" /\ Accepted THEN answer[Prober].value
                ELSE original

\* probe() and probe_rtc() report what they catch and go on.
MutStepEnds ==
    /\ Running /\ (Accepted \/ Refused)
    /\ failed' = (failed \/ outcome[Prober] = "CommandError" \/ Mismatch)
    /\ Capture
    /\ reverted' = IF Accepted /\ step \in DOMAIN Reverts
                   THEN reverted \cup {Reverts[step]} ELSE reverted
    /\ damaged' = (damaged \/ (Accepted /\ ~answer[Prober].crc_ok))
    /\ outcome' = [outcome EXCEPT ![Prober] = "none"]
    /\ GoOn
    /\ UNCHANGED <<device, att, pc, command, answer, history, tool, stopped, begun>>
StepEnds ==
    /\ Running /\ (Accepted \/ Refused)
    /\ failed' = (failed \/ Refused \/ Mismatch)
    /\ Capture
    /\ reverted' = IF Accepted /\ step \in DOMAIN Reverts
                   THEN reverted \cup {Reverts[step]} ELSE reverted
    /\ damaged' = (damaged \/ (Accepted /\ ~answer[Prober].crc_ok))
    /\ outcome' = [outcome EXCEPT ![Prober] = "none"]
    /\ GoOn
    /\ UNCHANGED <<device, att, pc, command, answer, history, tool, stopped, begun>>

StepRaises ==
    /\ Running /\ outcome[Prober] \in {"BleakError", "Cancelled"}
    /\ Propagate(outcome[Prober])
    /\ outcome' = [outcome EXCEPT ![Prober] = "none"]
    /\ UNCHANGED <<device, att, pc, command, answer, history, tool, original,
                   failed, stopped, begun, reverted, damaged>>

\* A pause and wait_frame: no frame, one without a reading, one with another
\* time (it may be older than the sync), one with a date that does not exist.
ConfirmRtc ==
    /\ Running /\ step = "confirmRtc" /\ outcome[Prober] = "none"
    /\ \/ linkUp /\ meter["clock"] = Test /\ GoOn /\ UNCHANGED failed
       \/ GoOn /\ failed' = TRUE
       \/ linkUp /\ Propagate("ValueError") /\ UNCHANGED failed
    /\ UNCHANGED <<commandVars, tool, original, stopped, begun, reverted, damaged>>

Summary ==
    /\ Running /\ step = "summary"
    /\ exit' = IF failed THEN "1" ELSE "0"
    /\ UNCHANGED <<commandVars, tool, step, original, failed, raising, scriptPast>>

\* Ctrl-C cancels the main task, once.
Interrupt ==
    /\ tool /\ exit = "running" /\ ~stopped
    /\ stopped' = TRUE
    /\ \/ /\ Cancel(Prober)
          /\ UNCHANGED <<script, broken>>
       \/ /\ pc[Prober] = "idle" /\ step = "confirmRtc"
          /\ outcome[Prober] = "none"
          /\ Propagate("Cancelled")
          /\ UNCHANGED <<commandVars, original, failed>>
    /\ UNCHANGED <<tool, begun, reverted, damaged>>

ScriptStep ==
    \/ StepBegins \/ SkipNameRevert \/ StepEnds \/ StepRaises
    \/ ConfirmRtc \/ Summary

\* A task of the application calls send_command or is cancelled in it.
ApplicationStep ==
    /\ ~tool
    /\ \E t \in Callers :
          \/ \E c \in Wanted : Begin(t, c)
          \/ Cancel(t)
    /\ UNCHANGED <<tool, script, scriptPast>>

Environment == CommandsStep /\ UNCHANGED <<tool, script, scriptPast>>

Next == ScriptStep \/ Interrupt \/ ApplicationStep \/ Environment

Spec == Init /\ [][Next]_vars

\* The event loop runs the script and its timers.  The meter owes nothing.
ProberTimeout == Timeout(Prober) /\ UNCHANGED <<tool, script, scriptPast>>
FairSpec == Spec /\ WF_vars(ScriptStep) /\ WF_vars(ProberTimeout)

-----------------------------------------------------------------------------
(* Properties.                                                             *)

Exceptions == {"BleakError", "Cancelled", "ValueError"}

TypeOK ==
    /\ CommandsTypeOK
    /\ tool \in BOOLEAN
    /\ step \in Steps
    /\ original \in Values \cup {Unknown}
    /\ failed \in BOOLEAN
    /\ exit \in {"running", "0", "1"} \cup Exceptions
    /\ raising \in {"none"} \cup Exceptions
    /\ stopped \in BOOLEAN
    /\ begun \subseteq Steps /\ broken \subseteq Steps
    /\ reverted \subseteq {"password", "name"}
    /\ damaged \in BOOLEAN

\* What the module's docstring promises about a run that dies at any moment:
\* password and name are the original or the TEST_ values, the recovery keys,
\* unless a damaged response was taken for the original name.
RecoveryKeys ==
    tool /\ ~damaged => {meter["password"], meter["name"]} \subseteq {Original, Test}

\* A revert that the tool saw succeed stays in effect, whatever requests of
\* timed-out steps are still on their way, and exit status 0 says that both did.
RestoredWhenReported ==
    tool /\ ~damaged =>
        /\ \A f \in reverted : meter[f] = Original
        /\ exit = "0" => reverted = {"password", "name"}

\* What the comment on try/finally says, as far as the code keeps it: once a
\* setting may have been changed, the script does not end without having tried
\* to restore the password, and the name if it is known, except that a revert
\* of the password that raises takes the name's with it.
RevertsAttempted ==
    exit # "running" /\ "setPassword" \in begun =>
        /\ "revertPassword" \in begun
        /\ \/ "revertName" \in begun
           \/ original = Unknown
           \/ "revertPassword" \in broken

\* The script ends, though the meter may never answer.
ProbeEnds == tool ~> exit # "running"
=============================================================================
