------------------------------ MODULE Commands ------------------------------
(***************************************************************************)
(* BrymenbleClient.send_command (transport.py) on an open connection: the  *)
(* round trip that writes a command to the meter and reads the response    *)
(* back from the same characteristic, by any number of tasks at once.      *)
(*                                                                         *)
(* GATT requests of one link are served one by one in the order in which   *)
(* they were made (`att`).  A request whose task has been cancelled may    *)
(* have been withdrawn or may still be served.  Packets are abstracted to  *)
(* what they carry; module Wire is about their bytes, and justifies that a *)
(* damaged response is one that does not parse or has crc_ok FALSE.        *)
(***************************************************************************)
EXTENDS Integers, Sequences, FiniteSets, SequencesExt

CONSTANTS
    Callers,     \* asyncio tasks that share the client
    Nobody,      \* owner of a request whose task was cancelled
    Original,    \* the value of each setting at the start
    Test,        \* another one
    Garbled,     \* what is read from a damaged response
    MaxLate      \* bound: requests of cancelled tasks in the queue

ASSUME NobodyAssumption == Nobody \notin Callers
ASSUME ValueAssumption  == Cardinality({Original, Test, Garbled}) = 3
ASSUME LateAssumption   == MaxLate \in Nat

VARIABLES
    linkUp,    \* the link is up
    meter,     \* the meter's settings
    resp,      \* the response the characteristic holds
    att,       \* GATT requests not yet served
    pc,        \* the await a task is suspended at: "write", "read" or "idle"
    command,   \* the command it sent
    outcome,   \* how its last call ended
    answer,    \* the response it was given, returned or raised
    ran,       \* times the meter has executed or refused its command
    alone,     \* no other call has been in progress during its call
    author     \* the task whose call in progress `resp` answers

device  == <<linkUp, meter, resp>>
round   == <<pc, command, outcome, answer>>
history == <<ran, alone, author>>
commandVars == <<device, att, round, history>>

Fields   == {"clock", "password", "name", "info"}
Values   == {Original, Test, Garbled}
Set(f, v) == [field |-> f, set |-> TRUE, value |-> v]
Get(f)    == [field |-> f, set |-> FALSE, value |-> Original]
AllCommands == {Set(f, v) : f \in Fields, v \in Values} \cup {Get(f) : f \in Fields}
Raised   == {"ConnectionError", "BleakError", "Cancelled"}
Outcomes == {"none", "ok", "CommandError"} \cup Raised

CommandsInit ==
    /\ linkUp = TRUE
    /\ meter = [f \in Fields |-> Original]
    /\ resp = [ok |-> TRUE, value |-> Original]    \* to the password, on connect
    /\ att = <<>>
    /\ pc = [t \in Callers |-> "idle"]
    /\ command = [t \in Callers |-> Get("info")]
    /\ outcome = [t \in Callers |-> "none"]
    /\ answer = [t \in Callers |-> [value |-> Original, crc_ok |-> TRUE]]
    /\ ran = [t \in Callers |-> 0]
    /\ alone = [t \in Callers |-> FALSE]
    /\ author = Nobody

-----------------------------------------------------------------------------
Ask(t, kind) == [by |-> t, kind |-> kind, cmd |-> command'[t]]

\* The call begins: the round-trip task makes its first request.  On a link
\* that is down it has nobody to make it to.
MutBegin(t, c) ==
    /\ pc[t] = "idle"
    /\ pc' = [pc EXCEPT ![t] = "read"]
    /\ command' = [command EXCEPT ![t] = c]
    /\ att' = IF linkUp THEN att \o <<Ask(t, "read")>> ELSE att
    /\ outcome' = [outcome EXCEPT ![t] = "none"]
    /\ ran' = [ran EXCEPT ![t] = 0]
    /\ alone' = [u \in Callers |-> u = t /\ \A v \in Callers : pc[v] = "idle"]
    /\ author' = IF author = t THEN Nobody ELSE author
    /\ UNCHANGED <<device, answer>>
Begin(t, c) ==
    /\ pc[t] = "idle"
    /\ pc' = [pc EXCEPT ![t] = "write"]
    /\ command' = [command EXCEPT ![t] = c]
    /\ att' = IF linkUp THEN Append(att, Ask(t, "write")) ELSE att
    /\ outcome' = [outcome EXCEPT ![t] = "none"]
    /\ ran' = [ran EXCEPT ![t] = 0]
    /\ alone' = [u \in Callers |-> u = t /\ \A v \in Callers : pc[v] = "idle"]
    /\ author' = IF author = t THEN Nobody ELSE author
    /\ UNCHANGED <<device, answer>>

End(t, o, a) ==
    /\ pc' = [pc EXCEPT ![t] = "idle"]
    /\ outcome' = [outcome EXCEPT ![t] = o]
    /\ answer' = [answer EXCEPT ![t] = a]
    /\ UNCHANGED command

\* The meter executes or refuses the command at the head of the queue and puts
\* the response where it is read from.  A task that still waits for its write
\* goes on to read.
ServeWrite ==
    /\ att # <<>> /\ Head(att).kind = "write"
    /\ LET t == Head(att).by
           c == Head(att).cmd
       IN
       /\ \/ /\ resp' = [ok |-> TRUE,
                         value |-> IF c.set THEN c.value ELSE meter[c.field]]
             /\ meter' = IF c.set THEN [meter EXCEPT ![c.field] = c.value]
                         ELSE meter
          \/ /\ resp' = [ok |-> FALSE, value |-> Garbled]
             /\ UNCHANGED meter
       /\ author' = t
       /\ \/ /\ t = Nobody
             /\ att' = Tail(att)
             /\ UNCHANGED <<pc, ran>>
          \/ /\ t # Nobody
             /\ att' = Append(Tail(att), [by |-> t, kind |-> "read", cmd |-> c])
             /\ pc' = [pc EXCEPT ![t] = "read"]
             /\ ran' = [ran EXCEPT ![t] = @ + 1]
    /\ UNCHANGED <<linkUp, command, outcome, answer, alone>>

\* What send_command makes of the response: a frame that does not parse, a
\* failure frame, or a success.  Neither crc_ok nor the echoed id is looked at.
MutConclude(t, ok, a) ==
    End(t, "ok", a)
Conclude(t, ok, a) ==
    IF ok THEN End(t, "ok", a) ELSE End(t, "CommandError", a)

ServeRead ==
    /\ att # <<>> /\ Head(att).kind = "read"
    /\ att' = Tail(att)
    /\ LET t == Head(att).by IN
       \/ t = Nobody /\ UNCHANGED round
       \/ t # Nobody /\ Conclude(t, resp.ok, [value |-> resp.value, crc_ok |-> TRUE])
       \/ /\ t # Nobody    \* damaged on the way
          /\ \/ \E ok \in BOOLEAN :
                   Conclude(t, ok, [value |-> Garbled, crc_ok |-> FALSE])
             \/ End(t, "ConnectionError", answer[t])
    /\ UNCHANGED <<device, history>>

\* The places of t's requests in the queue.
Waiting(t) == {i \in DOMAIN att : att[i].by = t}

\* The call ends with exception o and cancels its round-trip task, whose
\* request, if one is waiting, is withdrawn or will be served all the same.
MutAbandon(t, o) ==
    /\ pc[t] # "idle"
    /\ End(t, o, answer[t])
    /\ UNCHANGED <<att, device, history>>
Abandon(t, o) ==
    /\ pc[t] # "idle"
    /\ End(t, o, answer[t])
    /\ \/ Waiting(t) = {} /\ UNCHANGED att
       \/ \E i \in Waiting(t) : att' = RemoveAt(att, i)
       \/ /\ Cardinality(Waiting(Nobody)) < MaxLate
          /\ \E i \in Waiting(t) : att' = [att EXCEPT ![i].by = Nobody]
    /\ UNCHANGED <<device, history>>

MutTimeout(t) == pc[t] = "write" /\ Abandon(t, "ConnectionError")
Timeout(t) == Abandon(t, "ConnectionError")

\* The backend's exception passes through unchanged.
GattError(t) == Abandon(t, "BleakError")

Cancel(t) == Abandon(t, "Cancelled")

LinkDrop ==
    /\ linkUp
    /\ linkUp' = FALSE /\ att' = <<>>
    /\ UNCHANGED <<meter, resp, round, history>>

CommandsStep ==
    \/ ServeWrite \/ ServeRead \/ LinkDrop
    \/ \E t \in Callers : Timeout(t) \/ GattError(t)

-----------------------------------------------------------------------------
(* Properties.                                                             *)

Requests == [by : Callers \cup {Nobody}, kind : {"write", "read"}, cmd : AllCommands]

\* Types; a request in the queue that has an owner is the one its owner waits
\* for, and the only one.
CommandsTypeOK ==
    /\ linkUp \in BOOLEAN
    /\ meter \in [Fields -> Values]
    /\ resp \in [ok : BOOLEAN, value : Values]
    /\ att \in Seq(Requests)
    /\ pc \in [Callers -> {"idle", "write", "read"}]
    /\ command \in [Callers -> AllCommands]
    /\ outcome \in [Callers -> Outcomes]
    /\ answer \in [Callers -> [value : Values, crc_ok : BOOLEAN]]
    /\ ran \in [Callers -> {0, 1}]
    /\ alone \in [Callers -> BOOLEAN]
    /\ author \in Callers \cup {Nobody}
    /\ \A i, j \in DOMAIN att :
          att[i].by # Nobody =>
              /\ att[i].kind = pc[att[i].by]
              /\ att[j].by = att[i].by => i = j

Ends(t, o) == pc[t] # "idle" /\ pc'[t] = "idle" /\ outcome'[t] = o

\* However calls overlap and whatever timed-out calls left behind, a call that
\* returns, or raises CommandError, has had its command served by the meter,
\* once and during that call: no answer is older than the command.
AnsweredMeansServed ==
    [][\A t \in Callers :
          (Ends(t, "ok") \/ Ends(t, "CommandError")) /\ answer'[t].crc_ok =>
              ran[t] = 1]_commandVars

\* A call that no other call overlapped is given the answer to its own command:
\* it returns exactly when the meter accepted that command, with the value that
\* the setting has, late requests of earlier calls notwithstanding.
SoloCallGetsItsOwnAnswer ==
    [][\A t \in Callers :
          alone[t] /\ answer'[t].crc_ok =>
              /\ Ends(t, "ok") => /\ author = t /\ resp.ok
                                  /\ answer'[t].value = meter[command[t].field]
              /\ Ends(t, "CommandError") => author = t /\ ~resp.ok]_commandVars
=============================================================================
