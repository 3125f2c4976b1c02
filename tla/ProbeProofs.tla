----------------------------- MODULE ProbeProofs -----------------------------
(***************************************************************************)
(* The command channel for every number of tasks, late requests and        *)
(* settings read or written, and the script of probe.py on it: which       *)
(* answers a call can be given, and what the script leaves the meter with. *)
(***************************************************************************)
EXTENDS Probe, SequenceTheorems, TLAPS

\* What the meter has done for a call can be told from where the call is, and
\* a request in the queue carries the command its owner sent.
Asked ==
    /\ \A t \in Callers : /\ pc[t] = "read"  => ran[t] = 1
                          /\ pc[t] = "write" => ran[t] = 0
    /\ \A i \in DOMAIN att :
          att[i].by # Nobody => att[i].cmd = command[att[i].by]

\* The request of a call that no other overlaps is behind all the late ones, so
\* that the response it reads is its own: nothing is served in between.
Solo ==
    \A t \in Callers : alone[t] =>
        /\ \A v \in Callers \ {t} : pc[v] = "idle"
        /\ pc[t] = "write" =>
              \A i \in DOMAIN att : att[i].by = t => i = Len(att)
        /\ pc[t] = "read" =>
              /\ Len(att) <= 1 /\ \A i \in DOMAIN att : att[i].by = t
              /\ author = t
              /\ resp.ok => /\ resp.value = meter[command[t].field]
                            /\ command[t].set => resp.value = command[t].value

Channel == CommandsTypeOK /\ Asked /\ Solo

\* A step's command is out, or its outcome not yet looked at.
Pending == pc[Prober] # "idle" \/ outcome[Prober] # "none"

\* The calls of the script are those of its steps, one at a time.
Scripted ==
    tool =>
        /\ \A t \in Callers \ {Prober} : pc[t] = "idle"
        /\ pc[Prober] # "idle" => alone[Prober]
        /\ Pending => /\ step \in begun /\ command[Prober] = CommandOf(step)
                      /\ step \notin {"confirmRtc", "summary"}
                      /\ step = "revertName" => original # Unknown

Early == {"rtc", "confirmRtc", "firmware", "model", "getPassword", "getName"}
Final == {"revertPassword", "revertName", "summary"}

\* The command c is still to be served.
InQueue(c) == \E i \in DOMAIN att : att[i].kind = "write" /\ att[i].cmd = c

\* Setting f has its original value, and nothing under way will change it.
Settled(f) == meter[f] = Original /\ \A v \in Values : ~InQueue(Set(f, v))

\* What an undamaged answer has told the script.
Told == outcome[Prober] = "ok" /\ answer[Prober].crc_ok

\* Nothing but original and TEST_ values is in the meter or on its way there;
\* the name is the original one until it has been captured, and what has been
\* reverted stays so.
Recoverable ==
    tool /\ ~damaged =>
        /\ \A f \in Fields : meter[f] \in {Original, Test}
        /\ \A f \in Fields, v \in Values : InQueue(Set(f, v)) => v \in {Original, Test}
        /\ original \in {Original, Unknown}
        /\ step \in Early => Settled("name")
        /\ step = "getName" /\ Told => answer[Prober].value = Original
        /\ step \in DOMAIN Reverts /\ Told => Settled(Reverts[step])
        /\ \A f \in reverted : Settled(f)

\* Where the script is tells what it has done.
Progress ==
    /\ "password" \in reverted => step \in {"revertName", "summary"}
    /\ "name" \in reverted => step = "summary" \/ exit # "running"
    /\ step \in {"revertName", "summary"} /\ ~failed => "password" \in reverted
    /\ step = "summary" /\ ~failed => "name" \in reverted \/ original = Unknown
    /\ step \notin Early /\ original = Unknown => failed
    /\ exit = "0" => step = "summary" /\ ~failed

\* The finally block is on the way from any change of a setting to the end.
Restoring ==
    /\ step \in {"revertName", "summary"} => "revertPassword" \in begun
    /\ step = "summary" => "revertName" \in begun \/ original = Unknown
    /\ exit = "running" /\ "setPassword" \in begun => step \in TryBlock \cup Final
    /\ RevertsAttempted

ProbeInv == TypeOK /\ Channel /\ Scripted /\ Recoverable /\ Progress /\ Restoring

-----------------------------------------------------------------------------
(* The queue.                                                              *)

\* What is first and what is left of a queue.
LEMMA TailOff ==
    ASSUME NEW S, NEW list \in Seq(S), list # <<>>
    PROVE  /\ 1 \in DOMAIN list /\ Head(list) = list[1] /\ Head(list) \in S
           /\ Tail(list) \in Seq(S) /\ Len(Tail(list)) = Len(list) - 1
           /\ DOMAIN Tail(list) = 1 .. Len(list) - 1
           /\ \A i \in DOMAIN Tail(list) :
                  i + 1 \in DOMAIN list /\ Tail(list)[i] = list[i + 1]
BY SMT

\* A request withdrawn leaves the others, in their order.
LEMMA Removed ==
    ASSUME NEW S, NEW list \in Seq(S), NEW i \in DOMAIN list
    PROVE  /\ RemoveAt(list, i) \in Seq(S)
           /\ DOMAIN RemoveAt(list, i) = 1 .. Len(list) - 1
           /\ \A j \in 1 .. Len(list) - 1 :
                 RemoveAt(list, i)[j] = IF j < i THEN list[j] ELSE list[j + 1]
<1>. DEFINE front == SubSeq(list, 1, i - 1)
           back  == SubSeq(list, i + 1, Len(list))
           rest  == front \o back
<1>1. i \in 1 .. Len(list) /\ Len(list) \in Nat
  OBVIOUS
<1>2. /\ front \in Seq(S) /\ Len(front) = i - 1
      /\ \A j \in 1 .. i - 1 : front[j] = list[j]
  BY <1>1
<1>3. /\ back \in Seq(S) /\ Len(back) = Len(list) - i
      /\ \A j \in 1 .. Len(list) - i : back[j] = list[i + j]
  BY <1>1
<1>. HIDE DEF front, back
<1>4. rest \in Seq(S) /\ Len(rest) = Len(list) - 1
  BY <1>1, <1>2, <1>3
<1>5. \A j \in 1 .. Len(list) - 1 :
         rest[j] = IF j < i THEN front[j] ELSE back[j - i + 1]
  BY <1>1, <1>2, <1>3
<1>6. ASSUME NEW j \in 1 .. Len(list) - 1
      PROVE  rest[j] = IF j < i THEN list[j] ELSE list[j + 1]
  <2>1. CASE j < i
    BY <1>1, <1>2, <1>5, <2>1
  <2>2. CASE ~(j < i)
    <3>1. j - i + 1 \in 1 .. Len(list) - i
      BY <1>1, <2>2
    <3>2. back[j - i + 1] = list[i + (j - i + 1)]
      BY <1>3, <3>1
    <3>3. i + (j - i + 1) = j + 1
      BY <1>1
    <3>. QED  BY <1>5, <2>2, <3>2, <3>3
  <2>. QED  BY <2>1, <2>2
<1>7. rest = RemoveAt(list, i)
  BY DEF RemoveAt, front, back
<1>. HIDE DEF rest
<1>8. DOMAIN rest = 1 .. Len(list) - 1
  BY <1>1, <1>4
<1>. QED  BY <1>4, <1>6, <1>7, <1>8

\* The parts of a command, and of a request.
LEMMA PartsOfCommand ==
    /\ Nobody \notin Callers
    /\ \A f \in Fields, v \in Values :
          /\ Set(f, v) \in AllCommands /\ Get(f) \in AllCommands
          /\ Set(f, v).set = TRUE /\ Set(f, v).field = f /\ Set(f, v).value = v
          /\ Get(f).set = FALSE /\ Get(f).field = f
    /\ \A c \in AllCommands :
          /\ c.field \in Fields /\ c.value \in Values
          /\ c = Get(c.field) \/ c = Set(c.field, c.value)
    /\ Original \in Values /\ Test \in Values /\ Garbled \in Values
<1>1. Nobody \notin Callers
  BY NobodyAssumption
<1>2. Original \in Values /\ Test \in Values /\ Garbled \in Values
  BY DEF Values
<1>. HIDE DEF Values, Fields
<1>3. ASSUME NEW f \in Fields, NEW v \in Values
      PROVE  /\ Set(f, v) \in AllCommands /\ Get(f) \in AllCommands
             /\ Set(f, v).set = TRUE /\ Set(f, v).field = f /\ Set(f, v).value = v
             /\ Get(f).set = FALSE /\ Get(f).field = f
  <2>1. Set(f, v) \in AllCommands /\ Get(f) \in AllCommands
    BY DEF AllCommands
  <2>2. /\ Set(f, v).set = TRUE /\ Set(f, v).field = f /\ Set(f, v).value = v
        /\ Get(f).set = FALSE /\ Get(f).field = f
    BY DEF Set, Get
  <2>. QED  BY <2>1, <2>2
<1>4. ASSUME NEW c \in AllCommands
      PROVE  /\ c.field \in Fields /\ c.value \in Values
             /\ c = Get(c.field) \/ c = Set(c.field, c.value)
  <2>1. CASE \E f \in Fields, v \in Values : c = Set(f, v)
    BY <2>1 DEF Set
  <2>2. CASE \E f \in Fields : c = Get(f)
    BY <2>2, <1>2 DEF Get
  <2>. QED  BY <2>1, <2>2 DEF AllCommands
<1>. QED  BY <1>1, <1>2, <1>3, <1>4

LEMMA PartsOfRequest ==
    /\ \A r \in Requests : r.by \in Callers \cup {Nobody}
                         /\ r.kind \in {"write", "read"} /\ r.cmd \in AllCommands
    /\ \A b \in Callers \cup {Nobody}, k \in {"write", "read"}, c \in AllCommands :
          [by |-> b, kind |-> k, cmd |-> c] \in Requests
BY DEF Requests

-----------------------------------------------------------------------------
(* What every step of the channel keeps.                                   *)

\* Types apart from the queue, and the queue.
Plain ==
    /\ linkUp \in BOOLEAN
    /\ meter \in [Fields -> Values]
    /\ resp \in [ok : BOOLEAN, value : Values]
    /\ pc \in [Callers -> {"idle", "write", "read"}]
    /\ command \in [Callers -> AllCommands]
    /\ outcome \in [Callers -> Outcomes]
    /\ answer \in [Callers -> [value : Values, crc_ok : BOOLEAN]]
    /\ ran \in [Callers -> {0, 1}]
    /\ alone \in [Callers -> BOOLEAN]
    /\ author \in Callers \cup {Nobody}

Owned ==
    \A i, j \in DOMAIN att :
        att[i].by # Nobody =>
            /\ att[i].kind = pc[att[i].by]
            /\ att[j].by = att[i].by => i = j

LEMMA ChannelParts ==
    Channel <=> Plain /\ att \in Seq(Requests) /\ Owned /\ Asked /\ Solo
BY DEF Channel, CommandsTypeOK, Plain, Owned

LEMMA QueueShape ==
    ASSUME att \in Seq(Requests)
    PROVE  /\ Len(att) \in Nat /\ DOMAIN att = 1 .. Len(att)
           /\ \A i \in DOMAIN att : att[i] \in Requests
OBVIOUS

LEMMA BeginsChannel ==
    ASSUME Channel, NEW t \in Callers, NEW c \in AllCommands, Begin(t, c)
    PROVE  Channel'
<1>1. Plain /\ att \in Seq(Requests) /\ Owned /\ Asked /\ Solo
  BY ChannelParts
<1>2. /\ pc[t] = "idle"
      /\ pc' = [pc EXCEPT ![t] = "write"]
      /\ command' = [command EXCEPT ![t] = c]
      /\ att' = IF linkUp THEN Append(att, Ask(t, "write")) ELSE att
      /\ outcome' = [outcome EXCEPT ![t] = "none"]
      /\ ran' = [ran EXCEPT ![t] = 0]
      /\ alone' = [u \in Callers |-> u = t /\ \A v \in Callers : pc[v] = "idle"]
      /\ author' = IF author = t THEN Nobody ELSE author
      /\ linkUp' = linkUp /\ meter' = meter /\ resp' = resp /\ answer' = answer
  BY DEF Begin, device
<1>3. Ask(t, "write") = [by |-> t, kind |-> "write", cmd |-> c]
  BY <1>1, <1>2 DEF Ask, Plain
<1>. DEFINE r == [by |-> t, kind |-> "write", cmd |-> c]
<1>4. r \in Requests /\ r.by = t /\ r.kind = "write" /\ r.cmd = c
  BY PartsOfRequest
<1>. HIDE DEF r
<1>5. Len(att) \in Nat /\ DOMAIN att = 1 .. Len(att) /\ \A i \in DOMAIN att : att[i] \in Requests
  BY <1>1, QueueShape
<1>6. /\ att' \in Seq(Requests)
      /\ \A i \in DOMAIN att' : \/ i \in DOMAIN att /\ att'[i] = att[i]
                                \/ i = Len(att') /\ i = Len(att) + 1 /\ att'[i] = r
  <2>1. CASE linkUp
    <3>1. att' = Append(att, r)
      BY <1>2, <1>3, <2>1 DEF r
    <3>2. /\ Append(att, r) \in Seq(Requests)
          /\ Len(Append(att, r)) = Len(att) + 1
          /\ \A i \in 1 .. Len(att) + 1 :
                Append(att, r)[i] = IF i <= Len(att) THEN att[i] ELSE r
      BY <1>1, <1>4, AppendProperties
    <3>. QED  BY <1>5, <3>1, <3>2
  <2>2. CASE ~linkUp
    BY <1>1, <1>2, <2>2
  <2>. QED  BY <2>1, <2>2
<1>7. \A i \in DOMAIN att : att[i].by # t
  BY <1>1, <1>2, <1>5, PartsOfCommand, PartsOfRequest DEF Owned
<1>8. Plain'
  <2>1. Plain
    BY <1>1
  <2>2. author' \in Callers \cup {Nobody} /\ outcome' \in [Callers -> Outcomes]
    BY <1>2, <2>1 DEF Plain, Outcomes
  <2>3. alone' \in [Callers -> BOOLEAN]
    BY <1>2
  <2>. QED  BY <1>2, <2>1, <2>2, <2>3 DEF Plain
<1>9. Owned'
  BY <1>1, <1>2, <1>4, <1>5, <1>6, <1>7 DEF Owned, Plain
<1>10. Asked'
  <2>1. \A u \in Callers : /\ pc'[u] = "read"  => ran'[u] = 1
                           /\ pc'[u] = "write" => ran'[u] = 0
    BY <1>1, <1>2 DEF Asked, Plain
  <2>2. \A i \in DOMAIN att' :
           att'[i].by # Nobody => att'[i].cmd = command'[att'[i].by]
    BY <1>1, <1>2, <1>4, <1>5, <1>6, <1>7, PartsOfRequest DEF Asked, Plain
  <2>. QED  BY <2>1, <2>2 DEF Asked
<1>11. Solo'
  <2>. SUFFICES ASSUME NEW u \in Callers, alone'[u]
                PROVE  /\ \A v \in Callers \ {u} : pc'[v] = "idle"
                       /\ pc'[u] = "write" /\ \A i \in DOMAIN att' : att'[i].by = u => i = Len(att')
    BY DEF Solo
  <2>1. u = t /\ \A v \in Callers : pc[v] = "idle"
    BY <1>2
  <2>. QED  BY <1>1, <1>2, <1>4, <1>6, <1>7, <2>1 DEF Plain
<1>. QED  BY <1>1, <1>6, <1>8, <1>9, <1>10, <1>11, ChannelParts DEF Channel, CommandsTypeOK, Plain, Owned

LEMMA ServesWrite ==
    ASSUME Channel, ServeWrite
    PROVE  Channel'
<1>1. Plain /\ att \in Seq(Requests) /\ Owned /\ Asked /\ Solo
  BY ChannelParts
<1>. DEFINE t == Head(att).by
           c == Head(att).cmd
           rest == Tail(att)
           n == Len(att)
<1>2. /\ att # <<>> /\ Head(att).kind = "write"
      /\ author' = t
      /\ \/ /\ resp' = [ok |-> TRUE, value |-> IF c.set THEN c.value ELSE meter[c.field]]
            /\ meter' = IF c.set THEN [meter EXCEPT ![c.field] = c.value] ELSE meter
         \/ resp' = [ok |-> FALSE, value |-> Garbled] /\ meter' = meter
      /\ \/ t = Nobody /\ att' = rest /\ pc' = pc /\ ran' = ran
         \/ /\ t # Nobody
            /\ att' = Append(rest, [by |-> t, kind |-> "read", cmd |-> c])
            /\ pc' = [pc EXCEPT ![t] = "read"]
            /\ ran' = [ran EXCEPT ![t] = ran[t] + 1]
      /\ linkUp' = linkUp /\ command' = command /\ outcome' = outcome
      /\ answer' = answer /\ alone' = alone
  BY DEF ServeWrite
<1>3. /\ n \in Nat /\ n = Len(att) /\ DOMAIN att = 1 .. n
      /\ \A i \in DOMAIN att : att[i] \in Requests
  BY <1>1, QueueShape
<1>4. /\ 1 \in DOMAIN att /\ Head(att) = att[1] /\ Head(att) \in Requests
      /\ rest \in Seq(Requests) /\ Len(rest) = n - 1
      /\ DOMAIN rest = 1 .. n - 1
      /\ \A i \in DOMAIN rest : i + 1 \in DOMAIN att /\ rest[i] = att[i + 1]
  BY <1>1, <1>2, TailOff
<1>5. /\ t \in Callers \cup {Nobody} /\ c \in AllCommands
      /\ t = att[1].by /\ c = att[1].cmd /\ att[1].kind = "write"
      /\ t # Nobody => pc[t] = "write" /\ c = command[t]
  BY <1>1, <1>2, <1>4, PartsOfRequest DEF Owned, Asked
<1>. HIDE DEF t, c, rest, n
<1>6. c.field \in Fields /\ c.value \in Values /\ Garbled \in Values
  BY <1>5, PartsOfCommand
<1>7. meter' \in [Fields -> Values] /\ resp' \in [ok : BOOLEAN, value : Values]
  <2>1. meter' \in [Fields -> Values]
    BY <1>1, <1>2, <1>6 DEF Plain
  <2>. DEFINE given == IF c.set THEN c.value ELSE meter[c.field]
  <2>2. given \in Values
    BY <1>1, <1>6 DEF Plain
  <2>3. resp' = [ok |-> TRUE, value |-> given] \/ resp' = [ok |-> FALSE, value |-> Garbled]
    BY <1>2
  <2>. HIDE DEF given
  <2>4. resp' \in [ok : BOOLEAN, value : Values]
    <3>1. [ok |-> TRUE, value |-> given] \in [ok : BOOLEAN, value : Values]
      BY <2>2
    <3>2. [ok |-> FALSE, value |-> Garbled] \in [ok : BOOLEAN, value : Values]
      BY <1>6
    <3>. QED  BY <2>3, <3>1, <3>2, Zenon
  <2>. QED  BY <2>1, <2>4
<1>8. resp'.ok => /\ resp'.value = meter'[c.field]
                  /\ c.set => resp'.value = c.value
  BY <1>1, <1>2, <1>6 DEF Plain
<1>9. Nobody \notin Callers
  BY PartsOfCommand
<1>10. CASE t = Nobody
  <2>1. att' = rest /\ pc' = pc /\ ran' = ran
    BY <1>2, <1>10
  <2>2. Plain'
    BY <1>1, <1>2, <1>5, <1>7, <2>1 DEF Plain
  <2>3. Owned'
    BY <1>1, <1>3, <1>4, <2>1 DEF Owned
  <2>4. Asked'
    BY <1>1, <1>2, <1>4, <2>1 DEF Asked
  <2>5. Solo'
    <3>. SUFFICES ASSUME NEW u \in Callers, alone'[u]
                  PROVE  /\ \A v \in Callers \ {u} : pc'[v] = "idle"
                         /\ pc'[u] = "write" =>
                              \A i \in DOMAIN att' : att'[i].by = u => i = Len(att')
                         /\ pc'[u] # "read"
      BY DEF Solo
    <3>1. pc[u] # "read"
      <4>1. alone[u] /\ u # att[1].by
        BY <1>2, <1>5, <1>9, <1>10
      <4>. QED  BY <1>1, <1>4, <4>1 DEF Solo
    <3>2. \A v \in Callers \ {u} : pc'[v] = "idle"
      BY <1>1, <1>2, <2>1 DEF Solo
    <3>3. ASSUME pc[u] = "write", NEW i \in DOMAIN rest, rest[i].by = u
          PROVE  i = Len(rest)
      <4>1. i + 1 = Len(att)
        BY <1>1, <1>2, <1>4, <3>3 DEF Solo
      <4>. QED  BY <1>3, <1>4, <4>1
    <3>. QED  BY <2>1, <3>1, <3>2, <3>3
  <2>. QED  BY <1>4, <2>1, <2>2, <2>3, <2>4, <2>5 DEF Channel, CommandsTypeOK, Plain, Owned
<1>11. CASE t # Nobody
  <2>. DEFINE r == [by |-> t, kind |-> "read", cmd |-> c]
  <2>1. /\ att' = Append(rest, r)
        /\ pc' = [pc EXCEPT ![t] = "read"]
        /\ ran' = [ran EXCEPT ![t] = ran[t] + 1]
    BY <1>2, <1>11
  <2>2. t \in Callers /\ pc[t] = "write" /\ c = command[t]
    BY <1>5, <1>11
  <2>3. r \in Requests /\ r.by = t /\ r.kind = "read" /\ r.cmd = c
    BY <1>5, PartsOfRequest
  <2>. HIDE DEF r
  <2>4. /\ att' \in Seq(Requests) /\ Len(att') = n
        /\ DOMAIN att' = 1 .. n
        /\ \A i \in 1 .. n :
              att'[i] = IF i = n THEN r ELSE att[i + 1]
    <3>1. /\ att' \in Seq(Requests) /\ Len(att') = Len(rest) + 1
          /\ \A i \in 1 .. Len(rest) + 1 :
                att'[i] = IF i <= Len(rest) THEN rest[i] ELSE r
      BY <1>4, <2>1, <2>3, AppendProperties
    <3>2. Len(rest) \in Nat /\ Len(rest) + 1 = n
      BY <1>3, <1>4
    <3>3. DOMAIN att' = 1 .. Len(att')
      BY <3>1
    <3>4. ASSUME NEW i \in 1 .. n
          PROVE  att'[i] = IF i = n THEN r ELSE att[i + 1]
      <4>1. CASE i = n
        <5>1. i \in 1 .. Len(rest) + 1 /\ ~(i <= Len(rest))
          BY <1>3, <3>2, <4>1
        <5>2. att'[i] = r
          BY <3>1, <5>1
        <5>. QED  BY <4>1, <5>2
      <4>2. CASE i # n
        <5>1. i \in 1 .. n - 1
          BY <1>3, <4>2
        <5>2. rest[i] = att[i + 1]
          BY <1>4, <5>1
        <5>3. i \in 1 .. Len(rest) + 1 /\ i <= Len(rest)
          BY <1>3, <3>2, <5>1
        <5>4. att'[i] = rest[i]
          BY <3>1, <5>3
        <5>. QED  BY <4>2, <5>2, <5>4
      <4>. QED  BY <4>1, <4>2
    <3>. QED  BY <3>1, <3>2, <3>3, <3>4
  <2>5. \A i \in 1 .. n - 1 : i + 1 \in DOMAIN att /\ att[i + 1].by # t
    BY <1>1, <1>3, <1>4, <1>5, <1>11 DEF Owned
  <2>6. Plain'
    <3>1. ran' \in [Callers -> {0, 1}]
      <4>1. ran[t] = 0
        BY <1>1, <2>2 DEF Asked
      <4>. QED  BY <1>1, <2>1, <2>2, <4>1 DEF Plain
    <3>2. pc' \in [Callers -> {"idle", "write", "read"}]
      BY <1>1, <2>1 DEF Plain
    <3>3. author' \in Callers \cup {Nobody}
      BY <1>2, <1>5
    <3>4. /\ linkUp' \in BOOLEAN /\ command' \in [Callers -> AllCommands]
          /\ outcome' \in [Callers -> Outcomes]
          /\ answer' \in [Callers -> [value : Values, crc_ok : BOOLEAN]]
          /\ alone' \in [Callers -> BOOLEAN]
      BY <1>1, <1>2 DEF Plain
    <3>. QED  BY <1>7, <3>1, <3>2, <3>3, <3>4, Zenon DEF Plain
  <2>7. Owned'
    <3>1. att'[n] = r /\ n \in 1 .. n
      BY <1>3, <1>4, <2>4
    <3>2. \A i \in 1 .. n : i # n =>
             /\ i + 1 \in DOMAIN att /\ att'[i] = att[i + 1]
             /\ att'[i].by # t
      BY <1>3, <2>4, <2>5
    <3>3. ASSUME NEW i \in 1 .. n, NEW j \in 1 .. n, att'[i].by # Nobody
          PROVE  att'[i].kind = pc'[att'[i].by] /\ (att'[j].by = att'[i].by => i = j)
      <4>1. CASE i = n
        BY <1>1, <2>1, <2>2, <2>3, <3>1, <3>2, <4>1 DEF Plain
      <4>2. CASE i # n
        <5>1. /\ i + 1 \in DOMAIN att /\ att'[i] = att[i + 1] /\ att'[i].by # t
              /\ att[i + 1].by # Nobody
          BY <3>2, <3>3, <4>2
        <5>2. att'[i].kind = pc'[att'[i].by]
          BY <1>1, <1>3, <2>1, <5>1, PartsOfRequest DEF Owned, Plain
        <5>3. CASE j = n
          BY <2>3, <3>1, <5>1, <5>2, <5>3
        <5>4. CASE j # n
          <6>1. j + 1 \in DOMAIN att /\ att'[j] = att[j + 1]
            BY <3>2, <5>4
          <6>2. att'[j].by = att'[i].by => i + 1 = j + 1
            BY <1>1, <5>1, <6>1 DEF Owned
          <6>. QED  BY <1>3, <5>2, <6>2
        <5>. QED  BY <5>3, <5>4
      <4>. QED  BY <4>1, <4>2
    <3>. QED  BY <2>4, <3>3 DEF Owned
  <2>8. Asked'
    <3>1. \A u \in Callers : /\ pc'[u] = "read"  => ran'[u] = 1
                             /\ pc'[u] = "write" => ran'[u] = 0
      BY <1>1, <2>1, <2>2 DEF Asked, Plain
    <3>2. ASSUME NEW i \in DOMAIN att', att'[i].by # Nobody
          PROVE  att'[i].cmd = command'[att'[i].by]
      <4>1. CASE i = n
        <5>1. att'[i] = r
          BY <2>4, <4>1
        <5>2. command' = command
          BY <1>2
        <5>. QED  BY <2>2, <2>3, <5>1, <5>2
      <4>2. CASE i # n
        <5>1. i \in 1 .. n /\ i \in 1 .. n - 1
          BY <1>3, <2>4, <4>2
        <5>2. i + 1 \in DOMAIN att /\ att'[i] = att[i + 1]
          BY <2>4, <2>5, <4>2, <5>1
        <5>3. command' = command
          BY <1>2
        <5>. QED  BY <1>1, <3>2, <5>2, <5>3 DEF Asked
      <4>. QED  BY <4>1, <4>2
    <3>. QED  BY <3>1, <3>2 DEF Asked
  <2>9. Solo'
    <3>. SUFFICES ASSUME NEW u \in Callers, alone'[u]
                  PROVE  /\ \A v \in Callers \ {u} : pc'[v] = "idle"
                         /\ pc'[u] # "write"
                         /\ pc'[u] = "read" =>
                              /\ Len(att') <= 1 /\ \A i \in DOMAIN att' : att'[i].by = u
                              /\ author' = u
                              /\ resp'.ok =>
                                    /\ resp'.value = meter'[command'[u].field]
                                    /\ command'[u].set => resp'.value = command'[u].value
      BY DEF Solo
    <3>1. u = t
      BY <1>1, <1>2, <2>2 DEF Solo
    <3>2. n = 1
      BY <1>1, <1>2, <1>3, <1>4, <1>5, <2>2, <3>1 DEF Solo
    <3>. QED  BY <1>1, <1>2, <1>8, <2>1, <2>2, <2>3, <2>4, <3>1, <3>2 DEF Solo, Plain
  <2>. QED  BY <2>4, <2>6, <2>7, <2>8, <2>9 DEF Channel, CommandsTypeOK, Plain, Owned
<1>. QED  BY <1>10, <1>11

\* A response is given to the task whose read is served, and to no other.
LEMMA ReadGivesTo ==
    ASSUME Channel, ServeRead
    PROVE  LET t == att[1].by IN
           /\ 1 \in DOMAIN att /\ att' = Tail(att) /\ t \in Callers \cup {Nobody}
           /\ UNCHANGED <<linkUp, meter, resp, ran, alone, author, command>>
           /\ t = Nobody => UNCHANGED <<pc, outcome, answer>>
           /\ t # Nobody =>
                /\ pc[t] = "read"
                /\ pc' = [pc EXCEPT ![t] = "idle"]
                /\ \E o \in {"ok", "CommandError", "ConnectionError"} :
                      outcome' = [outcome EXCEPT ![t] = o]
                /\ \E a \in [value : Values, crc_ok : BOOLEAN] :
                      answer' = [answer EXCEPT ![t] = a]
                /\ answer'[t].crc_ok /\ outcome'[t] = "ok" =>
                      resp.ok /\ answer'[t].value = resp.value
                /\ answer'[t].crc_ok /\ outcome'[t] = "CommandError" => ~resp.ok
<1>1. Plain /\ att \in Seq(Requests) /\ Owned /\ Asked /\ Solo
  BY ChannelParts
<1>. DEFINE t == Head(att).by
<1>2. /\ att # <<>> /\ Head(att).kind = "read" /\ att' = Tail(att)
      /\ UNCHANGED <<linkUp, meter, resp, ran, alone, author>>
      /\ \/ t = Nobody /\ UNCHANGED <<pc, command, outcome, answer>>
         \/ t # Nobody /\ Conclude(t, resp.ok, [value |-> resp.value, crc_ok |-> TRUE])
         \/ t # Nobody /\ \E ok \in BOOLEAN :
                             Conclude(t, ok, [value |-> Garbled, crc_ok |-> FALSE])
         \/ t # Nobody /\ End(t, "ConnectionError", answer[t])
  BY DEF ServeRead, device, history, round
<1>3. 1 \in DOMAIN att /\ Head(att) = att[1] /\ Head(att) \in Requests
  BY <1>1, <1>2, TailOff
<1>4. /\ t = att[1].by /\ t \in Callers \cup {Nobody}
      /\ t # Nobody => pc[t] = "read"
  BY <1>1, <1>2, <1>3, PartsOfRequest DEF Owned
<1>5. UNCHANGED command
  BY <1>2 DEF Conclude, End
<1>. HIDE DEF t
<1>6. CASE t = Nobody
  BY <1>2, <1>3, <1>4, <1>5, <1>6
<1>7. CASE t # Nobody
  <2>1. t \in Callers
    BY <1>4, <1>7
  <2>2. \E o \in {"ok", "CommandError", "ConnectionError"},
           a \in [value : Values, crc_ok : BOOLEAN] :
             /\ End(t, o, a)
             /\ a.crc_ok /\ o = "ok" => resp.ok /\ a.value = resp.value
             /\ a.crc_ok /\ o = "CommandError" => ~resp.ok
    <3>1. CASE Conclude(t, resp.ok, [value |-> resp.value, crc_ok |-> TRUE])
      <4>. DEFINE a == [value |-> resp.value, crc_ok |-> TRUE]
      <4>1. a \in [value : Values, crc_ok : BOOLEAN] /\ a.crc_ok /\ a.value = resp.value
        BY <1>1 DEF Plain
      <4>. HIDE DEF a
      <4>2. IF resp.ok THEN End(t, "ok", a) ELSE End(t, "CommandError", a)
        BY <3>1 DEF Conclude, a
      <4>. QED  BY <4>1, <4>2
    <3>2. CASE \E ok \in BOOLEAN : Conclude(t, ok, [value |-> Garbled, crc_ok |-> FALSE])
      <4>. DEFINE a == [value |-> Garbled, crc_ok |-> FALSE]
      <4>1. a \in [value : Values, crc_ok : BOOLEAN] /\ ~a.crc_ok
        BY PartsOfCommand
      <4>. HIDE DEF a
      <4>2. End(t, "ok", a) \/ End(t, "CommandError", a)
        BY <3>2 DEF Conclude, a
      <4>. QED  BY <4>1, <4>2
    <3>3. CASE End(t, "ConnectionError", answer[t])
      <4>1. answer[t] \in [value : Values, crc_ok : BOOLEAN]
        BY <1>1, <2>1 DEF Plain
      <4>. QED  BY <3>3, <4>1
    <3>. QED  BY <1>2, <1>7, <3>1, <3>2, <3>3
  <2>3. PICK o \in {"ok", "CommandError", "ConnectionError"},
             a \in [value : Values, crc_ok : BOOLEAN] :
               /\ End(t, o, a)
               /\ a.crc_ok /\ o = "ok" => resp.ok /\ a.value = resp.value
               /\ a.crc_ok /\ o = "CommandError" => ~resp.ok
    BY <2>2
  <2>4. /\ pc' = [pc EXCEPT ![t] = "idle"]
        /\ outcome' = [outcome EXCEPT ![t] = o]
        /\ answer' = [answer EXCEPT ![t] = a]
    BY <2>3 DEF End
  <2>5. outcome'[t] = o /\ answer'[t] = a
    BY <1>1, <2>1, <2>4 DEF Plain
  <2>. QED  BY <1>2, <1>3, <1>4, <1>5, <1>7, <2>3, <2>4, <2>5
<1>. QED  BY <1>6, <1>7

LEMMA ServesRead ==
    ASSUME Channel, ServeRead
    PROVE  Channel'
<1>. DEFINE t == att[1].by
           rest == Tail(att)
           n == Len(att)
<1>1. Plain /\ att \in Seq(Requests) /\ Owned /\ Asked /\ Solo
  BY ChannelParts
<1>2. /\ 1 \in DOMAIN att /\ att' = rest /\ t \in Callers \cup {Nobody}
      /\ UNCHANGED <<linkUp, meter, resp, ran, alone, author, command>>
      /\ t = Nobody => UNCHANGED <<pc, outcome, answer>>
      /\ t # Nobody =>
           /\ pc[t] = "read"
           /\ pc' = [pc EXCEPT ![t] = "idle"]
           /\ \E o \in {"ok", "CommandError", "ConnectionError"} :
                 outcome' = [outcome EXCEPT ![t] = o]
           /\ \E a \in [value : Values, crc_ok : BOOLEAN] :
                 answer' = [answer EXCEPT ![t] = a]
  BY ReadGivesTo
<1>3. /\ n \in Nat /\ n = Len(att) /\ DOMAIN att = 1 .. n
      /\ \A i \in DOMAIN att : att[i] \in Requests
  BY <1>1, QueueShape
<1>4. /\ rest \in Seq(Requests) /\ Len(rest) = n - 1 /\ DOMAIN rest = 1 .. n - 1
      /\ \A i \in DOMAIN rest : i + 1 \in DOMAIN att /\ rest[i] = att[i + 1]
  <2>1. att # <<>>
    BY <1>2, <1>3
  <2>. QED  BY <1>1, <2>1, TailOff
<1>5. Nobody \notin Callers
  BY PartsOfCommand
<1>. HIDE DEF rest, n
<1>6. Plain'
  <2>1. pc' \in [Callers -> {"idle", "write", "read"}]
    BY <1>1, <1>2 DEF Plain
  <2>2. outcome' \in [Callers -> Outcomes]
    BY <1>1, <1>2 DEF Plain, Outcomes, Raised
  <2>3. answer' \in [Callers -> [value : Values, crc_ok : BOOLEAN]]
    <3>1. answer \in [Callers -> [value : Values, crc_ok : BOOLEAN]]
      BY <1>1 DEF Plain
    <3>. QED  BY <1>2, <3>1
  <2>. QED  BY <1>1, <1>2, <2>1, <2>2, <2>3, Zenon DEF Plain
<1>7. \A i \in DOMAIN rest : t # Nobody => rest[i].by # t
  BY <1>1, <1>2, <1>3, <1>4 DEF Owned
<1>8. \A c \in Callers : c # t => pc'[c] = pc[c]
  BY <1>1, <1>2 DEF Plain
<1>9. Owned'
  <2>1. ASSUME NEW i \in DOMAIN rest, NEW j \in DOMAIN rest, rest[i].by # Nobody
        PROVE  rest[i].kind = pc'[rest[i].by] /\ (rest[j].by = rest[i].by => i = j)
    <3>1. /\ i + 1 \in DOMAIN att /\ rest[i] = att[i + 1]
          /\ j + 1 \in DOMAIN att /\ rest[j] = att[j + 1]
      BY <1>4
    <3>2. rest[i].by \in Callers /\ rest[i].by # t
      BY <1>3, <1>7, <2>1, <3>1, PartsOfRequest
    <3>3. /\ rest[i].kind = pc[rest[i].by]
          /\ rest[j].by = rest[i].by => i + 1 = j + 1
      BY <1>1, <2>1, <3>1 DEF Owned
    <3>. QED  BY <1>3, <1>4, <1>8, <3>2, <3>3
  <2>. QED  BY <1>2, <2>1 DEF Owned
<1>10. Asked'
  <2>1. \A c \in Callers : pc'[c] = pc[c] \/ pc'[c] = "idle"
    BY <1>1, <1>2 DEF Plain
  <2>2. \A c \in Callers : /\ pc'[c] = "read"  => ran'[c] = 1
                           /\ pc'[c] = "write" => ran'[c] = 0
    BY <1>1, <1>2, <2>1 DEF Asked
  <2>3. \A i \in DOMAIN rest : rest[i].by # Nobody => rest[i].cmd = command'[rest[i].by]
    BY <1>1, <1>2, <1>4 DEF Asked
  <2>. QED  BY <1>2, <2>2, <2>3 DEF Asked
<1>11. Solo'
  <2>. SUFFICES ASSUME NEW u \in Callers, alone'[u]
                PROVE  /\ \A v \in Callers \ {u} : pc'[v] = "idle"
                       /\ pc'[u] = "write" =>
                            \A i \in DOMAIN att' : att'[i].by = u => i = Len(att')
                       /\ pc'[u] # "read"
    BY DEF Solo
  <2>1. alone[u] /\ (pc'[u] = pc[u] \/ pc'[u] = "idle")
    BY <1>1, <1>2 DEF Plain
  <2>2. \A v \in Callers \ {u} : pc'[v] = "idle"
    BY <1>1, <1>2, <2>1 DEF Plain, Solo
  <2>3. pc'[u] # "read"
    <3>1. pc[u] = "read" => u = t
      BY <1>1, <1>2, <2>1 DEF Solo
    <3>. QED  BY <1>1, <1>2, <1>5, <2>1, <3>1 DEF Plain
  <2>4. ASSUME pc[u] = "write", NEW i \in DOMAIN rest, rest[i].by = u
        PROVE  i = Len(rest)
    <3>1. i + 1 = n
      BY <1>1, <1>3, <1>4, <2>1, <2>4 DEF Solo
    <3>. QED  BY <1>3, <1>4, <3>1
  <2>. QED  BY <1>2, <2>1, <2>2, <2>3, <2>4
<1>. QED  BY <1>2, <1>4, <1>6, <1>9, <1>10, <1>11 DEF Channel, CommandsTypeOK, Plain, Owned

\* What is left in the queue when a call is given up.
LEMMA AbandonLeaves ==
    ASSUME Channel, NEW t \in Callers, NEW o \in Raised, Abandon(t, o)
    PROVE  /\ pc[t] # "idle" /\ pc' = [pc EXCEPT ![t] = "idle"]
           /\ outcome' = [outcome EXCEPT ![t] = o]
           /\ answer' = [answer EXCEPT ![t] = answer[t]]
           /\ UNCHANGED <<linkUp, meter, resp, ran, alone, author, command>>
           /\ att' \in Seq(Requests)
           /\ \A i \in DOMAIN att' :
                 /\ att'[i].by # t
                 /\ \E k \in DOMAIN att :
                       /\ att[k].kind = att'[i].kind /\ att[k].cmd = att'[i].cmd
                       /\ att'[i].by = att[k].by \/ (att[k].by = t /\ att'[i].by = Nobody)
           /\ \A i, j \in DOMAIN att' :
                 att'[i].by # Nobody /\ att'[j].by = att'[i].by => i = j
<1>1. Plain /\ att \in Seq(Requests) /\ Owned
  BY ChannelParts
<1>. DEFINE n == Len(att)
<1>2. /\ n \in Nat /\ n = Len(att) /\ DOMAIN att = 1 .. n
      /\ \A i \in DOMAIN att : att[i] \in Requests
  BY <1>1, QueueShape
<1>3. /\ pc[t] # "idle" /\ pc' = [pc EXCEPT ![t] = "idle"]
      /\ outcome' = [outcome EXCEPT ![t] = o]
      /\ answer' = [answer EXCEPT ![t] = answer[t]]
      /\ UNCHANGED <<linkUp, meter, resp, ran, alone, author, command>>
  BY DEF Abandon, End, device, history
<1>4. Nobody \notin Callers
  BY PartsOfCommand
<1>. HIDE DEF n
<1>5. CASE Waiting(t) = {} /\ UNCHANGED att
  <2>1. \A i \in DOMAIN att : att[i].by # t
    BY <1>5 DEF Waiting
  <2>2. \A i, j \in DOMAIN att : att[i].by # Nobody /\ att[j].by = att[i].by => i = j
    BY <1>1 DEF Owned
  <2>. QED  BY <1>1, <1>3, <1>5, <2>1, <2>2
<1>6. ASSUME NEW k \in Waiting(t), att' = RemoveAt(att, k)
      PROVE  /\ att' \in Seq(Requests)
             /\ \A i \in DOMAIN att' :
                   att'[i].by # t /\ \E l \in DOMAIN att : att[l] = att'[i]
             /\ \A i, j \in DOMAIN att' :
                   att'[i].by # Nobody /\ att'[j].by = att'[i].by => i = j
  <2>1. k \in DOMAIN att /\ att[k].by = t
    BY DEF Waiting
  <2>2. /\ att' \in Seq(Requests) /\ DOMAIN att' = 1 .. n - 1
        /\ \A j \in 1 .. n - 1 : att'[j] = IF j < k THEN att[j] ELSE att[j + 1]
    BY <1>1, <1>2, <1>6, <2>1, Removed
  <2>. DEFINE from(i) == IF i < k THEN i ELSE i + 1
  <2>3. \A i \in 1 .. n - 1 : /\ from(i) \in DOMAIN att /\ from(i) # k
                              /\ att'[i] = att[from(i)]
    BY <1>2, <2>1, <2>2
  <2>4. \A i, j \in 1 .. n - 1 : from(i) = from(j) => i = j
    BY <1>2, <2>1
  <2>5. \A i, j \in DOMAIN att : att[i].by # Nobody /\ att[j].by = att[i].by => i = j
    BY <1>1 DEF Owned
  <2>. HIDE DEF from
  <2>6. t # Nobody
    BY <1>4
  <2>. QED  BY <2>1, <2>2, <2>3, <2>4, <2>5, <2>6
<1>7. ASSUME NEW k \in Waiting(t), att' = [att EXCEPT ![k].by = Nobody]
      PROVE  /\ att' \in Seq(Requests)
             /\ \A i \in DOMAIN att' :
                   /\ att'[i].by # t
                   /\ i \in DOMAIN att
                   /\ att[i].kind = att'[i].kind /\ att[i].cmd = att'[i].cmd
                   /\ att'[i].by = att[i].by \/ (att[i].by = t /\ att'[i].by = Nobody)
             /\ \A i, j \in DOMAIN att' :
                   att'[i].by # Nobody /\ att'[j].by = att'[i].by => i = j
  <2>1. k \in DOMAIN att /\ att[k].by = t
    BY DEF Waiting
  <2>. DEFINE r == [att[k] EXCEPT !.by = Nobody]
  <2>2. r \in Requests /\ r.by = Nobody /\ r.kind = att[k].kind /\ r.cmd = att[k].cmd
    <3>1. att[k] \in Requests
      BY <1>2, <2>1
    <3>. QED  BY <3>1 DEF Requests
  <2>3. att' = [att EXCEPT ![k] = r]
    BY <1>7
  <2>. HIDE DEF r
  <2>4. att' \in Seq(Requests) /\ DOMAIN att' = DOMAIN att
    BY <1>1, <1>2, <2>1, <2>2, <2>3
  <2>5. \A i \in DOMAIN att : att'[i] = IF i = k THEN r ELSE att[i]
    BY <2>1, <2>3
  <2>6. \A i, j \in DOMAIN att : att[i].by # Nobody /\ att[j].by = att[i].by => i = j
    BY <1>1 DEF Owned
  <2>7. t # Nobody
    BY <1>4
  <2>. QED  BY <2>1, <2>2, <2>4, <2>5, <2>6, <2>7
<1>8. \/ Waiting(t) = {} /\ UNCHANGED att
      \/ \E i \in Waiting(t) : att' = RemoveAt(att, i)
      \/ \E i \in Waiting(t) : att' = [att EXCEPT ![i].by = Nobody]
  BY DEF Abandon
<1>. QED  BY <1>3, <1>5, <1>6, <1>7, <1>8

LEMMA AbandonsChannel ==
    ASSUME Channel, NEW t \in Callers, NEW o \in Raised, Abandon(t, o)
    PROVE  Channel'
<1>1. Plain /\ att \in Seq(Requests) /\ Owned /\ Asked /\ Solo
  BY ChannelParts
<1>2. /\ pc[t] # "idle" /\ pc' = [pc EXCEPT ![t] = "idle"]
      /\ outcome' = [outcome EXCEPT ![t] = o]
      /\ answer' = [answer EXCEPT ![t] = answer[t]]
      /\ UNCHANGED <<linkUp, meter, resp, ran, alone, author, command>>
      /\ att' \in Seq(Requests)
  BY AbandonLeaves
<1>3. \A i \in DOMAIN att' :
         /\ att'[i].by # t
         /\ \E k \in DOMAIN att :
               /\ att[k].kind = att'[i].kind /\ att[k].cmd = att'[i].cmd
               /\ att'[i].by = att[k].by \/ (att[k].by = t /\ att'[i].by = Nobody)
  BY AbandonLeaves
<1>4. \A i, j \in DOMAIN att' :
         att'[i].by # Nobody /\ att'[j].by = att'[i].by => i = j
  BY AbandonLeaves
<1>5. \A i \in DOMAIN att' : att'[i].by \in Callers \cup {Nobody}
  <2>1. \A i \in DOMAIN att' : att'[i] \in Requests
    BY <1>2
  <2>. QED  BY <2>1, PartsOfRequest
<1>6. \A c \in Callers : c # t => pc'[c] = pc[c]
  BY <1>1, <1>2 DEF Plain
<1>7. Plain'
  <2>1. pc' \in [Callers -> {"idle", "write", "read"}] /\ outcome' \in [Callers -> Outcomes]
    BY <1>1, <1>2 DEF Plain, Outcomes
  <2>2. answer' = answer
    BY <1>1, <1>2 DEF Plain
  <2>. QED  BY <1>1, <1>2, <2>1, <2>2, Zenon DEF Plain
<1>8. \A i \in DOMAIN att' : att'[i].by # Nobody =>
         /\ att'[i].kind = pc'[att'[i].by]
         /\ att'[i].cmd = command'[att'[i].by]
  <2>1. ASSUME NEW i \in DOMAIN att', att'[i].by # Nobody
        PROVE  /\ att'[i].kind = pc'[att'[i].by]
               /\ att'[i].cmd = command'[att'[i].by]
    <3>1. PICK k \in DOMAIN att :
             /\ att[k].kind = att'[i].kind /\ att[k].cmd = att'[i].cmd
             /\ att'[i].by = att[k].by
      BY <1>3, <2>1
    <3>2. att[k].kind = pc[att[k].by] /\ att[k].cmd = command[att[k].by]
      BY <1>1, <2>1, <3>1 DEF Owned, Asked
    <3>3. att'[i].by \in Callers /\ att'[i].by # t
      BY <1>3, <1>5, <2>1
    <3>. QED  BY <1>2, <1>6, <3>1, <3>2, <3>3
  <2>. QED  BY <2>1
<1>9. Owned'
  BY <1>4, <1>8 DEF Owned
<1>10. Asked'
  <2>1. \A c \in Callers : /\ pc'[c] = "read"  => ran'[c] = 1
                           /\ pc'[c] = "write" => ran'[c] = 0
    BY <1>1, <1>2 DEF Asked, Plain
  <2>. QED  BY <1>8, <2>1 DEF Asked
<1>11. Solo'
  <2>. SUFFICES ASSUME NEW u \in Callers, alone'[u]
                PROVE  \A v \in Callers : pc'[v] = "idle"
    BY DEF Solo
  <2>1. u = t /\ \A v \in Callers \ {u} : pc[v] = "idle"
    BY <1>1, <1>2 DEF Solo
  <2>. QED  BY <1>1, <1>2, <2>1 DEF Plain
<1>. QED  BY <1>2, <1>7, <1>9, <1>10, <1>11 DEF Channel, CommandsTypeOK, Plain, Owned

LEMMA LinkDropsChannel ==
    ASSUME Channel, LinkDrop
    PROVE  Channel'
<1>1. Plain /\ Asked /\ Solo
  BY ChannelParts
<1>2. /\ linkUp' = FALSE /\ att' = <<>>
      /\ UNCHANGED <<meter, resp, pc, command, outcome, answer, ran, alone, author>>
  BY DEF LinkDrop, round, history
<1>3. Plain'
  BY <1>1, <1>2, Zenon DEF Plain
<1>4. att' \in Seq(Requests) /\ DOMAIN att' = {} /\ Len(att') = 0
  BY <1>2
<1>5. Owned' /\ Asked' /\ Solo'
  <2>1. Owned' /\ Asked'
    BY <1>1, <1>2, <1>4 DEF Owned, Asked
  <2>2. Solo'
    BY <1>1, <1>2, <1>4 DEF Solo
  <2>. QED  BY <2>1, <2>2
<1>. QED  BY <1>3, <1>4, <1>5 DEF Channel, CommandsTypeOK, Plain, Owned

\* A task gives up, in any of the ways there are.
GivesUp == \E t \in Callers, o \in Raised : Abandon(t, o)

LEMMA GivingUp ==
    /\ \A t \in Callers : Timeout(t) \/ GattError(t) \/ Cancel(t) => GivesUp
    /\ CommandsStep => ServeWrite \/ ServeRead \/ LinkDrop \/ GivesUp
<1>1. {"ConnectionError", "BleakError", "Cancelled"} = Raised
  BY DEF Raised
<1>. HIDE DEF Raised
<1>2. \A t \in Callers : Timeout(t) \/ GattError(t) \/ Cancel(t) => GivesUp
  BY <1>1 DEF GivesUp, Timeout, GattError, Cancel
<1>. QED  BY <1>2 DEF CommandsStep

\* A call begins, the channel makes a step of another kind, or none.
Begins == \E t \in Callers, c \in AllCommands : Begin(t, c)
ChannelStep == Begins \/ ServeWrite \/ ServeRead \/ LinkDrop \/ GivesUp

LEMMA ChannelKept ==
    ASSUME Channel, ChannelStep
    PROVE  Channel'
<1>1. ASSUME Begins  PROVE Channel'
  BY <1>1, BeginsChannel DEF Begins
<1>2. ASSUME GivesUp  PROVE Channel'
  BY <1>2, AbandonsChannel DEF GivesUp
<1>. QED  BY <1>1, <1>2, ServesWrite, ServesRead, LinkDropsChannel DEF ChannelStep

\* The two promises of the channel.
LEMMA CallsEnd ==
    ASSUME Channel, ChannelStep, NEW t \in Callers,
           Ends(t, "ok") \/ Ends(t, "CommandError"), answer'[t].crc_ok
    PROVE  /\ ServeRead /\ pc[t] = "read" /\ att[1].by = t
           /\ ran[t] = 1
           /\ outcome'[t] = "ok" => resp.ok /\ answer'[t].value = resp.value
           /\ outcome'[t] = "CommandError" => ~resp.ok
<1>1. Plain /\ Asked
  BY ChannelParts
<1>2. pc[t] # "idle" /\ pc'[t] = "idle" /\ outcome'[t] \in {"ok", "CommandError"}
  BY DEF Ends
<1>3. ~Begins
  BY <1>1, <1>2 DEF Begins, Begin, Plain
<1>4. ~ServeWrite
  BY <1>1, <1>2 DEF ServeWrite, Plain
<1>5. ~LinkDrop
  BY <1>2 DEF LinkDrop, round
<1>6. ~GivesUp
  BY <1>1, <1>2 DEF GivesUp, Abandon, End, Plain, Raised
<1>7. ServeRead
  BY <1>3, <1>4, <1>5, <1>6 DEF ChannelStep
<1>8. att[1].by = t
  BY <1>1, <1>2, <1>7, ReadGivesTo DEF Plain
<1>9. t # Nobody
  BY PartsOfCommand
<1>10. /\ pc[t] = "read"
       /\ outcome'[t] = "ok" => resp.ok /\ answer'[t].value = resp.value
       /\ outcome'[t] = "CommandError" => ~resp.ok
  BY <1>7, <1>8, <1>9, ReadGivesTo
<1>. QED  BY <1>1, <1>7, <1>8, <1>10 DEF Asked

LEMMA ServedOnce ==
    ASSUME Channel, ChannelStep \/ (UNCHANGED pc)
    PROVE  \A t \in Callers :
              (Ends(t, "ok") \/ Ends(t, "CommandError")) /\ answer'[t].crc_ok => ran[t] = 1
<1>. SUFFICES ASSUME NEW t \in Callers,
                     Ends(t, "ok") \/ Ends(t, "CommandError"), answer'[t].crc_ok
              PROVE  ran[t] = 1
  OBVIOUS
<1>1. ChannelStep
  BY DEF Ends
<1>. QED  BY <1>1, CallsEnd

LEMMA OwnAnswer ==
    ASSUME Channel, ChannelStep \/ (UNCHANGED pc)
    PROVE  \A t \in Callers :
              alone[t] /\ answer'[t].crc_ok =>
                 /\ Ends(t, "ok") => /\ author = t /\ resp.ok
                                     /\ answer'[t].value = meter[command[t].field]
                 /\ Ends(t, "CommandError") => author = t /\ ~resp.ok
<1>. SUFFICES ASSUME NEW t \in Callers, alone[t], answer'[t].crc_ok,
                     Ends(t, "ok") \/ Ends(t, "CommandError")
              PROVE  /\ author = t
                     /\ Ends(t, "ok") => /\ resp.ok
                                         /\ answer'[t].value = meter[command[t].field]
                     /\ Ends(t, "CommandError") => ~resp.ok
  OBVIOUS
<1>1. ChannelStep
  BY DEF Ends
<1>2. /\ pc[t] = "read"
      /\ outcome'[t] = "ok" => resp.ok /\ answer'[t].value = resp.value
      /\ outcome'[t] = "CommandError" => ~resp.ok
  BY <1>1, CallsEnd
<1>3. author = t /\ (resp.ok => resp.value = meter[command[t].field])
  BY <1>2, ChannelParts DEF Solo
<1>. QED  BY <1>2, <1>3 DEF Ends

\* Nothing is new in the queue but what c is, and the settings change only to
\* what was under way.
Drift ==
    /\ \A c \in AllCommands : InQueue(c)' => InQueue(c)
    /\ \A f \in Fields : meter'[f] = meter[f] \/ InQueue(Set(f, meter'[f]))

LEMMA Drifts ==
    ASSUME Channel, ServeWrite \/ ServeRead \/ LinkDrop \/ GivesUp
    PROVE  Drift
<1>1. Plain /\ att \in Seq(Requests) /\ Owned
  BY ChannelParts
<1>2. CASE ServeWrite
  <2>. DEFINE c == Head(att).cmd
             t == Head(att).by
             rest == Tail(att)
             r == [by |-> t, kind |-> "read", cmd |-> c]
  <2>1. /\ att # <<>> /\ Head(att).kind = "write"
        /\ meter' = meter \/ (c.set /\ meter' = [meter EXCEPT ![c.field] = c.value])
        /\ att' = rest \/ att' = Append(rest, r)
    BY <1>2 DEF ServeWrite
  <2>2. /\ 1 \in DOMAIN att /\ Head(att) = att[1] /\ Head(att) \in Requests
        /\ rest \in Seq(Requests)
        /\ \A i \in DOMAIN rest : i + 1 \in DOMAIN att /\ rest[i] = att[i + 1]
    BY <1>1, <2>1, TailOff
  <2>3. c \in AllCommands /\ r.kind = "read" /\ r \in Requests
    BY <2>2, PartsOfRequest
  <2>4. InQueue(c)
    BY <2>1, <2>2 DEF InQueue
  <2>. HIDE DEF c, t, rest, r
  <2>5. ASSUME NEW i \in DOMAIN att', att'[i].kind = "write"
        PROVE  \E k \in DOMAIN att : att[k] = att'[i]
    <3>1. CASE att' = rest
      BY <2>2, <3>1
    <3>2. CASE att' = Append(rest, r)
      <4>1. i \in DOMAIN rest /\ att'[i] = rest[i]
        BY <2>2, <2>3, <2>5, <3>2
      <4>. QED  BY <2>2, <4>1
    <3>. QED  BY <2>1, <3>1, <3>2
  <2>6. ASSUME NEW f \in Fields, meter'[f] # meter[f]
        PROVE  InQueue(Set(f, meter'[f]))
    <3>1. c.set /\ c.field \in Fields /\ meter' = [meter EXCEPT ![c.field] = c.value]
      BY <2>1, <2>3, <2>6, PartsOfCommand
    <3>2. f = c.field /\ meter'[f] = c.value
      BY <1>1, <2>6, <3>1 DEF Plain
    <3>3. c = Set(c.field, c.value)
      BY <2>3, <3>1, PartsOfCommand
    <3>. QED  BY <2>4, <3>2, <3>3
  <2>. QED  BY <2>5, <2>6 DEF Drift, InQueue
<1>3. CASE ServeRead
  <2>1. /\ 1 \in DOMAIN att /\ att' = Tail(att) /\ meter' = meter
    BY <1>3, ReadGivesTo
  <2>2. \A i \in DOMAIN att' : i + 1 \in DOMAIN att /\ att'[i] = att[i + 1]
    BY <1>1, <2>1, TailOff
  <2>. QED  BY <2>1, <2>2 DEF Drift, InQueue
<1>4. CASE LinkDrop
  BY <1>4 DEF LinkDrop, Drift, InQueue
<1>5. CASE GivesUp
  <2>1. /\ meter' = meter
        /\ \A i \in DOMAIN att' : \E k \in DOMAIN att :
              att[k].kind = att'[i].kind /\ att[k].cmd = att'[i].cmd
    BY <1>5, AbandonLeaves DEF GivesUp
  <2>. QED  BY <2>1 DEF Drift, InQueue
<1>. QED  BY <1>2, <1>3, <1>4, <1>5

\* What a call that begins adds to the queue.
LEMMA BeginAdds ==
    ASSUME Channel, NEW t \in Callers, NEW c \in AllCommands, Begin(t, c)
    PROVE  /\ meter' = meter
           /\ \A d \in AllCommands : InQueue(d)' => InQueue(d) \/ d = c
<1>1. Plain /\ att \in Seq(Requests)
  BY ChannelParts
<1>. DEFINE r == [by |-> t, kind |-> "write", cmd |-> c]
<1>2. /\ meter' = meter /\ command' = [command EXCEPT ![t] = c]
      /\ att' = IF linkUp THEN Append(att, Ask(t, "write")) ELSE att
  BY DEF Begin, device
<1>3. att' = att \/ att' = Append(att, r)
  BY <1>1, <1>2 DEF Ask, Plain
<1>4. r \in Requests /\ r.cmd = c
  BY PartsOfRequest
<1>. HIDE DEF r
<1>5. \A i \in DOMAIN att' : (i \in DOMAIN att /\ att'[i] = att[i]) \/ att'[i] = r
  BY <1>1, <1>3, <1>4, AppendProperties
<1>. QED  BY <1>2, <1>4, <1>5 DEF InQueue

\* A call that nobody overlaps and that returns what came undamaged has had its
\* command carried out, and leaves the queue empty.
LEMMA ToldTrue ==
    ASSUME Channel, ChannelStep, NEW t \in Callers, alone[t],
           Ends(t, "ok"), answer'[t].crc_ok
    PROVE  /\ answer'[t].value = meter[command[t].field]
           /\ command[t].set => meter[command[t].field] = command[t].value
           /\ meter' = meter
           /\ \A c \in AllCommands : ~InQueue(c)'
<1>1. Plain /\ att \in Seq(Requests) /\ Solo
  BY ChannelParts
<1>2. ServeRead /\ pc[t] = "read" /\ resp.ok /\ answer'[t].value = resp.value
  BY CallsEnd DEF Ends
<1>3. /\ Len(att) <= 1
      /\ resp.value = meter[command[t].field]
      /\ command[t].set => resp.value = command[t].value
  BY <1>1, <1>2 DEF Solo
<1>4. 1 \in DOMAIN att /\ att' = Tail(att) /\ meter' = meter
  BY <1>2, ReadGivesTo
<1>5. DOMAIN att' = {}
  <2>. DEFINE n == Len(att)
             rest == Tail(att)
  <2>1. n \in Nat /\ DOMAIN att = 1 .. n /\ n <= 1
    BY <1>1, <1>3, QueueShape
  <2>2. DOMAIN rest = 1 .. n - 1
    BY <1>1, <1>4, TailOff
  <2>. HIDE DEF n, rest
  <2>3. DOMAIN rest = {}
    BY <2>1, <2>2
  <2>. QED  BY <1>4, <2>3 DEF rest
<1>. QED  BY <1>2, <1>3, <1>4, <1>5 DEF InQueue

-----------------------------------------------------------------------------
(* The script.                                                             *)

LEMMA OrderOfSteps ==
    /\ After("rtc") = "confirmRtc" /\ After("confirmRtc") = "firmware"
    /\ After("firmware") = "model" /\ After("model") = "getPassword"
    /\ After("getPassword") = "getName" /\ After("getName") = "setPassword"
    /\ After("setPassword") = "setName" /\ After("setName") = "checkPassword"
    /\ After("checkPassword") = "checkName" /\ After("checkName") = "revertPassword"
    /\ After("revertPassword") = "revertName" /\ After("revertName") = "summary"
BY DEF After, Script

LEMMA StepNames ==
    Steps = {"rtc", "confirmRtc", "firmware", "model", "getPassword", "getName",
             "setPassword", "setName", "checkPassword", "checkName",
             "revertPassword", "revertName", "summary"}
BY DEF Steps, Script

LEMMA CommandOfStep ==
    /\ CommandOf("rtc") = Set("clock", Test)
    /\ CommandOf("firmware") = Get("info") /\ CommandOf("model") = Get("info")
    /\ CommandOf("getPassword") = Get("password")
    /\ CommandOf("checkPassword") = Get("password")
    /\ CommandOf("getName") = Get("name") /\ CommandOf("checkName") = Get("name")
    /\ CommandOf("setPassword") = Set("password", Test)
    /\ CommandOf("setName") = Set("name", Test)
    /\ CommandOf("revertPassword") = Set("password", Original)
    /\ CommandOf("revertName") = Set("name", original)
BY DEF CommandOf

\* Which settings a step's command sets, and to what.
LEMMA CommandOfStepSets ==
    ASSUME step \in Steps \ {"confirmRtc", "summary"},
           original \in Values \cup {Unknown},
           step = "revertName" => original # Unknown
    PROVE  /\ CommandOf(step) \in AllCommands
           /\ \A f \in Fields, v \in Values : CommandOf(step) = Set(f, v) =>
                 /\ v \in {Original, Test} \/ (step = "revertName" /\ v = original)
                 /\ f = "name" => step \in {"setName", "revertName"}
                 /\ f = "password" => step \in {"setPassword", "revertPassword"}
<1>1. {"password", "name", "clock", "info"} \subseteq Fields
  BY DEF Fields
<1>. DEFINE c == CommandOf(step)
<1>2. PICK g \in Fields, w \in Values :
         /\ c = Get(g) \/ c = Set(g, w)
         /\ c = Set(g, w) => /\ w \in {Original, Test} \/ (step = "revertName" /\ w = original)
                             /\ g = "name" => step \in {"setName", "revertName"}
                             /\ g = "password" => step \in {"setPassword", "revertPassword"}
  <2>1. CASE step \in {"firmware", "model", "getPassword", "checkPassword", "getName", "checkName"}
    <3>1. \E g \in Fields : c = Get(g)
      BY <1>1, <2>1, CommandOfStep
    <3>. QED  BY <3>1, PartsOfCommand
  <2>2. CASE step = "rtc"
    BY <1>1, <2>2, CommandOfStep, PartsOfCommand
  <2>3. CASE step = "setPassword" \/ step = "setName"
    BY <1>1, <2>3, CommandOfStep, PartsOfCommand
  <2>4. CASE step = "revertPassword"
    BY <1>1, <2>4, CommandOfStep, PartsOfCommand
  <2>5. CASE step = "revertName"
    BY <1>1, <2>5, CommandOfStep, PartsOfCommand
  <2>. QED  BY <2>1, <2>2, <2>3, <2>4, <2>5, StepNames
<1>. HIDE DEF c
<1>3. c \in AllCommands
  BY <1>2, PartsOfCommand
<1>4. ASSUME NEW f \in Fields, NEW v \in Values, c = Set(f, v)
      PROVE  f = g /\ v = w /\ c = Set(g, w)
  <2>1. c # Get(g)
    BY <1>4, PartsOfCommand
  <2>. QED  BY <1>2, <1>4, <2>1, PartsOfCommand
<1>. QED  BY <1>2, <1>3, <1>4 DEF c

ScriptTyped ==
    /\ tool \in BOOLEAN
    /\ step \in Steps
    /\ original \in Values \cup {Unknown}
    /\ failed \in BOOLEAN
    /\ exit \in {"running", "0", "1"} \cup Exceptions
    /\ raising \in {"none"} \cup Exceptions
    /\ stopped \in BOOLEAN
    /\ begun \subseteq Steps /\ broken \subseteq Steps
    /\ reverted \subseteq {"password", "name"}
    /\ damaged \in BOOLEAN

LEMMA ProbeParts ==
    ProbeInv <=> /\ ScriptTyped /\ Channel /\ Scripted
                 /\ Recoverable /\ Progress /\ Restoring
BY DEF ProbeInv, TypeOK, ScriptTyped, Channel

\* The outcome of a step has been looked at.
LooksAt ==
    /\ outcome' = [outcome EXCEPT ![Prober] = "none"]
    /\ UNCHANGED <<linkUp, meter, resp, att, pc, command, answer, ran, alone, author>>

LEMMA NextChannel ==
    ASSUME ProbeInv, [Next]_vars
    PROVE  /\ ChannelStep \/ UNCHANGED commandVars \/ LooksAt
           /\ tool => \/ StepBegins /\ Begin(Prober, CommandOf(step))
                      \/ ServeWrite \/ ServeRead \/ LinkDrop \/ GivesUp
                      \/ UNCHANGED commandVars \/ LooksAt
           /\ tool' = tool
<1>1. ScriptTyped /\ Channel /\ Scripted
  BY ProbeParts
<1>2. CASE StepBegins
  <2>1. CASE Begin(Prober, CommandOf(step))
    <3>1. CommandOf(step) \in AllCommands
      BY <1>1, <1>2, CommandOfStepSets DEF StepBegins, ScriptTyped
    <3>. QED  BY <1>2, <2>1, <3>1, ProberAssumption DEF StepBegins, ChannelStep, Begins
  <2>2. CASE UNCHANGED commandVars
    BY <1>2, <2>2 DEF StepBegins
  <2>. QED  BY <1>2, <2>1, <2>2 DEF StepBegins
<1>3. CASE SkipNameRevert \/ ConfirmRtc \/ Summary
  BY <1>3 DEF SkipNameRevert, ConfirmRtc, Summary
<1>4. CASE StepEnds \/ StepRaises
  BY <1>4 DEF StepEnds, StepRaises, LooksAt, device, history
<1>5. CASE Interrupt
  BY <1>5, GivingUp, ProberAssumption DEF Interrupt, ChannelStep
<1>6. CASE ApplicationStep
  <2>1. /\ ~tool /\ tool' = tool
        /\ \E t \in Callers : Cancel(t) \/ \E c \in AllCommands : Begin(t, c)
    BY <1>6, WantedAssumption DEF ApplicationStep
  <2>. QED  BY <2>1, GivingUp DEF ChannelStep, Begins
<1>7. CASE Environment
  BY <1>7, GivingUp DEF Environment, ChannelStep
<1>8. CASE UNCHANGED vars
  BY <1>8 DEF vars
<1>. QED  BY <1>2, <1>3, <1>4, <1>5, <1>6, <1>7, <1>8 DEF Next, ScriptStep

LEMMA ChannelStays ==
    ASSUME ProbeInv, [Next]_vars
    PROVE  Channel'
<1>1. Channel
  BY ProbeParts
<1>2. CASE ChannelStep
  BY <1>1, <1>2, ChannelKept
<1>3. CASE UNCHANGED commandVars
  <2>1. UNCHANGED <<linkUp, meter, resp, att, pc, command, outcome, answer, ran, alone, author>>
    BY <1>3 DEF commandVars, device, round, history
  <2>. QED  BY <1>1, <2>1 DEF Channel, CommandsTypeOK, Asked, Solo
<1>4. CASE LooksAt
  <2>1. outcome' \in [Callers -> Outcomes]
    BY <1>1, <1>4 DEF Channel, CommandsTypeOK, LooksAt, Outcomes
  <2>2. UNCHANGED <<linkUp, meter, resp, att, pc, command, answer, ran, alone, author>>
    BY <1>4 DEF LooksAt
  <2>. QED  BY <1>1, <2>1, <2>2 DEF Channel, CommandsTypeOK, Asked, Solo
<1>. QED  BY <1>2, <1>3, <1>4, NextChannel

\* What the two ways out of a step do.
LEMMA GoesOn ==
    ASSUME ScriptTyped, step # "summary", GoOn
    PROVE  /\ step' \in Steps /\ exit' \in {"running", "0", "1"} \cup Exceptions
           /\ raising' = raising /\ broken' = broken
           /\ \/ step = "revertName" /\ raising # "none" /\ exit' = raising /\ step' = step
              \/ step # "revertName" /\ step' = After(step) /\ exit' = exit
              \/ step = "revertName" /\ step' = "summary" /\ exit' = exit
<1>1. After(step) \in Steps
  BY OrderOfSteps, StepNames DEF ScriptTyped
<1>. QED  BY <1>1, OrderOfSteps DEF GoOn, ScriptTyped, Exceptions

LEMMA Propagates ==
    ASSUME ScriptTyped, NEW e \in Exceptions, Propagate(e)
    PROVE  /\ step' \in Steps /\ exit' \in {"running", "0", "1"} \cup Exceptions
           /\ raising' \in {"none"} \cup Exceptions
           /\ broken' = broken \cup {step}
           /\ \/ step \in TryBlock /\ step' = "revertPassword" /\ exit' = exit
              \/ step \notin TryBlock /\ step' = step /\ exit' = e
<1>1. "revertPassword" \in Steps
  BY StepNames
<1>. QED  BY <1>1 DEF Propagate, ScriptTyped

LEMMA TypesStay ==
    ASSUME ProbeInv, [Next]_vars
    PROVE  ScriptTyped'
<1>1. ScriptTyped /\ Scripted /\ Channel
  BY ProbeParts
<1>. DEFINE Rest == /\ tool' = tool /\ stopped' \in BOOLEAN /\ failed' \in BOOLEAN
                    /\ original' \in Values \cup {Unknown}
                    /\ begun' \subseteq Steps
                    /\ reverted' \subseteq {"password", "name"} /\ damaged' \in BOOLEAN
           Way  == /\ step' \in Steps /\ exit' \in {"running", "0", "1"} \cup Exceptions
                   /\ raising' \in {"none"} \cup Exceptions /\ broken' \subseteq Steps
<1>2. Rest
  <2>1. CASE StepBegins
    <3>1. original' = original /\ failed' = failed
      BY <2>1 DEF StepBegins, script
    <3>. QED  BY <1>1, <2>1, <3>1 DEF StepBegins, ScriptTyped
  <2>2. CASE StepEnds
    <3>1. original' \in Values \cup {Unknown}
      <4>1. answer[Prober].value \in Values
        BY <1>1, ProberAssumption, ChannelParts DEF Plain
      <4>. QED  BY <1>1, <2>2, <4>1 DEF StepEnds, Capture, ScriptTyped
    <3>2. reverted' \subseteq {"password", "name"}
      <4>1. step \in DOMAIN Reverts => Reverts[step] \in {"password", "name"}
        BY DEF Reverts
      <4>. QED  BY <1>1, <2>2, <4>1 DEF StepEnds, ScriptTyped
    <3>3. failed' \in BOOLEAN /\ damaged' \in BOOLEAN
      BY <2>2 DEF StepEnds
    <3>. QED  BY <1>1, <2>2, <3>1, <3>2, <3>3 DEF StepEnds, ScriptTyped
  <2>3. CASE SkipNameRevert \/ StepRaises
    BY <1>1, <2>3 DEF SkipNameRevert, StepRaises, ScriptTyped
  <2>4. CASE ConfirmRtc
    BY <1>1, <2>4 DEF ConfirmRtc, ScriptTyped
  <2>5. CASE Summary
    BY <1>1, <2>5 DEF Summary, scriptPast, ScriptTyped
  <2>6. CASE Interrupt
    <3>1. original' = original /\ failed' = failed
      BY <2>6 DEF Interrupt, script
    <3>. QED  BY <1>1, <2>6, <3>1 DEF Interrupt, ScriptTyped
  <2>7. CASE ApplicationStep \/ Environment \/ UNCHANGED vars
    BY <1>1, <2>7 DEF ApplicationStep, Environment, vars, script, scriptPast, ScriptTyped
  <2>. QED  BY <2>1, <2>2, <2>3, <2>4, <2>5, <2>6, <2>7 DEF Next, ScriptStep
<1>3. Way
  <2>1. ASSUME GoOn, step # "summary"  PROVE Way
    BY <1>1, <2>1, GoesOn DEF ScriptTyped
  <2>2. ASSUME NEW e \in Exceptions, Propagate(e)  PROVE Way
    BY <1>1, <2>2, Propagates DEF ScriptTyped
  <2>3. ASSUME UNCHANGED <<step, exit, raising, broken>>  PROVE Way
    BY <1>1, <2>3 DEF ScriptTyped
  <2>. HIDE DEF Way
  <2>4. "ValueError" \in Exceptions /\ "Cancelled" \in Exceptions /\ "BleakError" \in Exceptions
    BY DEF Exceptions
  <2>5. CASE StepBegins
    BY <2>2, <2>3, <2>4, <2>5 DEF StepBegins, script
  <2>6. CASE SkipNameRevert \/ StepEnds
    BY <1>1, <2>1, <2>6 DEF SkipNameRevert, StepEnds, Running, Accepted, Refused, Scripted, Pending
  <2>7. CASE StepRaises
    BY <2>2, <2>4, <2>7 DEF StepRaises
  <2>8. CASE ConfirmRtc
    BY <2>1, <2>2, <2>4, <2>8 DEF ConfirmRtc
  <2>9. CASE Summary
    BY <1>1, <2>9 DEF Summary, scriptPast, ScriptTyped, Way
  <2>10. CASE Interrupt
    BY <2>2, <2>3, <2>4, <2>10 DEF Interrupt, script
  <2>11. CASE ApplicationStep \/ Environment \/ UNCHANGED vars
    BY <2>3, <2>11 DEF ApplicationStep, Environment, vars, script, scriptPast
  <2>. QED  BY <2>5, <2>6, <2>7, <2>8, <2>9, <2>10, <2>11 DEF Next, ScriptStep
<1>. QED  BY <1>1, <1>2, <1>3 DEF ScriptTyped

\* Nothing but a call's beginning puts a task in a call.
LEMMA NoCallBegins ==
    ASSUME Channel, ServeWrite \/ ServeRead \/ LinkDrop \/ GivesUp
    PROVE  /\ command' = command /\ alone' = alone
           /\ \A t \in Callers : /\ pc'[t] # "idle" => pc[t] # "idle"
                                 /\ outcome'[t] # outcome[t] => pc[t] # "idle"
<1>1. Plain /\ Owned /\ att \in Seq(Requests)
  BY ChannelParts
<1>2. CASE ServeWrite
  <2>1. /\ att # <<>> /\ Head(att).kind = "write"
        /\ command' = command /\ alone' = alone /\ outcome' = outcome
        /\ \/ pc' = pc
           \/ Head(att).by # Nobody /\ pc' = [pc EXCEPT ![Head(att).by] = "read"]
    BY <1>2 DEF ServeWrite
  <2>2. Head(att).by # Nobody => pc[Head(att).by] = "write"
    BY <1>1, <2>1, TailOff DEF Owned
  <2>. QED  BY <1>1, <2>1, <2>2 DEF Plain
<1>3. CASE ServeRead
  <2>. DEFINE t == att[1].by
  <2>1. /\ command' = command /\ alone' = alone
        /\ \/ pc' = pc /\ outcome' = outcome
           \/ /\ pc[t] = "read" /\ pc' = [pc EXCEPT ![t] = "idle"]
              /\ \E o \in {"ok", "CommandError", "ConnectionError"} :
                    outcome' = [outcome EXCEPT ![t] = o]
    BY <1>3, ReadGivesTo
  <2>. HIDE DEF t
  <2>. QED  BY <1>1, <2>1 DEF Plain
<1>4. CASE LinkDrop
  BY <1>4 DEF LinkDrop, round, history
<1>5. CASE GivesUp
  BY <1>1, <1>5, AbandonLeaves DEF GivesUp, Plain
<1>. QED  BY <1>2, <1>3, <1>4, <1>5

LEMMA ScriptedStays ==
    ASSUME ProbeInv, [Next]_vars
    PROVE  Scripted'
<1>. SUFFICES ASSUME tool'  PROVE Scripted'
  BY DEF Scripted
<1>1. ScriptTyped /\ Scripted /\ Channel /\ tool /\ Prober \in Callers
  BY ProbeParts, NextChannel, ProberAssumption
<1>2. Plain /\ Plain'
  BY <1>1, ChannelStays, ChannelParts DEF Channel, CommandsTypeOK, Plain
<1>. DEFINE Solitary == /\ \A t \in Callers \ {Prober} : pc'[t] = "idle"
                        /\ pc'[Prober] # "idle" => alone'[Prober]
<1>3. Solitary
  <2>1. CASE StepBegins /\ Begin(Prober, CommandOf(step))
    BY <1>1, <1>2, <2>1 DEF Begin, Scripted, Plain
  <2>2. CASE ServeWrite \/ ServeRead \/ LinkDrop \/ GivesUp
    BY <1>1, <2>2, NoCallBegins DEF Scripted
  <2>3. CASE UNCHANGED commandVars \/ LooksAt
    BY <1>1, <2>3 DEF Scripted, commandVars, round, history, LooksAt
  <2>. QED  BY <1>1, <2>1, <2>2, <2>3, NextChannel
<1>4. ASSUME Pending'
      PROVE  /\ step' \in begun' /\ command'[Prober] = CommandOf(step)'
             /\ step' \notin {"confirmRtc", "summary"}
             /\ step' = "revertName" => original' # Unknown
  <2>1. UNCHANGED <<step, original>> => CommandOf(step)' = CommandOf(step)
    BY DEF CommandOf
  <2>2. \/ ~Pending' \/ Pending \/ StepBegins
    <3>1. CASE ServeWrite \/ ServeRead \/ LinkDrop \/ GivesUp
      BY <1>1, <3>1, NoCallBegins DEF Pending
    <3>2. CASE UNCHANGED commandVars
      BY <3>2 DEF Pending, commandVars, round
    <3>3. CASE LooksAt
      BY <1>2, <1>1, <3>3 DEF Pending, LooksAt, Plain
    <3>. QED  BY <1>1, <3>1, <3>2, <3>3, NextChannel
  <2>3. CASE StepBegins
    <3>1. ~ (UNCHANGED commandVars)
      BY <1>4, <2>3 DEF StepBegins, Running, Pending, commandVars, round
    <3>2. /\ Begin(Prober, CommandOf(step)) /\ UNCHANGED <<step, original>>
          /\ begun' = begun \cup {step} /\ step \notin {"confirmRtc", "summary"}
          /\ step = "revertName" => original # Unknown
      BY <2>3, <3>1 DEF StepBegins, script
    <3>3. command'[Prober] = CommandOf(step)
      BY <1>1, <1>2, <3>2 DEF Begin, Plain
    <3>. QED  BY <2>1, <3>2, <3>3
  <2>4. CASE Pending /\ ~StepBegins
    <3>1. /\ step \in begun /\ command[Prober] = CommandOf(step)
          /\ step \notin {"confirmRtc", "summary"}
          /\ step = "revertName" => original # Unknown
      BY <1>1, <2>4 DEF Scripted
    <3>2. ~StepEnds /\ ~StepRaises
      BY <1>1, <1>2, <1>4 DEF StepEnds, StepRaises, Running, Pending, Plain
    <3>3. ~SkipNameRevert /\ ~ConfirmRtc /\ ~Summary
      BY <2>4, <3>1 DEF SkipNameRevert, ConfirmRtc, Summary, Running, Pending
    <3>4. Interrupt \/ Environment \/ UNCHANGED vars
      BY <1>1, <2>4, <3>2, <3>3 DEF Next, ScriptStep, ApplicationStep
    <3>5. command' = command
      <4>1. CASE ServeWrite \/ ServeRead \/ LinkDrop \/ GivesUp
        BY <1>1, <4>1, NoCallBegins
      <4>2. CASE UNCHANGED commandVars \/ LooksAt
        BY <4>2 DEF commandVars, round, LooksAt
      <4>. QED  BY <1>1, <2>4, <4>1, <4>2, NextChannel
    <3>6. UNCHANGED <<step, original, begun>>
      <4>1. CASE Interrupt
        <5>1. Pending /\ step # "confirmRtc"
          BY <2>4, <3>1
        <5>. QED  BY <4>1, <5>1 DEF Interrupt, script
      <4>. QED  BY <3>4, <4>1 DEF Environment, vars, script, scriptPast
    <3>. QED  BY <2>1, <3>1, <3>5, <3>6
  <2>. QED  BY <1>4, <2>2, <2>3, <2>4
<1>. QED  BY <1>3, <1>4 DEF Scripted

\* Steps that leave the script where it is.
Elsewhere == ApplicationStep \/ Environment \/ UNCHANGED vars

LEMMA ElsewhereKeeps ==
    Elsewhere => UNCHANGED <<tool, script, scriptPast>>
BY DEF Elsewhere, ApplicationStep, Environment, vars

\* Where the script goes, apart from the beginning of a call.
LEMMA ScriptMoves ==
    ASSUME ProbeInv, [Next]_vars
    PROVE  \/ UNCHANGED <<step, exit, original, failed, reverted, broken>> /\ begun \subseteq begun'
           \/ SkipNameRevert \/ StepEnds \/ ConfirmRtc \/ Summary
           \/ /\ exit = "running"
              /\ \E e \in Exceptions : Propagate(e)
              /\ UNCHANGED <<original, failed, reverted>>
              /\ begun' = begun \cup {step} \/ (begun' = begun /\ step \in begun \cup {"confirmRtc"})
<1>1. Scripted
  BY ProbeParts
<1>2. "ValueError" \in Exceptions /\ "Cancelled" \in Exceptions /\ "BleakError" \in Exceptions
  BY DEF Exceptions
<1>3. CASE StepBegins
  BY <1>2, <1>3 DEF StepBegins, Running, script
<1>4. CASE StepRaises
  <2>1. step \in begun
    BY <1>1, <1>4 DEF StepRaises, Running, Scripted, Pending
  <2>. QED  BY <1>2, <1>4, <2>1 DEF StepRaises, Running
<1>5. CASE Interrupt
  BY <1>2, <1>5 DEF Interrupt, script
<1>6. CASE Elsewhere
  BY <1>6, ElsewhereKeeps DEF script, scriptPast
<1>. QED  BY <1>3, <1>4, <1>5, <1>6 DEF Elsewhere, Next, ScriptStep

LEMMA ProgressStays ==
    ASSUME ProbeInv, [Next]_vars
    PROVE  Progress'
<1>1. ScriptTyped /\ Scripted /\ Progress /\ Channel
  BY ProbeParts
<1>2. CASE UNCHANGED <<step, exit, original, failed, reverted>>
  BY <1>1, <1>2 DEF Progress
<1>3. CASE SkipNameRevert
  <2>1. /\ step = "revertName" /\ exit = "running" /\ original = Unknown
        /\ UNCHANGED <<original, failed, reverted>>
    BY <1>3 DEF SkipNameRevert, Running
  <2>2. \/ step' = step /\ exit' \in Exceptions
        \/ step' = "summary" /\ exit' = exit
    BY <1>1, <1>3, <2>1, GoesOn DEF SkipNameRevert, ScriptTyped
  <2>. QED  BY <1>1, <2>1, <2>2 DEF Progress, Early, Exceptions
<1>4. CASE StepEnds
  <2>1. /\ exit = "running" /\ step \notin {"summary", "confirmRtc"}
        /\ Accepted \/ Refused
        /\ failed' = (failed \/ Refused \/ Mismatch) /\ Capture
        /\ reverted' = IF Accepted /\ step \in DOMAIN Reverts
                       THEN reverted \cup {Reverts[step]} ELSE reverted
    BY <1>1, <1>4 DEF StepEnds, Running, Accepted, Refused, Scripted, Pending
  <2>2. \/ step = "revertName" /\ exit' \in Exceptions /\ step' = step
        \/ step # "revertName" /\ step' = After(step) /\ exit' = exit
        \/ step = "revertName" /\ step' = "summary" /\ exit' = exit
    BY <1>1, <1>4, <2>1, GoesOn DEF StepEnds, ScriptTyped
  <2>3. Accepted \/ failed'
    BY <2>1
  <2>4. CASE step \in {"rtc", "firmware", "model", "getPassword"}
    <3>1. step' \in Early /\ exit' = exit /\ reverted' = reverted
      BY <2>1, <2>2, <2>4, OrderOfSteps DEF Early, Reverts
    <3>. QED  BY <1>1, <2>1, <2>4, <3>1 DEF Progress, Early
  <2>5. CASE step = "getName"
    <3>1. step' = "setPassword" /\ exit' = exit /\ reverted' = reverted
      BY <2>1, <2>2, <2>5, OrderOfSteps DEF Reverts
    <3>2. Accepted => original' # Unknown
      <4>1. answer[Prober].value \in Values
        BY <1>1, ProberAssumption, ChannelParts DEF Plain
      <4>. QED  BY <2>1, <2>5, <4>1, UnknownAssumption DEF Capture
    <3>. QED  BY <1>1, <2>1, <2>3, <2>5, <3>1, <3>2 DEF Progress
  <2>6. CASE step \in TryBlock
    <3>1. /\ step' \in TryBlock \cup {"revertPassword"} /\ exit' = exit
          /\ reverted' = reverted /\ original' = original
      BY <2>1, <2>2, <2>6, OrderOfSteps DEF Reverts, TryBlock, Capture
    <3>. QED  BY <1>1, <2>1, <2>6, <3>1 DEF Progress, Early, TryBlock
  <2>7. CASE step = "revertPassword"
    <3>1. /\ step' = "revertName" /\ exit' = exit /\ original' = original
          /\ reverted' = IF Accepted THEN reverted \cup {"password"} ELSE reverted
      BY <2>1, <2>2, <2>7, OrderOfSteps DEF Reverts, Capture
    <3>. QED  BY <1>1, <2>1, <2>3, <2>7, <3>1 DEF Progress, Early
  <2>8. CASE step = "revertName"
    <3>1. /\ original' = original
          /\ reverted' = IF Accepted THEN reverted \cup {"name"} ELSE reverted
      BY <2>1, <2>8 DEF Reverts, Capture
    <3>. QED  BY <1>1, <2>1, <2>2, <2>3, <2>8, <3>1 DEF Progress, Early, Exceptions
  <2>. QED  BY <1>1, <2>1, <2>4, <2>5, <2>6, <2>7, <2>8, StepNames DEF ScriptTyped, TryBlock
<1>5. CASE ConfirmRtc
  <2>1. /\ step = "confirmRtc" /\ exit = "running"
        /\ GoOn \/ \E e \in Exceptions : Propagate(e)
        /\ failed => failed'
        /\ UNCHANGED <<original, reverted>>
    BY <1>5 DEF ConfirmRtc, Running, Exceptions
  <2>2. step' \in {"confirmRtc", "firmware"} /\ exit' # "0" /\ exit' \in {"running"} \cup Exceptions
    BY <1>1, <2>1, GoesOn, Propagates, OrderOfSteps DEF TryBlock, Exceptions
  <2>. QED  BY <1>1, <2>1, <2>2 DEF Progress, Early
<1>6. CASE Summary
  BY <1>1, <1>6 DEF Summary, Running, Progress, Early, scriptPast
<1>7. ASSUME exit = "running", NEW e \in Exceptions, Propagate(e),
             UNCHANGED <<original, failed, reverted>>
      PROVE  Progress'
  <2>1. \/ step \in TryBlock /\ step' = "revertPassword" /\ exit' = exit
        \/ step \notin TryBlock /\ step' = step /\ exit' = e
    BY <1>1, <1>7, Propagates
  <2>. QED  BY <1>1, <1>7, <2>1 DEF Progress, Early, TryBlock, Exceptions
<1>. QED  BY <1>2, <1>3, <1>4, <1>5, <1>6, <1>7, ScriptMoves

LEMMA RestoringStays ==
    ASSUME ProbeInv, [Next]_vars
    PROVE  Restoring'
<1>1. ScriptTyped /\ Scripted /\ Progress /\ Restoring
  BY ProbeParts
<1>2. CASE /\ UNCHANGED <<step, exit, original, broken>> /\ begun' = begun
  BY <1>1, <1>2 DEF Restoring, RevertsAttempted
<1>3. CASE StepBegins /\ UNCHANGED <<step, exit, original, broken>>
  <2>1. begun' = begun \cup {step} /\ exit = "running"
    BY <1>3 DEF StepBegins, Running
  <2>. QED  BY <1>1, <1>3, <2>1 DEF Restoring, RevertsAttempted, TryBlock, Final
<1>4. CASE SkipNameRevert
  <2>1. /\ step = "revertName" /\ exit = "running" /\ original = Unknown
        /\ UNCHANGED <<original, begun>>
    BY <1>4 DEF SkipNameRevert, Running
  <2>2. /\ broken' = broken
        /\ \/ step' = step /\ exit' \in Exceptions
           \/ step' = "summary" /\ exit' = exit
    BY <1>1, <1>4, <2>1, GoesOn DEF SkipNameRevert, ScriptTyped
  <2>. QED  BY <1>1, <2>1, <2>2 DEF Restoring, RevertsAttempted, TryBlock, Final, Exceptions
<1>5. CASE StepEnds
  <2>1. /\ exit = "running" /\ step \notin {"summary", "confirmRtc"}
        /\ step \in begun /\ Capture /\ begun' = begun
    BY <1>1, <1>5 DEF StepEnds, Running, Accepted, Refused, Scripted, Pending
  <2>2. /\ broken' = broken
        /\ \/ step = "revertName" /\ exit' \in Exceptions /\ step' = step
           \/ step # "revertName" /\ step' = After(step) /\ exit' = exit
           \/ step = "revertName" /\ step' = "summary" /\ exit' = exit
    BY <1>1, <1>5, <2>1, GoesOn DEF StepEnds, ScriptTyped
  <2>3. CASE step \in {"rtc", "firmware", "model", "getPassword", "getName"}
    <3>1. /\ step' \notin {"revertName", "summary"} /\ exit' = exit
          /\ "setPassword" \notin begun
      BY <1>1, <2>1, <2>2, <2>3, OrderOfSteps DEF Restoring, TryBlock, Final
    <3>. QED  BY <1>1, <2>1, <3>1 DEF Restoring, RevertsAttempted
  <2>4. CASE step \in TryBlock
    <3>1. step' \in TryBlock \cup {"revertPassword"} /\ exit' = exit
      BY <2>1, <2>2, <2>4, OrderOfSteps DEF TryBlock
    <3>. QED  BY <1>1, <2>1, <3>1 DEF Restoring, RevertsAttempted, TryBlock, Final
  <2>5. CASE step = "revertPassword"
    <3>1. step' = "revertName" /\ exit' = exit
      BY <2>1, <2>2, <2>5, OrderOfSteps
    <3>. QED  BY <1>1, <2>1, <2>5, <3>1 DEF Restoring, RevertsAttempted, Final
  <2>6. CASE step = "revertName"
    BY <1>1, <2>1, <2>2, <2>6 DEF Restoring, RevertsAttempted, Final, Exceptions
  <2>. QED  BY <1>1, <2>1, <2>3, <2>4, <2>5, <2>6, StepNames DEF ScriptTyped, TryBlock
<1>6. CASE ConfirmRtc
  <2>1. /\ step = "confirmRtc" /\ exit = "running" /\ "setPassword" \notin begun
        /\ GoOn \/ \E e \in Exceptions : Propagate(e)
        /\ UNCHANGED <<original, begun>>
    BY <1>1, <1>6 DEF ConfirmRtc, Running, Exceptions, Restoring, TryBlock, Final
  <2>2. step' \in {"confirmRtc", "firmware"}
    BY <1>1, <2>1, GoesOn, Propagates, OrderOfSteps DEF TryBlock
  <2>. QED  BY <1>1, <2>1, <2>2 DEF Restoring, RevertsAttempted
<1>7. CASE Summary
  <2>1. /\ step = "summary" /\ exit = "running" /\ exit' # "running"
        /\ UNCHANGED <<step, original, begun, broken>>
    BY <1>7 DEF Summary, Running, scriptPast
  <2>. QED  BY <1>1, <2>1 DEF Restoring, RevertsAttempted
<1>8. ASSUME exit = "running", NEW e \in Exceptions, Propagate(e), original' = original,
             begun' = begun \cup {step} \/ (begun' = begun /\ step \in begun \cup {"confirmRtc"})
      PROVE  Restoring'
  <2>1. /\ broken' = broken \cup {step}
        /\ \/ step \in TryBlock /\ step' = "revertPassword" /\ exit' = exit
           \/ step \notin TryBlock /\ step' = step /\ exit' = e
    BY <1>1, <1>8, Propagates
  <2>2. e # "running" /\ (step = "confirmRtc" \/ begun' = begun \cup {step})
    BY <1>8 DEF Exceptions
  <2>3. CASE step \in TryBlock
    <3>1. step' = "revertPassword" /\ exit' = "running"
      BY <1>8, <2>1, <2>3
    <3>. QED  BY <3>1 DEF Restoring, RevertsAttempted, Final
  <2>4. CASE step \notin TryBlock
    <3>1. step' = step /\ exit' # "running"
      BY <2>1, <2>2, <2>4
    <3>2. "setPassword" \in begun' => step \in Final
      BY <1>1, <1>8, <2>2, <2>4 DEF Restoring, TryBlock
    <3>. QED  BY <1>1, <1>8, <2>1, <2>2, <2>4, <3>1, <3>2 DEF Restoring, RevertsAttempted, Final
  <2>. QED  BY <2>3, <2>4
<1>9. UNCHANGED <<step, exit, original, broken>> /\ begun \subseteq begun' =>
         begun' = begun \/ StepBegins
  <2>1. Elsewhere => begun' = begun
    BY ElsewhereKeeps DEF scriptPast
  <2>2. ~StepBegins => begun' = begun
    BY <2>1 DEF Elsewhere, Next, ScriptStep, SkipNameRevert, StepEnds, StepRaises,
                ConfirmRtc, Summary, Interrupt, scriptPast
  <2>. QED  BY <2>2
<1>. QED  BY <1>2, <1>3, <1>4, <1>5, <1>6, <1>7, <1>8, <1>9, ScriptMoves

\* The script does not come back to a step before the changes.
LEMMA NotBackToEarly ==
    ASSUME ProbeInv, [Next]_vars, step' \in Early
    PROVE  step \in Early
<1>1. ScriptTyped /\ Scripted
  BY ProbeParts
<1>2. GoOn /\ step # "summary" => step \in Early
  BY <1>1, GoesOn, OrderOfSteps, StepNames DEF ScriptTyped, Early
<1>3. ASSUME NEW e \in Exceptions, Propagate(e)  PROVE step \in Early
  BY <1>1, <1>3, Propagates DEF Early
<1>4. StepEnds => GoOn /\ step # "summary"
  BY <1>1 DEF StepEnds, Running, Accepted, Refused, Scripted, Pending
<1>5. SkipNameRevert => GoOn /\ step # "summary"
  BY DEF SkipNameRevert
<1>6. ConfirmRtc => step \in Early
  BY DEF ConfirmRtc, Early
<1>7. Summary => step' = step
  BY DEF Summary
<1>. QED  BY <1>2, <1>3, <1>4, <1>5, <1>6, <1>7, ScriptMoves

LEMMA SettledStays ==
    ASSUME meter' \in [Fields -> Values], NEW f \in Fields, Settled(f), Drift
    PROVE  Settled(f)'
<1>1. meter'[f] = meter[f] \/ InQueue(Set(f, meter'[f]))
  BY DEF Drift
<1>2. meter'[f] = Original
  BY <1>1 DEF Settled
<1>3. ASSUME NEW v \in Values  PROVE ~InQueue(Set(f, v))'
  <2>1. ~InQueue(Set(f, v)) /\ Set(f, v) \in AllCommands
    BY PartsOfCommand DEF Settled
  <2>. QED  BY <2>1 DEF Drift
<1>. QED  BY <1>2, <1>3 DEF Settled

\* How a call that is not the beginning of one changes what its task was told.
LEMMA AnswerComesAtTheEnd ==
    ASSUME Channel, ServeWrite \/ ServeRead \/ LinkDrop \/ GivesUp, NEW t \in Callers
    PROVE  \/ outcome'[t] = outcome[t] /\ answer'[t] = answer[t]
           \/ pc[t] # "idle" /\ pc'[t] = "idle"
<1>1. Plain
  BY ChannelParts
<1>2. CASE ServeWrite
  BY <1>2 DEF ServeWrite
<1>3. CASE ServeRead
  BY <1>1, <1>3, ReadGivesTo DEF Plain
<1>4. CASE LinkDrop
  BY <1>4 DEF LinkDrop, round
<1>5. CASE GivesUp
  BY <1>1, <1>5, AbandonLeaves DEF GivesUp, Plain
<1>. QED  BY <1>2, <1>3, <1>4, <1>5

\* The parts of Recoverable.
Held == /\ \A f \in Fields : meter[f] \in {Original, Test}
        /\ \A f \in Fields, v \in Values : InQueue(Set(f, v)) => v \in {Original, Test}
        /\ original \in {Original, Unknown}
        /\ step \in Early => Settled("name")
        /\ \A f \in reverted : Settled(f)
ToldRight ==
        Told => /\ step = "getName" => answer[Prober].value = Original
                /\ \A f \in Fields :
                      step \in DOMAIN Reverts /\ f = Reverts[step] => Settled(f)

LEMMA RevertedFields ==
    /\ "password" \in Fields /\ "name" \in Fields
    /\ DOMAIN Reverts = {"revertPassword", "revertName"}
    /\ Reverts["revertPassword"] = "password" /\ Reverts["revertName"] = "name"
BY DEF Fields, Reverts

LEMMA RecoverableParts ==
    Recoverable <=> (tool /\ ~damaged => Held /\ ToldRight)
BY RevertedFields DEF Recoverable, Held, ToldRight


\* The meter, the queue and the script's calls go on while it waits.
LEMMA RecoverableAsCallsGoOn ==
    ASSUME ProbeInv, tool, Held, ToldRight, Channel',
           ServeWrite \/ ServeRead \/ LinkDrop \/ GivesUp,
           UNCHANGED <<step, original, reverted>>
    PROVE  Held' /\ ToldRight'
<1>1. ScriptTyped /\ Scripted /\ Channel /\ Prober \in Callers
  BY ProbeParts, ProberAssumption
<1>2. Drift /\ Plain /\ meter' \in [Fields -> Values]
  BY <1>1, Drifts, ChannelParts DEF Channel, CommandsTypeOK
<1>3. \A f \in Fields : Settled(f) => Settled(f)'
  BY <1>2, SettledStays
<1>4. reverted \subseteq Fields
  BY <1>1, RevertedFields DEF ScriptTyped
<1>5. Held'
  <2>1. \A f \in Fields : meter'[f] \in {Original, Test}
    BY <1>2 DEF Held, Drift
  <2>2. \A f \in Fields, v \in Values : InQueue(Set(f, v))' => v \in {Original, Test}
    BY <1>2, PartsOfCommand DEF Held, Drift
  <2>3. step' \in Early => Settled("name")'
    BY <1>3, RevertedFields DEF Held
  <2>4. \A f \in reverted' : Settled(f)'
    BY <1>3, <1>4 DEF Held
  <2>. QED  BY <2>1, <2>2, <2>3, <2>4 DEF Held
<1>6. ASSUME Told'
      PROVE  /\ step' = "getName" => answer'[Prober].value = Original
             /\ \A f \in Fields :
                   step' \in DOMAIN Reverts /\ f = Reverts[step'] => Settled(f)'
  <2>1. CASE outcome'[Prober] = outcome[Prober] /\ answer'[Prober] = answer[Prober]
    <3>1. Told
      BY <1>6, <2>1 DEF Told
    <3>. QED  BY <1>3, <2>1, <3>1 DEF ToldRight
  <2>2. CASE pc[Prober] # "idle" /\ pc'[Prober] = "idle"
    <3>1. Ends(Prober, "ok") /\ answer'[Prober].crc_ok /\ alone[Prober]
      BY <1>1, <1>6, <2>2 DEF Ends, Told, Scripted
    <3>2. /\ answer'[Prober].value = meter[command[Prober].field]
          /\ command[Prober].set => meter[command[Prober].field] = command[Prober].value
          /\ meter' = meter
          /\ \A c \in AllCommands : ~InQueue(c)'
      BY <1>1, <3>1, ToldTrue DEF ChannelStep
    <3>3. command[Prober] = CommandOf(step) /\ (step = "revertName" => original = Original)
      BY <1>1, <2>2 DEF Scripted, Pending, Held
    <3>4. step = "getName" => answer'[Prober].value = Original
      <4>1. step = "getName" => command[Prober].field = "name" /\ meter["name"] = Original
        BY <3>3, CommandOfStep, RevertedFields, PartsOfCommand DEF Held, Settled, Early
      <4>. QED  BY <3>2, <4>1
    <3>5. ASSUME NEW f \in Fields, step \in DOMAIN Reverts, f = Reverts[step]
          PROVE  Settled(f)'
      <4>1. command[Prober] = Set(f, Original)
        BY <3>3, <3>5, CommandOfStep, RevertedFields
      <4>2. meter'[f] = Original
        BY <3>2, <4>1, PartsOfCommand
      <4>3. \A v \in Values : ~InQueue(Set(f, v))'
        BY <3>2, PartsOfCommand
      <4>. QED  BY <4>2, <4>3 DEF Settled
    <3>. QED  BY <3>4, <3>5
  <2>. QED  BY <1>1, <2>1, <2>2, AnswerComesAtTheEnd
<1>. QED  BY <1>5, <1>6 DEF ToldRight

\* A step begins its call.
LEMMA RecoverableAsAStepBegins ==
    ASSUME ProbeInv, tool, Held, ToldRight, StepBegins, Begin(Prober, CommandOf(step))
    PROVE  Held' /\ ToldRight'
<1>1. ScriptTyped /\ Scripted /\ Channel /\ Progress /\ Prober \in Callers
  BY ProbeParts, ProberAssumption
<1>2. /\ exit = "running" /\ pc[Prober] = "idle"
      /\ step \in Steps \ {"confirmRtc", "summary"}
      /\ step = "revertName" => original # Unknown
      /\ reverted' = reverted
  BY <1>1 DEF StepBegins, Running, ScriptTyped
<1>3. /\ CommandOf(step) \in AllCommands
      /\ \A f \in Fields, v \in Values : CommandOf(step) = Set(f, v) =>
            /\ v \in {Original, Test} \/ (step = "revertName" /\ v = original)
            /\ f = "name" => step \in {"setName", "revertName"}
            /\ f = "password" => step \in {"setPassword", "revertPassword"}
  BY <1>1, <1>2, CommandOfStepSets DEF ScriptTyped
<1>4. /\ meter' = meter
      /\ \A d \in AllCommands : InQueue(d)' => InQueue(d) \/ d = CommandOf(step)
  BY <1>1, <1>3, BeginAdds
<1>5. outcome'[Prober] = "none" /\ UNCHANGED <<step, original>>
  <2>1. outcome' = [outcome EXCEPT ![Prober] = "none"]
    BY DEF Begin
  <2>2. pc'[Prober] = "write"
    BY <1>1, ChannelParts DEF Begin, Plain
  <2>3. ~ UNCHANGED commandVars
    BY <1>2, <2>2 DEF commandVars, round
  <2>. QED  BY <1>1, <2>1, <2>3, ChannelParts DEF Plain, StepBegins, script
<1>6. ASSUME NEW f \in {"password", "name"}, Settled(f),
             f = "name" => step \notin {"setName", "revertName"},
             f = "password" => step \notin {"setPassword", "revertPassword"}
      PROVE  Settled(f)'
  <2>1. ASSUME NEW v \in Values  PROVE ~InQueue(Set(f, v))'
    <3>1. CommandOf(step) # Set(f, v)
      BY <1>3, <1>6, RevertedFields
    <3>2. ~InQueue(Set(f, v)) /\ Set(f, v) \in AllCommands
      BY <1>6, RevertedFields, PartsOfCommand DEF Settled
    <3>. QED  BY <1>4, <3>1, <3>2
  <2>. QED  BY <1>4, <1>6, <2>1 DEF Settled
<1>7. Held'
  <2>1. ASSUME NEW f \in Fields, NEW v \in Values, InQueue(Set(f, v))'
        PROVE  v \in {Original, Test}
    <3>1. CASE InQueue(Set(f, v))
      BY <3>1 DEF Held
    <3>2. CASE CommandOf(step) = Set(f, v)
      BY <1>2, <1>3, <3>2 DEF Held
    <3>. QED  BY <1>4, <2>1, <3>1, <3>2, PartsOfCommand
  <2>2. step' \in Early => Settled("name")'
    BY <1>5, <1>6 DEF Held, Early
  <2>3. \A f \in reverted' : Settled(f)'
    <3>1. "name" \notin reverted
      BY <1>1, <1>2 DEF Progress
    <3>2. "password" \in reverted => step = "revertName"
      BY <1>1, <1>2 DEF Progress
    <3>3. reverted \subseteq {"password"}
      BY <1>1, <3>1 DEF ScriptTyped
    <3>. QED  BY <1>2, <1>6, <3>2, <3>3 DEF Held
  <2>. QED  BY <1>4, <1>5, <2>1, <2>2, <2>3 DEF Held
<1>. QED  BY <1>5, <1>7 DEF ToldRight, Told

\* The script looks at an outcome, or moves without having called.
LEMMA RecoverableAsTheScriptMoves ==
    ASSUME ProbeInv, tool, Held, ToldRight, [Next]_vars, ~damaged, ~damaged',
           UNCHANGED commandVars \/ LooksAt
    PROVE  Held' /\ ToldRight'
<1>1. ScriptTyped /\ Scripted /\ Channel /\ Prober \in Callers
  BY ProbeParts, ProberAssumption
<1>2. UNCHANGED <<meter, att, answer>> /\ (outcome'[Prober] = outcome[Prober] \/ outcome'[Prober] = "none")
  <2>1. outcome \in [Callers -> Outcomes]
    BY <1>1, ChannelParts DEF Plain
  <2>. QED  BY <1>1, <2>1 DEF LooksAt, commandVars, device, round
<1>3. \A f : Settled(f)' <=> Settled(f)
  BY <1>2 DEF Settled, InQueue
<1>4. original' \in {Original, Unknown} /\ \A f \in reverted' : Settled(f)
  <2>1. CASE StepEnds
    <3>1. Accepted => Told
      BY <2>1 DEF StepEnds, Accepted, Told
    <3>2. original' \in {Original, Unknown}
      BY <2>1, <3>1 DEF StepEnds, Capture, Held, ToldRight
    <3>3. step \in DOMAIN Reverts => Reverts[step] \in Fields
      BY RevertedFields
    <3>4. reverted' = IF Accepted /\ step \in DOMAIN Reverts
                      THEN reverted \cup {Reverts[step]} ELSE reverted
      BY <2>1 DEF StepEnds
    <3>. QED  BY <3>1, <3>2, <3>3, <3>4 DEF Held, ToldRight
  <2>2. CASE ~StepEnds
    <3>1. original' = original /\ reverted' = reverted
      BY <2>2, ScriptMoves DEF SkipNameRevert, ConfirmRtc, Summary, scriptPast
    <3>. QED  BY <3>1 DEF Held
  <2>. QED  BY <2>1, <2>2
<1>5. Held'
  <2>1. step' \in Early => Settled("name")
    BY NotBackToEarly DEF Held
  <2>2. \A f \in Fields, v \in Values : InQueue(Set(f, v))' => v \in {Original, Test}
    BY <1>2 DEF Held, InQueue
  <2>. QED  BY <1>2, <1>3, <1>4, <2>1, <2>2 DEF Held
<1>6. outcome[Prober] # "none" /\ outcome'[Prober] = outcome[Prober] => step' = step
  <2>. SUFFICES ASSUME outcome[Prober] # "none", outcome'[Prober] = outcome[Prober]
                PROVE  step' = step
    OBVIOUS
  <2>1. ~LooksAt
    BY <1>1, ChannelParts DEF LooksAt, Plain
  <2>2. ~StepEnds /\ ~StepRaises
    BY <2>1 DEF StepEnds, StepRaises, LooksAt, device, history
  <2>3. step \notin {"confirmRtc", "summary"}
    BY <1>1 DEF Scripted, Pending
  <2>4. ~StepBegins /\ ~SkipNameRevert /\ ~ConfirmRtc /\ ~Summary
    BY <2>3 DEF StepBegins, SkipNameRevert, ConfirmRtc, Summary
  <2>5. Interrupt => step' = step
    BY <2>3 DEF Interrupt, script
  <2>. QED  BY <2>2, <2>4, <2>5, ElsewhereKeeps DEF Elsewhere, Next, ScriptStep, script
<1>7. ToldRight'
  <2>. SUFFICES ASSUME Told'
                PROVE  /\ step' = "getName" => answer'[Prober].value = Original
                       /\ \A f \in Fields :
                             step' \in DOMAIN Reverts /\ f = Reverts[step'] => Settled(f)'
    BY DEF ToldRight
  <2>1. outcome'[Prober] = outcome[Prober] /\ outcome[Prober] # "none" /\ Told
    BY <1>2 DEF Told
  <2>. QED  BY <1>2, <1>3, <1>6, <2>1 DEF ToldRight
<1>. QED  BY <1>5, <1>7

LEMMA RecoverableStays ==
    ASSUME ProbeInv, [Next]_vars
    PROVE  Recoverable'
<1>. SUFFICES ASSUME tool', ~damaged'
              PROVE  Held' /\ ToldRight'
  BY RevertedFields DEF Recoverable, Held, ToldRight
<1>1. tool /\ Scripted
  BY NextChannel, ProbeParts
<1>2. ~damaged
  <2>1. CASE StepEnds
    BY <2>1 DEF StepEnds
  <2>2. CASE ~StepEnds
    BY <2>2, ElsewhereKeeps DEF Elsewhere, Next, ScriptStep, StepBegins, SkipNameRevert,
                StepRaises, ConfirmRtc, Summary, Interrupt, scriptPast
  <2>. QED  BY <2>1, <2>2
<1>3. Held /\ ToldRight
  BY <1>1, <1>2, ProbeParts, RecoverableParts
<1>4. CASE StepBegins /\ Begin(Prober, CommandOf(step))
  BY <1>1, <1>3, <1>4, RecoverableAsAStepBegins
<1>5. CASE UNCHANGED commandVars \/ LooksAt
  BY <1>1, <1>2, <1>3, <1>5, RecoverableAsTheScriptMoves
<1>6. CASE /\ ServeWrite \/ ServeRead \/ LinkDrop \/ GivesUp
           /\ ~StepBegins /\ ~(UNCHANGED commandVars \/ LooksAt)
  <2>1. UNCHANGED <<step, original, reverted>>
    <3>1. ~SkipNameRevert /\ ~StepEnds /\ ~StepRaises /\ ~ConfirmRtc /\ ~Summary
      BY <1>6 DEF SkipNameRevert, StepEnds, StepRaises, ConfirmRtc, Summary, LooksAt,
                  device, history
    <3>2. Interrupt => UNCHANGED <<step, original, reverted>>
      BY <1>6 DEF Interrupt, script
    <3>. QED  BY <1>6, <3>1, <3>2, ElsewhereKeeps DEF Elsewhere, Next, ScriptStep, script, scriptPast
  <2>. QED  BY <1>1, <1>3, <1>6, <2>1, ChannelStays, RecoverableAsCallsGoOn
<1>7. StepBegins => Begin(Prober, CommandOf(step)) \/ UNCHANGED commandVars
  BY DEF StepBegins
<1>. QED  BY <1>1, <1>4, <1>5, <1>6, <1>7, NextChannel

-----------------------------------------------------------------------------
(* The invariant, and what follows.                                        *)

LEMMA ProbeInit == Init => ProbeInv
<1>. SUFFICES ASSUME Init  PROVE ProbeInv
  OBVIOUS
<1>1. /\ linkUp = TRUE /\ att = <<>> /\ author = Nobody
      /\ meter = [f \in Fields |-> Original]
      /\ resp = [ok |-> TRUE, value |-> Original]
      /\ pc = [t \in Callers |-> "idle"]
      /\ command = [t \in Callers |-> Get("info")]
      /\ outcome = [t \in Callers |-> "none"]
      /\ answer = [t \in Callers |-> [value |-> Original, crc_ok |-> TRUE]]
      /\ ran = [t \in Callers |-> 0]
      /\ alone = [t \in Callers |-> FALSE]
  BY DEF Init, CommandsInit
<1>2. Original \in Values /\ Get("info") \in AllCommands
  BY PartsOfCommand DEF Fields
<1>3. Plain
  <2>1. /\ resp \in [ok : BOOLEAN, value : Values]
        /\ answer \in [Callers -> [value : Values, crc_ok : BOOLEAN]]
    BY <1>1, <1>2
  <2>2. outcome \in [Callers -> Outcomes] /\ pc \in [Callers -> {"idle", "write", "read"}]
    BY <1>1 DEF Outcomes
  <2>3. meter \in [Fields -> Values] /\ command \in [Callers -> AllCommands]
    BY <1>1, <1>2
  <2>4. ran \in [Callers -> {0, 1}] /\ alone \in [Callers -> BOOLEAN]
    BY <1>1
  <2>. QED  BY <1>1, <2>1, <2>2, <2>3, <2>4 DEF Plain
<1>4. att \in Seq(Requests) /\ DOMAIN att = {}
  BY <1>1
<1>5. Channel
  <2>1. Owned /\ Asked
    BY <1>1, <1>4 DEF Owned, Asked
  <2>2. Solo
    BY <1>1 DEF Solo
  <2>. QED  BY <1>3, <1>4, <2>1, <2>2, ChannelParts
<1>6. Scripted
  BY <1>1, ProberAssumption DEF Init, Scripted, Pending
<1>7. Recoverable
  <2>1. \A f \in Fields : Settled(f)
    BY <1>1, <1>4 DEF Settled, InQueue
  <2>2. Held
    BY <1>1, <1>4, <2>1, RevertedFields DEF Init, Held, InQueue
  <2>3. ToldRight
    BY <1>1, <2>1 DEF Init, ToldRight, Reverts
  <2>. QED  BY <2>2, <2>3, RecoverableParts
<1>8. ScriptTyped
  BY StepNames DEF Init, ScriptTyped
<1>9. Progress /\ Restoring
  BY DEF Init, Progress, Restoring, Early, RevertsAttempted
<1>. QED  BY <1>5, <1>6, <1>7, <1>8, <1>9, ProbeParts

LEMMA ProbeStep == ProbeInv /\ [Next]_vars => ProbeInv'
<1>. SUFFICES ASSUME ProbeInv, [Next]_vars  PROVE ProbeInv'
  OBVIOUS
<1>1. /\ ScriptTyped' /\ Channel' /\ Scripted' /\ Recoverable' /\ Progress' /\ Restoring'
  BY TypesStay, ChannelStays, ScriptedStays, RecoverableStays, ProgressStays, RestoringStays
<1>. QED  BY <1>1 DEF ProbeInv, TypeOK, ScriptTyped, Channel

\* The invariant that all that is proved about the channel and its users rests
\* on: who waits for what, what the queue still holds, and where the script is.
THEOREM ProbeInvariant == Spec => []ProbeInv
BY ProbeInit, ProbeStep, PTL DEF Spec

\* Types, for every number of tasks and of late requests: a request in the
\* queue that has an owner is the one its owner waits for, and the only one.
THEOREM ProbeTyped == Spec => []TypeOK
<1>1. ProbeInv => TypeOK
  BY DEF ProbeInv
<1>. QED  BY <1>1, ProbeInvariant, PTL

\* send_command never returns, or raises CommandError, on a response that was
\* there before its own command was served, however tasks overlap and whatever
\* timed-out calls left in the backend's queue.
THEOREM NoStaleAnswer == Spec => AnsweredMeansServed
<1>1. ASSUME ProbeInv, [Next]_vars
      PROVE  [\A t \in Callers :
                 (Ends(t, "ok") \/ Ends(t, "CommandError")) /\ answer'[t].crc_ok =>
                     ran[t] = 1]_commandVars
  <2>1. Channel
    BY <1>1, ProbeParts
  <2>2. ChannelStep \/ UNCHANGED pc
    BY <1>1, NextChannel DEF commandVars, round, LooksAt
  <2>. QED  BY <2>1, <2>2, ServedOnce
<1>. QED  BY <1>1, ProbeInvariant, PTL DEF Spec, AnsweredMeansServed

\* A send_command that no other overlaps is answered for its own command, with
\* the value the setting has, late requests of cancelled calls notwithstanding.
THEOREM OwnAnswerAlone == Spec => SoloCallGetsItsOwnAnswer
<1>1. ASSUME ProbeInv, [Next]_vars
      PROVE  [\A t \in Callers :
                 alone[t] /\ answer'[t].crc_ok =>
                    /\ Ends(t, "ok") => /\ author = t /\ resp.ok
                                        /\ answer'[t].value = meter[command[t].field]
                    /\ Ends(t, "CommandError") => author = t /\ ~resp.ok]_commandVars
  <2>1. Channel
    BY <1>1, ProbeParts
  <2>2. ChannelStep \/ UNCHANGED pc
    BY <1>1, NextChannel DEF commandVars, round, LooksAt
  <2>. QED  BY <2>1, <2>2, OwnAnswer
<1>. QED  BY <1>1, ProbeInvariant, PTL DEF Spec, SoloCallGetsItsOwnAnswer

\* At every moment of a run of probe.py that took no damaged response for an
\* answer, password and name are the original or the TEST_ values.
THEOREM KeysRecover == Spec => []RecoveryKeys
<1>1. ProbeInv => RecoveryKeys
  BY ProbeParts, RevertedFields DEF Recoverable, RecoveryKeys
<1>. QED  BY <1>1, ProbeInvariant, PTL

\* What probe.py saw restored stays restored, though requests of steps that
\* timed out may still be on their way, and status 0 means both settings are.
THEOREM ReportsAreTrue == Spec => []RestoredWhenReported
<1>1. ProbeInv => RestoredWhenReported
  <2>. SUFFICES ASSUME ProbeInv, tool, ~damaged
                PROVE  /\ \A f \in reverted : meter[f] = Original
                       /\ exit = "0" => reverted = {"password", "name"}
    BY DEF RestoredWhenReported
  <2>1. ScriptTyped /\ Held /\ Progress
    BY ProbeParts, RecoverableParts
  <2>2. \A f \in reverted : meter[f] = Original
    BY <2>1 DEF Held, Settled
  <2>3. exit = "0" => reverted = {"password", "name"}
    BY <2>1 DEF Progress, Early, ScriptTyped
  <2>. QED  BY <2>2, <2>3
<1>. QED  BY <1>1, ProbeInvariant, PTL

\* Once the password may have been changed, probe.py does not end without having
\* tried to restore it, and the name unless it is unknown or that try raised.
THEOREM RevertsTried == Spec => []RevertsAttempted
<1>1. ProbeInv => RevertsAttempted
  BY DEF ProbeInv, Restoring
<1>. QED  BY <1>1, ProbeInvariant, PTL
==============================================================================
