-------------------------------- MODULE Wire --------------------------------
(***************************************************************************)
(* Computer and meter exchanging the packets of module Packets over a link *)
(* that may damage one packet at a time: commands and their responses, and *)
(* the notifications that carry the meter's display and clock.             *)
(*                                                                         *)
(* The meter's side follows the packets that the tests build               *)
(* (tests/frame_builder.py, tests/test_commands.py).                       *)
(***************************************************************************)
EXTENDS Packets

CONSTANTS
    Address,      \* the meter's address, six bytes in display order
    Password,     \* its connection password, four digits
    Guesses,      \* the passwords the computer tries
    Times,        \* the times it sets the clock to
    Displays,     \* what the meter's LCD may show
    Fragile,      \* bound: the display whose notifications may be damaged
    Milliseconds, \* the fractions of a second the clock may be at
    Bursts        \* shapes of damage: sets of bit offsets

\* The moments the clock tells apart, and what the LCD has room for.
Moments ==
    [year : 2000 .. 2127, month : 1 .. 12, date : 1 .. 31, weekday : 0 .. 6,
     hour : 0 .. 23, minute : 0 .. 59, second : 0 .. 59]

LcdStates ==
    [function : Bytes \X Bytes, number : 0 .. 2^23 - 1, digits : Bytes,
     point : Bytes, prefix : PREFIX_MAP, unit : Bytes,
     flags : SUBSET (DOMAIN Status0 \cup DOMAIN Status1), twos : BOOLEAN]

ASSUME AddressAssumption  == Address \in [1 .. 6 -> Bytes]
ASSUME PasswordAssumption == Guesses \subseteq [1 .. 4 -> 0 .. 9]
ASSUME TimeAssumption     == Times \subseteq Moments /\ Milliseconds \subseteq 0 .. 999
ASSUME DisplayAssumption  ==
    \A d \in Displays :
        /\ d \in LcdStates
        /\ d.twos => d.number # 0
        /\ d.point = 0 \/ d.digits - d.point \in 0 .. 6
ASSUME BurstAssumption    == \A b \in Bursts : 0 \in b /\ b \subseteq 0 .. 15

VARIABLES
    at,       \* what is on the air, or has just been read
    bytes,    \* its bytes
    meant,    \* what its sender put into it
    damage,   \* positions of its bits that were flipped
    result,   \* what its receiver read
    clock,    \* the meter's clock
    asked,    \* the time the last command was to set, if it was sync_rtc
    synced    \* the time the computer knows it to have; None: not known

vars == <<at, bytes, meant, damage, result, clock, asked, synced>>

OnAir == {"request", "reply", "frame"}

\* The clock after power-on; the meter has no battery for it.
Reset == [year |-> 2000, month |-> 1, date |-> 1, weekday |-> 5,
          hour |-> 0, minute |-> 0, second |-> 0]

Init ==
    /\ at = "idle" /\ bytes = <<>> /\ meant = None
    /\ damage = {} /\ result = None
    /\ clock = Reset /\ asked = None /\ synced = None

Put(what, p, m) == at' = what /\ bytes' = p /\ meant' = m /\ damage' = {}
Read(what, r) == at' = what /\ result' = r /\ UNCHANGED <<bytes, meant, damage>>

-----------------------------------------------------------------------------
(* The meter's packets.                                                    *)

\* One 8-bit number from the positions of its bits among the named flags.
FlagByte(names, layout) ==
    Number({layout[f] : f \in names \cap DOMAIN layout})

EncodeRtc(t, ms) ==
    <<ms % 256, 4 * t.second + (ms \div 256),
      64 * (t.hour % 4) + t.minute, t.hour \div 4,
      32 * (t.month % 8) + t.date, 2 * (t.year - 2000) + (t.month \div 8)>>

EncodeReading(d, t, ms) ==
    LET value == IF d.twos THEN 2^24 - d.number ELSE d.number IN
    Seal(<<255, 2, 32, 5, 1, 0, 0, 1>> \o EncodeRtc(t, ms)
         \o <<FlagByte(d.flags, Status0), FlagByte(d.flags, Status1), 0, 1>>
         \o <<d.function[1], 0, d.function[2]>>
         \o <<value % 256, (value \div 256) % 256, value \div 65536>>
         \o <<d.point, d.prefix % 256, d.unit, d.digits>>)

EncodeInfo ==
    Seal(<<255, 1, 24, 4, 1, 2>> \o Reverse(Address)
         \o <<0, 0, 0, 0, ReadingsPerFrame, 0, 0, 1>>)

EncodeResponse(id, args) ==
    Seal(<<255, 1, 32, 2, 1>> \o Reverse(Address) \o LittleEndian(id)
         \o <<1>> \o Padded(args))

\* n readings, the rest of the frame empty.
EncodeFrame(d, t, ms, n) ==
    LET info == EncodeInfo
        reading == EncodeReading(d, t, ms)
    IN [i \in 0 .. FrameLength - 1 |->
          CASE i < 24 -> info[i]
            [] i >= 24 /\ i < 24 + 32 * n -> reading[(i - 24) % 32]
            [] OTHER -> 0]

\* What the meter makes of a command packet; None if it does not understand.
DecodeCommand(p) ==
    IF /\ p[0] = 255 /\ p[1] = 1 /\ p[2] = 32 /\ p[3] = 1 /\ p[4] = 1
       /\ \A i \in 1 .. 6 : p[4 + i] = Address[7 - i]
       /\ p[13] = 1
       /\ VerifyCrc(p, 2, 28)
    THEN [id |-> p[11] + 256 * p[12], args |-> [i \in 1 .. 14 |-> p[13 + i]]]
    ELSE None

ClockOf(args) ==
    [second |-> args[1], minute |-> args[2], hour |-> args[3],
     date |-> args[4], weekday |-> args[5] - 1, month |-> args[6],
     year |-> 2000 + args[7]]

-----------------------------------------------------------------------------
(* Commands and responses.                                                 *)

Request(id, args, time) ==
    /\ at = "idle"
    /\ Put("request", BuildCommandPacket(Address, id, args),
           [id |-> id, args |-> args])
    /\ asked' = time
    /\ result' = None
    /\ UNCHANGED clock

VerifyPassword ==
    /\ \E g \in Guesses : Request(CommandIds.verify, EncodePasswordArgs(g), None)
    /\ UNCHANGED synced

\* sync_rtc.  Until its response is in, the clock may have either time.
SyncRtc ==
    /\ \E t \in Times : Request(CommandIds.rtc, EncodeRtcTimeArgs(t), t)
    /\ synced' = None

\* The meter's answer to what reaches it.
Reply(id, args, failed, code) ==
    Put("reply", EncodeResponse(id, args),
        [command_id |-> id, args |-> Packet(Padded(args)), crc_ok |-> TRUE,
         failed |-> failed, code |-> code])

Succeed(id) == Reply(id, <<>>, None, None)
Fail(id, code) ==
    Reply(CMD_FAILURE, LittleEndian(id) \o LittleEndian(code), id, code)

Execute ==
    /\ at = "request"
    /\ LET c == DecodeCommand(bytes) IN
       /\ result' = c
       /\ \/ c = None /\ Fail(meant.id, 0) /\ UNCHANGED clock
          \/ /\ c # None /\ c.id = CommandIds.rtc
             /\ Succeed(c.id) /\ clock' = ClockOf(c.args)
          \/ /\ c # None /\ c.id = CommandIds.verify
             /\ IF SubSeq(c.args, 1, 4) = Password THEN Succeed(c.id)
                ELSE Fail(c.id, 3)
             /\ UNCHANGED clock
    /\ UNCHANGED <<asked, synced>>

\* send_command reads the response.  One that parses and is no failure frame
\* lets a caller of sync_rtc who looks at crc_ok know the clock.
ReceiveReply ==
    /\ at = "reply"
    /\ LET r == ParseCommandResponse(bytes) IN
       /\ Read("readReply", r)
       /\ synced' = IF asked # None /\ r # None /\ ~IsFailure(r) /\ r.crc_ok
                    THEN asked ELSE synced
    /\ UNCHANGED <<clock, asked>>

-----------------------------------------------------------------------------
(* Notifications.                                                          *)

\* The first n readings carry display d.
Notify ==
    /\ at = "idle"
    /\ \E d \in Displays, ms \in Milliseconds, n \in 1 .. 2 :
          Put("frame", EncodeFrame(d, clock, ms, n),
              [display |-> d, millisecond |-> ms, readings |-> n])
    /\ result' = None
    /\ UNCHANGED <<clock, asked, synced>>

\* The link delivers the beginning of a notification.
Truncate ==
    /\ at = "frame" /\ damage = {} /\ meant.display = Fragile
    /\ \E n \in {24, 56, FrameLength - 1} :
          /\ bytes' = Slice(bytes, 0, n)
          /\ damage' = 8 * n .. 8 * FrameLength - 1
    /\ UNCHANGED <<at, meant, result, clock, asked, synced>>

ReceiveFrame ==
    /\ at = "frame"
    /\ Read("readFrame", ParseStreamFrame(bytes))
    /\ UNCHANGED <<clock, asked, synced>>

\* The bits at the positions in D are flipped.
Flipped(p, D) ==
    [i \in DOMAIN p |->
        LET hit == {j - 8 * i : j \in D \cap (8 * i .. 8 * i + 7)}
        IN IF hit = {} THEN p[i] ELSE Number(Xor(Bits(p[i]), hit))]

Damage ==
    /\ at \in OnAir /\ damage = {}
    /\ at = "frame" => meant.display = Fragile
    /\ \E start \in 0 .. 8 * Cardinality(DOMAIN bytes) - 1, b \in Bursts :
          LET D == {start + i : i \in b} IN
          /\ D \subseteq 0 .. 8 * Cardinality(DOMAIN bytes) - 1
          /\ damage' = D /\ bytes' = Flipped(bytes, D)
    /\ UNCHANGED <<at, meant, result, clock, asked, synced>>

Quiet == Put("idle", <<>>, None) /\ result' = None

\* What was read goes to its caller.
HandOver ==
    /\ at \in {"readReply", "readFrame"}
    /\ Quiet /\ asked' = None
    /\ UNCHANGED <<clock, synced>>

\* The meter is switched off and on, which the computer notices.
PowerCycle ==
    /\ Quiet /\ asked' = None
    /\ clock' = Reset /\ synced' = None

Next ==
    \/ VerifyPassword \/ SyncRtc \/ Execute \/ ReceiveReply
    \/ Notify \/ Truncate \/ ReceiveFrame \/ HandOver
    \/ Damage \/ PowerCycle

Spec == Init /\ [][Next]_vars

-----------------------------------------------------------------------------
(* Properties.                                                             *)

\* The reading that a parser should make of display d.
Faithful(d, t, ms) ==
    [function_name |-> d.function, mantissa |-> d.number,
     decimal_pos |-> d.point, display_digit_count |-> d.digits,
     prefix |-> d.prefix, unit |-> d.unit,
     ids |-> <<Packet(<<1, 0, 0>>), 1, 1>>,
     rtc |-> [year |-> t.year, month |-> t.month, date |-> t.date,
              hour |-> t.hour, minute |-> t.minute, second |-> t.second,
              millisecond |-> ms],
     flags |-> d.flags,
     ascii_text |-> IF "ascii" \in d.flags THEN d.number ELSE None,
     crc_ok |-> TRUE]

FaithfulInfo ==
    [device_category |-> 2, mac |-> Address, battery_status |-> 0,
     power_source |-> 0, reading_packet_count |-> ReadingsPerFrame,
     device_reading_pk_id |-> 1, crc_ok |-> TRUE]

\* A response with what CommandError reads from it.
Answer(r) ==
    IF r = None THEN None
    ELSE [command_id |-> r.command_id, args |-> r.args, crc_ok |-> r.crc_ok,
          failed |-> FailedCommandId(r), code |-> ErrorCode(r)]

\* What was received last: the bits of each packet, what the parser made of
\* them and what it should have made of them.
Received ==
    CASE at = "readReply" ->
           {[bits |-> 0 .. 255, got |-> Answer(result), want |-> meant]}
      [] at = "readFrame" ->
           {[bits |-> 0 .. 191,
             got  |-> IF result = None THEN None ELSE result.info,
             want |-> FaithfulInfo]}
           \cup {[bits |-> 8 * ReadingStart(i) .. 8 * ReadingStart(i) + 255,
                  got  |-> IF result = None THEN None ELSE result.readings[i],
                  want |-> IF i > meant.readings THEN None
                           ELSE Faithful(meant.display, clock, meant.millisecond)] :
                 i \in 1 .. ReadingsPerFrame}
      [] OTHER -> {}

Truncated == DOMAIN bytes # 0 .. FrameLength - 1

\* Damage of up to sixteen neighbouring bits never passes for data: a damaged
\* packet is refused, or flagged by crc_ok, or was hit only in its unused end
\* bytes and read as it was meant.
DamageNoticed ==
    \A r \in Received :
        r.bits \cap damage # {} =>
            r.got = None \/ r.got = r.want \/ ~r.got.crc_ok

\* _handle_notify on frames: "A transiently-corrupted info packet must not
\* silently discard the whole frame".  Whatever happens to one packet, the
\* intact packets of a frame are kept, each read exactly as the meter meant it;
\* so are intact responses.
IntactPacketsArrive ==
    \A r \in Received :
        r.bits \cap damage = {} =>
            r.got = r.want \/ (at = "readFrame" /\ Truncated)

\* The meter executes what the caller asked for, or nothing.
ExecutedAsMeant ==
    [][at = "request" /\ at' = "reply" =>
          LET asIs == [id |-> meant.id, args |-> Padded(meant.args)] IN
          IF damage = {} THEN result' = asIs ELSE result' \in {None, asIs}]_vars

\* Once sync_rtc has succeeded, readings carry the time it set, across two
\* encodings of a time that split it into different fields.
ClockFollowsSync ==
    at = "readFrame" /\ synced # None /\ result # None =>
        \A i \in 1 .. ReadingsPerFrame :
            LET r == result.readings[i] IN
            r # None /\ r.crc_ok =>
                \A f \in DOMAIN r.rtc \ {"millisecond"} : r.rtc[f] = synced[f]

\* The LCD of the meter.
Lcd(d) ==
    IF "overload" \in d.flags THEN [shows |-> "OL"]
    ELSE IF "ascii" \in d.flags THEN [shows |-> "text", text |-> d.number]
    ELSE [shows |-> "number", digits |-> d.number,
          decimals |-> IF d.point = 0 THEN 0 ELSE d.digits - d.point,
          minus |-> "negative" \in d.flags /\ d.number # 0,
          prefix |-> d.prefix, unit |-> d.unit]

\* What is printed of a reading whose checksum is right is what the LCD shows:
\* digits, sign, decimal point, prefix and unit, OL before any number or text.
ShownAsOnTheLcd ==
    at = "readFrame" /\ result # None =>
        \A i \in 1 .. ReadingsPerFrame :
            LET r == result.readings[i] IN
            r # None /\ r.crc_ok =>
                ReadingLine(r) = <<meant.display.function, Lcd(meant.display)>>
=============================================================================
