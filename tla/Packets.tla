------------------------------ MODULE Packets -------------------------------
(***************************************************************************)
(* The packets of the meter: what parsers.py reads from them, what         *)
(* commands.py writes into them and what formatter.py shows of a reading.  *)
(*                                                                         *)
(* Names that a lookup table gives to a code (functions, units, texts of   *)
(* the LCD) are represented by the code; the tables are one to one.        *)
(***************************************************************************)
EXTENDS Crc, Sequences, SequencesExt

CONSTANT None

\* The bytes of a sequence, at the indices of the source.
Packet(s) == [i \in 0 .. Len(s) - 1 |-> s[i + 1]]
Slice(p, first, end) == [i \in 0 .. end - first - 1 |-> p[first + i]]

\* A packet from its bytes up to the CRC, which skips the two head bytes.
Seal(s) == Packet(s \o CrcBytes(Packet(s), 2, Len(s)) \o <<255, 3>>)

-----------------------------------------------------------------------------
(* The parsers.                                                            *)

\* The types of what they return.
Infos ==
    [device_category : Bytes, mac : [1 .. 6 -> Bytes], battery_status : Bytes,
     power_source : Bytes, reading_packet_count : Bytes,
     device_reading_pk_id : Bytes, crc_ok : BOOLEAN]

Responses == [command_id : 0 .. 2^16 - 1, args : [0 .. 13 -> Bytes], crc_ok : BOOLEAN]

Layout ==
    [info     |-> [length |-> 24, head |-> 1, type |-> 4, crc |-> 20],
     reading  |-> [length |-> 32, head |-> 2, type |-> 5, crc |-> 28],
     response |-> [length |-> 32, head |-> 1, type |-> 2, crc |-> 28]]

\* A reading has no protocol version; its byte 4 is part of an id.
WellFormed(p, kind) ==
    LET l == Layout[kind] IN
    /\ DOMAIN p = 0 .. l.length - 1
    /\ p[0] = 255 /\ p[1] = l.head
    /\ p[2] = l.length /\ p[3] = l.type
    /\ kind # "reading" => p[4] = 1

CrcOk(p, kind) == VerifyCrc(p, 2, Layout[kind].crc)

ParseInfoPacket(p) ==
    IF ~WellFormed(p, "info") THEN None
    ELSE [device_category |-> p[5],
          mac |-> [i \in 1 .. 6 |-> p[12 - i]],    \* reversed on the wire
          battery_status |-> p[12], power_source |-> p[13],
          reading_packet_count |-> p[16], device_reading_pk_id |-> p[19],
          crc_ok |-> CrcOk(p, "info")]

MutParseRtc(p) ==
    [year   |-> 2000 + ((p[13] \div 2) % 128),
     month  |-> 8 * (p[13] % 2) + ((p[12] \div 32) % 8),
     date   |-> p[12] % 32,
     hour   |-> 8 * ((p[10] \div 64) % 4) + (p[11] % 8),
     minute |-> p[10] % 64,
     second |-> (p[9] \div 4) % 64,
     millisecond |-> Min({999, 256 * (p[9] % 4) + p[8]})]
ParseRtc(p) ==
    [year   |-> 2000 + ((p[13] \div 2) % 128),
     month  |-> 8 * (p[13] % 2) + ((p[12] \div 32) % 8),
     date   |-> p[12] % 32,
     hour   |-> ((p[10] \div 64) % 4) + 4 * (p[11] % 8),
     minute |-> p[10] % 64,
     second |-> (p[9] \div 4) % 64,
     millisecond |-> Min({999, 256 * (p[9] % 4) + p[8]})]

\* The bit of each status flag in bytes 14 and 15.
Status0 == [crest |-> 7, relative |-> 6, held |-> 5, auto_range |-> 4,
            auto_hold |-> 3, ascii |-> 2]
Status1 == [negative |-> 6, overload |-> 5, recording |-> 4, max |-> 3,
            min |-> 2, avg |-> 1]

Flags(p) == {f \in DOMAIN Status0 : Status0[f] \in Bits(p[14])}
            \cup {f \in DOMAIN Status1 : Status1[f] \in Bits(p[15])}

\* A number of w bits in two's complement.
Signed(n, w) == IF n < 2^(w - 1) THEN n ELSE n - 2^w
Abs(n) == IF n < 0 THEN -n ELSE n

\* Twenty-four bits in two's complement, without their sign.
Mantissa(p) == Abs(Signed(p[21] + 256 * p[22] + 65536 * p[23], 24))

PREFIX_MAP == {-9, -6, -3, 0, 3, 6, 9}
Prefix(code) == IF code \in PREFIX_MAP THEN code ELSE None    \* None: "?"

ParseReadingPacket(p) ==
    IF ~WellFormed(p, "reading") THEN None
    ELSE [function_name |-> <<p[18], p[20]>>,
          mantissa |-> Mantissa(p),
          decimal_pos |-> p[24], display_digit_count |-> p[27],
          prefix |-> Prefix(Signed(p[25], 8)), unit |-> p[26],
          ids |-> <<Slice(p, 4, 7), p[7], p[17]>>,
          rtc |-> ParseRtc(p),
          flags |-> Flags(p),
          ascii_text |-> IF "ascii" \in Flags(p) THEN Mantissa(p) ELSE None,
          crc_ok |-> CrcOk(p, "reading")]

\* The type of what is read from it.
Readings ==
    [function_name : Bytes \X Bytes, mantissa : 0 .. 2^23, decimal_pos : Bytes,
     display_digit_count : Bytes, prefix : PREFIX_MAP \cup {None}, unit : Bytes,
     ids : [0 .. 2 -> Bytes] \X Bytes \X Bytes,
     rtc : [year : Nat, month : Nat, date : Nat, hour : Nat, minute : Nat,
            second : Nat, millisecond : Nat],
     flags : SUBSET (DOMAIN Status0 \cup DOMAIN Status1),
     ascii_text : Nat \cup {None}, crc_ok : BOOLEAN]

FrameLength    == 152
ReadingsPerFrame == 4

\* The reading packets follow the info packet.
ReadingStart(i) == Layout.info.length + (i - 1) * Layout.reading.length
ReadingBytes(data, i) ==
    Slice(data, ReadingStart(i), ReadingStart(i) + Layout.reading.length)

Frames ==
    [info : Infos \cup {None}, readings : [1 .. ReadingsPerFrame -> Readings \cup {None}]]

ASSUME NoneAssumption == None \notin Responses /\ None \notin Frames

MutParseStreamFrame(data) ==
    LET info == ParseInfoPacket(Slice(data, 0, Layout.info.length)) IN
    IF DOMAIN data # 0 .. FrameLength - 1 \/ info = None THEN None
    ELSE [info |-> info,
          readings |-> [i \in 1 .. ReadingsPerFrame |->
                           ParseReadingPacket(ReadingBytes(data, i))]]
ParseStreamFrame(data) ==
    IF DOMAIN data # 0 .. FrameLength - 1 THEN None
    ELSE [info |-> ParseInfoPacket(Slice(data, 0, Layout.info.length)),
          readings |-> [i \in 1 .. ReadingsPerFrame |->
                           ParseReadingPacket(ReadingBytes(data, i))]]

CMD_FAILURE == 32769    \* 0x8001

ParseCommandResponse(p) ==
    IF ~WellFormed(p, "response") THEN None
    ELSE [command_id |-> p[11] + 256 * p[12], args |-> Slice(p, 14, 28),
          crc_ok |-> CrcOk(p, "response")]

IsFailure(r) == r.command_id = CMD_FAILURE
FailedCommandId(r) == IF IsFailure(r) THEN r.args[0] + 256 * r.args[1] ELSE None
ErrorCode(r) == IF IsFailure(r) THEN r.args[2] + 256 * r.args[3] ELSE None

-----------------------------------------------------------------------------
(* What a reading shows.                                                   *)

MutDecimals(r) == Min({6, Max({0, r.display_digit_count - r.decimal_pos})})
Decimals(r) ==
    IF r.decimal_pos = 0 THEN 0
    ELSE Min({6, Max({0, r.display_digit_count - r.decimal_pos})})

SignedValue(r) == IF "negative" \in r.flags THEN -r.mantissa ELSE r.mantissa

\* format_reading.  A number prints as its digits with the decimal point in
\* place and a sign if it is below zero: integers of 24 bits scaled by at most
\* 10^6 survive the detour through a float.
MutFormatReading(r) ==
    IF r = None THEN [shows |-> "invalid"]
    ELSE IF "ascii" \in r.flags THEN [shows |-> "text", text |-> r.ascii_text]
    ELSE [shows |-> "number", digits |-> r.mantissa, decimals |-> Decimals(r),
          minus |-> SignedValue(r) < 0, prefix |-> r.prefix, unit |-> r.unit]
FormatReading(r) ==
    IF r = None THEN [shows |-> "invalid"]
    ELSE IF "overload" \in r.flags THEN [shows |-> "OL"]
    ELSE IF "ascii" \in r.flags THEN [shows |-> "text", text |-> r.ascii_text]
    ELSE [shows |-> "number", digits |-> r.mantissa, decimals |-> Decimals(r),
          minus |-> SignedValue(r) < 0, prefix |-> r.prefix, unit |-> r.unit]

\* console.reading_line of a valid packet: the function and the reading.
ReadingLine(r) == <<r.function_name, FormatReading(r)>>

-----------------------------------------------------------------------------
(* Command packets.                                                        *)

CommandIds ==
    [firmware |-> 4, rtc |-> 16, model |-> 278, set_password |-> 320,
     get_password |-> 321, set_name |-> 322, get_name |-> 323, verify |-> 337]

LittleEndian(n) == <<n % 256, n \div 256>>
Padded(args) == args \o [i \in 1 .. 14 - Len(args) |-> 0]

\* None: ValueError.  mac is in display order.
MutBuildCommandPacket(mac, id, args) ==
    IF Len(mac) # 6 \/ id \notin 0 .. 2^16 - 1 \/ Len(args) > 14 THEN None
    ELSE Seal(<<255, 1, 32, 1, 1>> \o Reverse(mac) \o LittleEndian(id)
              \o <<1>> \o [i \in 1 .. 14 - Len(args) |-> 0] \o args)
BuildCommandPacket(mac, id, args) ==
    IF Len(mac) # 6 \/ id \notin 0 .. 2^16 - 1 \/ Len(args) > 14 THEN None
    ELSE Seal(<<255, 1, 32, 1, 1>> \o Reverse(mac) \o LittleEndian(id)
              \o <<1>> \o Padded(args))

\* One byte for each digit.
EncodePasswordArgs(password) == password

\* weekday is 0 on Mondays.
EncodeRtcTimeArgs(when) ==
    <<when.second, when.minute, when.hour, when.date, when.weekday + 1,
      when.month, when.year - 2000, 0, 0, 0, 0, 0, 0, 0>>
=============================================================================
