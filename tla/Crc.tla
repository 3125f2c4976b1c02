-------------------------------- MODULE Crc ---------------------------------
(***************************************************************************)
(* CRC-16 (reversed, polynomial 0xA001) as crc.py computes it.  A byte or  *)
(* register is the set of the positions of its 1 bits, so that `^` is the  *)
(* symmetric difference and `>> 1` moves every position down by one.       *)
(*                                                                         *)
(* A packet is a function from 0 .. length-1, the indices of the source.   *)
(***************************************************************************)
EXTENDS Integers

Bytes == 0 .. 255

Bits(n) == {i \in 0 .. 15 : (n \div 2^i) % 2 = 1}

\* The byte with the bits S.
Number(S) ==
    LET bit(i) == IF i \in S THEN 2^i ELSE 0
    IN bit(0) + bit(1) + bit(2) + bit(3) + bit(4) + bit(5) + bit(6) + bit(7)

Xor(A, B) == (A \ B) \cup (B \ A)
Shift(A) == {i - 1 : i \in A \ {0}}

Polynomial == {0, 13, 15}    \* 0xA001

\* One turn of the inner loop.
MutCrcBit(reg) ==
    IF 0 \in Shift(reg) THEN Xor(Shift(reg), Polynomial) ELSE Shift(reg)
CrcBit(reg) == IF 0 \in reg THEN Xor(Shift(reg), Polynomial) ELSE Shift(reg)

\* One turn of the outer loop.
CrcByte(reg, byte) ==
    LET after[k \in 0 .. 8] ==
            IF k = 0 THEN Xor(reg, Bits(byte)) ELSE CrcBit(after[k - 1])
    IN after[8]

Registers == SUBSET (0 .. 15)

\* calculate_crc(p[first:end]).  The CASE has TLC, which is lazy, compute a
\* register before it goes on from it.
CalculateCrc(p, first, end) ==
    LET upTo[i \in first .. end] ==
            IF i = first THEN 0 .. 15
            ELSE LET reg == upTo[i - 1] IN
                 CASE reg \in Registers -> CrcByte(reg, p[i - 1])
    IN upTo[end]

\* A 16-bit little-endian field as the bits of its value.
Field16(p, at) == Bits(p[at] + 256 * p[at + 1])

\* verify_crc over p[first:end], the expected value stored at `end`.
VerifyCrc(p, first, end) == CalculateCrc(p, first, end) = Field16(p, end)

\* to_bytes(2, 'little') of the CRC.
CrcBytes(p, first, end) ==
    LET c == CalculateCrc(p, first, end)
    IN <<Number(c \cap 0 .. 7), Number({i - 8 : i \in c \cap 8 .. 15})>>
=============================================================================
