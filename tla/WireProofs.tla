----------------------------- MODULE WireProofs -----------------------------
(***************************************************************************)
(* Computer and meter understand each other, for any address, passwords,   *)
(* times and displays, and any damage to sixteen neighbouring bits.        *)
(***************************************************************************)
EXTENDS Wire, CrcProofs, SequenceTheorems, FiniteSetTheorems

-----------------------------------------------------------------------------
(* Sealed packets.                                                         *)

\* Number builds the byte of a set of bits, and Bits takes it apart.
LEMMA NumberFacts ==
    ASSUME NEW S \in SUBSET (0 .. 7)
    PROVE  Number(S) \in Bytes /\ Bits(Number(S)) = S
<1>. DEFINE bit(i) == IF i \in S THEN 1 ELSE 0
            a == bit(0)
            b == bit(1)
            c == bit(2)
            d == bit(3)
            e == bit(4)
            f == bit(5)
            g == bit(6)
            h == bit(7)
            n == a + 2 * b + 4 * c + 8 * d + 16 * e + 32 * f + 64 * g + 128 * h
<1>1. /\ a \in 0 .. 1 /\ b \in 0 .. 1 /\ c \in 0 .. 1 /\ d \in 0 .. 1
      /\ e \in 0 .. 1 /\ f \in 0 .. 1 /\ g \in 0 .. 1 /\ h \in 0 .. 1
  OBVIOUS
<1>2. Number(S) = n
  BY DEF Number
<1>3. /\ (0 \in S <=> a = 1) /\ (1 \in S <=> b = 1) /\ (2 \in S <=> c = 1)
      /\ (3 \in S <=> d = 1) /\ (4 \in S <=> e = 1) /\ (5 \in S <=> f = 1)
      /\ (6 \in S <=> g = 1) /\ (7 \in S <=> h = 1)
  OBVIOUS
<1>. HIDE DEF bit, a, b, c, d, e, f, g, h
<1>4. n \in Nat /\ n \in 0 .. 255
  BY <1>1
<1>5. /\ n % 2 = a /\ n \div 2 = b + 2 * c + 4 * d + 8 * e + 16 * f + 32 * g + 64 * h
      /\ n \div 4 = c + 2 * d + 4 * e + 8 * f + 16 * g + 32 * h
      /\ n \div 8 = d + 2 * e + 4 * f + 8 * g + 16 * h
      /\ n \div 16 = e + 2 * f + 4 * g + 8 * h
      /\ n \div 32 = f + 2 * g + 4 * h
      /\ n \div 64 = g + 2 * h
      /\ n \div 128 = h
  BY <1>1
<1>. HIDE DEF n
<1>6. /\ (n \div 2) % 2 = b /\ (n \div 4) % 2 = c /\ (n \div 8) % 2 = d
      /\ (n \div 16) % 2 = e /\ (n \div 32) % 2 = f /\ (n \div 64) % 2 = g
      /\ (n \div 128) % 2 = h
  BY <1>1, <1>5
<1>7. /\ (0 \in S <=> 0 \in Bits(n)) /\ (1 \in S <=> 1 \in Bits(n))
      /\ (2 \in S <=> 2 \in Bits(n)) /\ (3 \in S <=> 3 \in Bits(n))
      /\ (4 \in S <=> 4 \in Bits(n)) /\ (5 \in S <=> 5 \in Bits(n))
      /\ (6 \in S <=> 6 \in Bits(n)) /\ (7 \in S <=> 7 \in Bits(n))
  <2>1. /\ (0 \in Bits(n) <=> n % 2 = 1) /\ (1 \in Bits(n) <=> (n \div 2) % 2 = 1)
        /\ (2 \in Bits(n) <=> (n \div 4) % 2 = 1) /\ (3 \in Bits(n) <=> (n \div 8) % 2 = 1)
        /\ (4 \in Bits(n) <=> (n \div 16) % 2 = 1) /\ (5 \in Bits(n) <=> (n \div 32) % 2 = 1)
        /\ (6 \in Bits(n) <=> (n \div 64) % 2 = 1) /\ (7 \in Bits(n) <=> (n \div 128) % 2 = 1)
    BY <1>4, BitAt
  <2>2. n % 2 = a /\ (n \div 128) % 2 = h
    BY <1>5, <1>6
  <2>. QED  BY <1>3, <1>6, <2>1, <2>2
<1>8. n \in Bytes
  BY <1>4 DEF Bytes
<1>9. Bits(n) \subseteq 0 .. 7
  BY <1>8, BitsOfByte
<1>10. \A i \in 0 .. 7 : i \in S <=> i \in Bits(n)
  BY <1>7
<1>11. \A i : i \in S <=> i \in Bits(n)
  BY <1>9, <1>10
<1>12. S = Bits(n)
  BY <1>11
<1>. QED  BY <1>2, <1>8, <1>12

\* The CRC depends on the bytes it is taken over only.
LEMMA CrcLocal ==
    ASSUME NEW p, NEW q, NEW first \in Nat, NEW end \in Nat, first <= end,
           \A i \in first .. end - 1 : p[i] = q[i]
    PROVE  CalculateCrc(p, first, end) = CalculateCrc(q, first, end)
<1>1. PICK u : Computes(u, p, first, end) /\ CalculateCrc(p, first, end) = u[end]
  BY CrcComputes
<1>2. PICK v : Computes(v, q, first, end) /\ CalculateCrc(q, first, end) = v[end]
  BY CrcComputes
<1>. DEFINE S == {n \in Nat : first + n <= end => u[first + n] = v[first + n]}
<1>3. 0 \in S
  <2>1. first + 0 = first /\ u[first] = v[first]
    BY <1>1, <1>2 DEF Computes
  <2>. QED  BY <2>1
<1>4. ASSUME NEW n \in Nat, n \in S PROVE n + 1 \in S
  <2>. SUFFICES ASSUME first + (n + 1) <= end
                PROVE  u[first + (n + 1)] = v[first + (n + 1)]
    OBVIOUS
  <2>. DEFINE i == first + (n + 1)
  <2>1. i \in first + 1 .. end /\ i - 1 = first + n /\ i - 1 \in first .. end - 1
    OBVIOUS
  <2>2. u[i - 1] = v[i - 1] /\ p[i - 1] = q[i - 1]
    BY <1>4, <2>1
  <2>. HIDE DEF i
  <2>3. u[i] = CrcByte(u[i - 1], p[i - 1]) /\ v[i] = CrcByte(v[i - 1], q[i - 1])
    BY <1>1, <1>2, <2>1 DEF Computes
  <2>. QED  BY <2>2, <2>3 DEF i
<1>. HIDE DEF S
<1>5. end - first \in S /\ first + (end - first) = end
  <2>1. end - first \in Nat /\ first + (end - first) = end
    OBVIOUS
  <2>. QED  BY <1>3, <1>4, <2>1, Induction
<1>6. u[end] = v[end]
  BY <1>5 DEF S
<1>. QED  BY <1>1, <1>2, <1>6

\* A CRC is a register of sixteen bits.
LEMMA CrcType ==
    ASSUME NEW p, NEW first \in Nat, NEW end \in Nat, first <= end
    PROVE  CalculateCrc(p, first, end) \in Registers
<1>1. PICK u : Computes(u, p, first, end) /\ CalculateCrc(p, first, end) = u[end]
  BY CrcComputes
<1>. QED  BY <1>1 DEF Computes

\* The two bytes of a CRC, little-endian, give it back.
LEMMA CrcField ==
    ASSUME NEW c \in Registers
    PROVE  LET a == Number(c \cap 0 .. 7)
               b == Number({i - 8 : i \in c \cap 8 .. 15})
           IN a \in Bytes /\ b \in Bytes /\ Bits(a + 256 * b) = c
<1>. DEFINE A == c \cap 0 .. 7
            B == {i - 8 : i \in c \cap 8 .. 15}
            Up == {i + 8 : i \in B}
<1>1. A \in SUBSET (0 .. 7) /\ B \in SUBSET (0 .. 7)
  OBVIOUS
<1>2. A \cup Up = c
  <2>1. \A x : x \in Up <=> x \in c \cap 8 .. 15
    <3>1. \A x : x \in B <=> \E i \in c : i \in 8 .. 15 /\ x = i - 8
      OBVIOUS
    <3>2. \A i \in c : i \in 8 .. 15 => (i - 8) + 8 = i
      OBVIOUS
    <3>. HIDE DEF B
    <3>. QED  BY <3>1, <3>2
  <2>2. \A x \in c : x \in 0 .. 7 \/ x \in 8 .. 15
    BY DEF Registers
  <2>. HIDE DEF Up
  <2>. QED  BY <2>1, <2>2
<1>. HIDE DEF A, B, Up
<1>3. /\ Number(A) \in Bytes /\ Bits(Number(A)) = A
      /\ Number(B) \in Bytes /\ Bits(Number(B)) = B
  BY <1>1, NumberFacts
<1>4. Bits(Number(A) + 256 * Number(B)) = A \cup Up
  BY <1>3, BitsOfField DEF Up
<1>. QED  BY <1>2, <1>3, <1>4 DEF A, B

\* s is a row of n bytes.
Row(s, n) == s \in Seq(Bytes) /\ Len(s) = n

\* Rows are functions from 1 to their length.
LEMMA RowFunction ==
    ASSUME NEW n \in Nat, NEW s
    PROVE  Row(s, n) <=> s \in [1 .. n -> Bytes]
<1>1. ASSUME Row(s, n) PROVE s \in [1 .. n -> Bytes]
  BY <1>1, LenProperties DEF Row
<1>2. ASSUME s \in [1 .. n -> Bytes] PROVE Row(s, n)
  <2>1. s \in Seq(Bytes)
    <3>1. s \in UNION {[1 .. k -> Bytes] : k \in Nat}
      BY <1>2
    <3>. QED  BY <3>1, SeqDef, Zenon
  <2>2. Len(s) \in Nat /\ DOMAIN s = 1 .. Len(s)
    BY <2>1, LenProperties
  <2>3. DOMAIN s = 1 .. n
    BY <1>2
  <2>4. \A k \in Nat : 1 .. k = 1 .. n => k = n
    <3>. SUFFICES ASSUME NEW k \in Nat, 1 .. k = 1 .. n, k # n PROVE FALSE
      OBVIOUS
    <3>1. k \in 1 .. k <=> k \in 1 .. n
      OBVIOUS
    <3>2. n \in 1 .. k <=> n \in 1 .. n
      OBVIOUS
    <3>. QED  BY <3>1, <3>2
  <2>. QED  BY <2>1, <2>2, <2>3, <2>4 DEF Row
<1>. QED  BY <1>1, <1>2

\* p is s sealed.
Sealed(p, s, n) ==
    /\ p \in [0 .. n + 3 -> Bytes]
    /\ \A i \in 0 .. n - 1 : p[i] = s[i + 1]
    /\ VerifyCrc(p, 2, n)

\* A sealed packet begins with its row and its CRC is right.
LEMMA SealFacts ==
    ASSUME NEW n \in Nat, 2 <= n, NEW s, Row(s, n)
    PROVE  Sealed(Seal(s), s, n)
<1>. DEFINE c == CalculateCrc(Packet(s), 2, n)
            a == Number(c \cap 0 .. 7)
            b == Number({i - 8 : i \in c \cap 8 .. 15})
            t == s \o <<a, b>> \o <<255, 3>>
            p == Seal(s)
<1>1. n \in Nat /\ 2 <= n /\ s \in Seq(Bytes) /\ Len(s) = n
  BY DEF Row
<1>2. c \in Registers
  BY <1>1, CrcType
<1>3. a \in Bytes /\ b \in Bytes /\ Bits(a + 256 * b) = c
  <2>. HIDE DEF c
  <2>. QED  BY <1>2, CrcField
<1>4. p = Packet(t)
  BY <1>1 DEF Seal, CrcBytes
<1>. HIDE DEF c, a, b
<1>5. /\ t \in Seq(Bytes) /\ Len(t) = n + 4
      /\ \A i \in 1 .. n : t[i] = s[i]
      /\ t[n + 1] = a /\ t[n + 2] = b
  <2>1. <<a, b>> \in Seq(Bytes) /\ <<255, 3>> \in Seq(Bytes)
    BY <1>3 DEF Bytes
  <2>. DEFINE w == s \o <<a, b>>
  <2>2. /\ w \in Seq(Bytes) /\ Len(w) = n + 2
        /\ \A i \in 1 .. n : w[i] = s[i]
        /\ w[n + 1] = a /\ w[n + 2] = b
    BY <1>1, <2>1
  <2>. HIDE DEF w
  <2>3. /\ w \o <<255, 3>> \in Seq(Bytes) /\ Len(w \o <<255, 3>>) = n + 4
        /\ \A i \in 1 .. n + 2 : (w \o <<255, 3>>)[i] = w[i]
    BY <1>1, <2>1, <2>2
  <2>. QED  BY <1>1, <2>2, <2>3 DEF w
<1>. HIDE DEF t, p
<1>6. /\ p \in [0 .. n + 3 -> Bytes]
      /\ \A i \in 0 .. n - 1 : p[i] = s[i + 1]
      /\ p[n] = a /\ p[n + 1] = b
  BY <1>1, <1>4, <1>5 DEF Packet
<1>7. CalculateCrc(p, 2, n) = c
  <2>0. Packet(s) = [i \in 0 .. n - 1 |-> s[i + 1]]
    BY <1>1 DEF Packet
  <2>1. \A i \in 2 .. n - 1 : p[i] = Packet(s)[i]
    BY <1>1, <1>6, <2>0
  <2>2. 2 \in Nat
    OBVIOUS
  <2>. QED  BY <2>1, <2>2, CrcLocal DEF c
<1>8. VerifyCrc(p, 2, n)
  BY <1>3, <1>6, <1>7 DEF VerifyCrc, Field16
<1>. QED  BY <1>6, <1>8 DEF Sealed, p

-----------------------------------------------------------------------------
(* Damaged packets.                                                        *)

\* q is p with the bits at the positions in D flipped.
Flip(p, q, D, n) ==
    /\ p \in [0 .. n - 1 -> Bytes] /\ q \in [0 .. n - 1 -> Bytes]
    /\ \A i \in 0 .. n - 1 : /\ Xor(Bits(p[i]), Bits(q[i])) = Hit(D, i)
                             /\ Hit(D, i) = {} => q[i] = p[i]

Burst(D) == \E s \in Nat : D \subseteq s .. s + 15

\* What the link does to a packet flips the bits of the damage, and no others.
LEMMA FlippedFlips ==
    ASSUME NEW n \in Nat, NEW p \in [0 .. n - 1 -> Bytes], NEW D \in SUBSET Nat
    PROVE  Flip(p, Flipped(p, D), D, n)
<1>. DEFINE q == Flipped(p, D)
<1>1. \A i \in 0 .. n - 1 :
         q[i] = IF Hit(D, i) = {} THEN p[i] ELSE Number(Xor(Bits(p[i]), Hit(D, i)))
  BY DEF Flipped, Hit
<1>2. DOMAIN q = 0 .. n - 1 /\ q = [i \in 0 .. n - 1 |-> q[i]]
  BY DEF Flipped
<1>. HIDE DEF q
<1>3. ASSUME NEW i \in 0 .. n - 1
      PROVE  /\ q[i] \in Bytes /\ Xor(Bits(p[i]), Bits(q[i])) = Hit(D, i)
             /\ Hit(D, i) = {} => q[i] = p[i]
  <2>1. p[i] \in Bytes /\ Bits(p[i]) \in SUBSET (0 .. 7)
    BY BitsOfByte
  <2>2. Hit(D, i) \in SUBSET (0 .. 7)
    <3>1. \A j \in D : j \in Nat
      OBVIOUS
    <3>. QED  BY <3>1 DEF Hit
  <2>3. CASE Hit(D, i) = {}
    BY <1>1, <2>1, <2>3 DEF Xor
  <2>4. CASE Hit(D, i) # {}
    <3>1. Xor(Bits(p[i]), Hit(D, i)) \in SUBSET (0 .. 7)
      BY <2>1, <2>2 DEF Xor
    <3>2. q[i] \in Bytes /\ Bits(q[i]) = Xor(Bits(p[i]), Hit(D, i))
      BY <1>1, <2>4, <3>1, NumberFacts
    <3>. QED  BY <2>4, <3>2 DEF Xor
  <2>. QED  BY <2>3, <2>4
<1>4. q \in [0 .. n - 1 -> Bytes]
  BY <1>2, <1>3
<1>. QED  BY <1>3, <1>4 DEF Flip, q

\* The flipped bits of the packet that begins at byte a.
From(D, a) == {j - 8 * a : j \in {x \in D : x >= 8 * a}}

\* What that does to m bytes of p, from byte a.
FlippedPart(p, q, D, a, m) ==
    /\ Flip(Slice(p, a, a + m), Slice(q, a, a + m), From(D, a), m)
    /\ From(D, a) \in SUBSET Nat
    /\ Burst(D) => Burst(From(D, a))
    /\ \A k \in Nat : D \cap (8 * a .. 8 * a + k) = {} => From(D, a) \cap (0 .. k) = {}

\* A packet inside a damaged one is damaged by its own part of the burst.
LEMMA FlipSlice ==
    ASSUME NEW n \in Nat, NEW p, NEW q, NEW D \in SUBSET Nat, Flip(p, q, D, n),
           NEW a \in Nat, NEW m \in Nat, a + m <= n
    PROVE  FlippedPart(p, q, D, a, m)
<1>. DEFINE pp == Slice(p, a, a + m)
            qq == Slice(q, a, a + m)
            E == From(D, a)
<1>1. \A x : x \in E <=> \E j \in D : j >= 8 * a /\ x = j - 8 * a
  BY DEF From
<1>. HIDE DEF E
<1>2. ASSUME NEW i \in 0 .. m - 1 PROVE Hit(E, i) = Hit(D, a + i)
  <2>1. \A x : x \in Hit(E, i) <=> \E y \in E : y >= 8 * i /\ y <= 8 * i + 7 /\ x = y - 8 * i
    <3>1. E \subseteq Int
      BY <1>1
    <3>. QED  BY <3>1 DEF Hit
  <2>2. \A x : x \in Hit(D, a + i) <=>
               \E j \in D : j >= 8 * (a + i) /\ j <= 8 * (a + i) + 7 /\ x = j - 8 * (a + i)
    BY DEF Hit
  <2>3. \A x : x \in Hit(E, i) <=>
               \E j \in D : /\ j >= 8 * a /\ j - 8 * a >= 8 * i /\ j - 8 * a <= 8 * i + 7
                            /\ x = (j - 8 * a) - 8 * i
    BY <1>1, <2>1
  <2>. DEFINE Here(j)  == /\ j >= 8 * a /\ j - 8 * a >= 8 * i /\ j - 8 * a <= 8 * i + 7
              There(j) == j >= 8 * (a + i) /\ j <= 8 * (a + i) + 7
  <2>4. \A j \in D : (Here(j) <=> There(j)) /\ (j - 8 * a) - 8 * i = j - 8 * (a + i)
    OBVIOUS
  <2>6. \A x : x \in Hit(E, i) <=> \E j \in D : Here(j) /\ x = (j - 8 * a) - 8 * i
    BY <2>3
  <2>7. \A x : x \in Hit(D, a + i) <=> \E j \in D : There(j) /\ x = j - 8 * (a + i)
    BY <2>2
  <2>. HIDE DEF Here, There
  <2>5. \A x : x \in Hit(E, i) <=> x \in Hit(D, a + i)
    BY <2>4, <2>6, <2>7
  <2>. QED  BY <2>5
<1>3. Flip(pp, qq, E, m)
  <2>1. \A i \in 0 .. m - 1 : a + i \in 0 .. n - 1
    OBVIOUS
  <2>2. pp = [i \in 0 .. m - 1 |-> p[a + i]] /\ qq = [i \in 0 .. m - 1 |-> q[a + i]]
    BY DEF Slice
  <2>. HIDE DEF pp, qq
  <2>3. pp \in [0 .. m - 1 -> Bytes] /\ qq \in [0 .. m - 1 -> Bytes]
    BY <2>1, <2>2 DEF Flip
  <2>4. ASSUME NEW i \in 0 .. m - 1
        PROVE  Xor(Bits(pp[i]), Bits(qq[i])) = Hit(E, i) /\ (Hit(E, i) = {} => qq[i] = pp[i])
    BY <1>2, <2>1, <2>2 DEF Flip
  <2>. QED  BY <2>3, <2>4 DEF Flip
<1>4. E \in SUBSET Nat
  BY <1>1
<1>5. ASSUME Burst(D) PROVE Burst(E)
  <2>1. PICK s \in Nat : D \subseteq s .. s + 15
    BY <1>5 DEF Burst
  <2>2. CASE s >= 8 * a
    <3>1. s - 8 * a \in Nat /\ E \subseteq s - 8 * a .. (s - 8 * a) + 15
      BY <1>1, <2>1, <2>2
    <3>. QED  BY <3>1 DEF Burst
  <2>3. CASE s < 8 * a
    <3>1. E \subseteq 0 .. 0 + 15
      BY <1>1, <2>1, <2>3
    <3>. QED  BY <3>1 DEF Burst
  <2>. QED  BY <2>2, <2>3
<1>6. ASSUME NEW k \in Nat, D \cap (8 * a .. 8 * a + k) = {}
      PROVE  E \cap (0 .. k) = {}
  BY <1>1, <1>6
<1>. QED  BY <1>3, <1>4, <1>5, <1>6 DEF FlippedPart, E, pp, qq

\* A CRC does not match after a burst hit what it covers, or itself.
LEMMA BurstRefused ==
    ASSUME NEW n \in Nat, NEW p, NEW q, NEW D \in SUBSET Nat, Flip(p, q, D, n),
           Burst(D), NEW c \in Nat, 2 <= c, c + 2 <= n,
           VerifyCrc(p, 2, c), D \cap (16 .. 8 * c + 15) # {}
    PROVE  ~VerifyCrc(q, 2, c)
<1>. DEFINE E == D \cap (8 * 2 .. 8 * c + 15)
<1>1. E \in SUBSET (8 * 2 .. 8 * c + 15) /\ E # {}
  OBVIOUS
<1>2. PICK s \in Nat : E \subseteq s .. s + 15
  BY DEF Burst
<1>3. ASSUME NEW i \in 2 .. c + 1
      PROVE  /\ Xor(Bits(p[i]), Bits(q[i])) = Hit(E, i)
             /\ p[i] \in Bytes /\ q[i] \in Bytes
  <2>1. i \in 0 .. n - 1
    OBVIOUS
  <2>2. Hit(E, i) = Hit(D, i)
    <3>1. E \cap (8 * i .. 8 * i + 7) = D \cap (8 * i .. 8 * i + 7)
      <4>1. \A j \in 8 * i .. 8 * i + 7 : j \in 8 * 2 .. 8 * c + 15
        OBVIOUS
      <4>. QED  BY <4>1
    <3>. HIDE DEF E
    <3>. QED  BY <3>1 DEF Hit
  <2>. QED  BY <2>1, <2>2 DEF Flip
<1>. HIDE DEF E
<1>4. 2 \in Nat /\ 2 <= c
  OBVIOUS
<1>. QED  BY <1>1, <1>2, <1>3, <1>4, BurstsCaught

\* No bit of the bytes a to b is among D.
Clear(D, a, b) == \A j \in D : j < 8 * a \/ j > 8 * b + 7

Same(p, q, a, b) == \A i \in a .. b : q[i] = p[i]

\* Bytes without a flipped bit are as they were sent.
LEMMA Unhit ==
    ASSUME NEW n \in Nat, NEW p, NEW q, NEW D \in SUBSET Nat, Flip(p, q, D, n),
           NEW a \in Nat, NEW b \in Nat, b < n,
           Clear(D, a, b)
    PROVE  Same(p, q, a, b)
<1>. SUFFICES ASSUME NEW i \in a .. b PROVE q[i] = p[i]
  BY DEF Same
<1>1. i \in 0 .. n - 1
  OBVIOUS
<1>2. \A j \in D : j < 8 * i \/ j > 8 * i + 7
  BY DEF Clear
<1>3. Hit(D, i) = {}
  BY <1>2 DEF Hit
<1>. QED  BY <1>1, <1>3 DEF Flip

\* A byte with a flipped bit is not.
LEMMA Hurt ==
    ASSUME NEW n \in Nat, NEW p, NEW q, NEW D \in SUBSET Nat, Flip(p, q, D, n),
           NEW i \in 0 .. n - 1, D \cap (8 * i .. 8 * i + 7) # {}
    PROVE  q[i] # p[i]
<1>1. Hit(D, i) # {}
  BY DEF Hit
<1>2. Xor(Bits(p[i]), Bits(q[i])) = Hit(D, i)
  BY DEF Flip
<1>. QED  BY <1>1, <1>2 DEF Xor

\* The layouts as numbers.
LEMMA Layouts ==
    ASSUME NEW kind \in DOMAIN Layout
    PROVE  LET l == Layout[kind] IN
           /\ l.length \in Nat /\ l.crc \in Nat /\ 2 <= l.crc /\ l.length = l.crc + 4
           /\ l.crc \in {20, 28} /\ (kind = "info" => l.crc = 20)
           /\ (kind # "info" => l.crc = 28)
           /\ l.head \in {1, 2} /\ (kind = "reading" <=> l.head = 2)
BY DEF Layout

\* A burst makes the CRC wrong, or damages the head, or hits nothing that is used.
LEMMA Noticed ==
    ASSUME NEW c \in Nat, 2 <= c, NEW n \in Nat, n = c + 4,
           NEW p, NEW q, NEW D \in SUBSET Nat, Burst(D), Flip(p, q, D, n),
           VerifyCrc(p, 2, c)
    PROVE  /\ \/ ~VerifyCrc(q, 2, c)
              \/ q[0] # p[0] \/ q[1] # p[1]
              \/ Same(p, q, 0, c + 1)
           /\ D \cap (0 .. 8 * n - 1) = {} => q = p
<1>1. n \in Nat /\ c \in Nat /\ 2 <= c /\ n = c + 4
  OBVIOUS
<1>4. Flip(p, q, D, n)
  OBVIOUS
<1>5. CASE D \cap (16 .. 8 * c + 15) # {}
  <2>1. ~VerifyCrc(q, 2, c)
    <3>1. c + 2 <= n
      OBVIOUS
    <3>. QED  BY <1>5, <3>1, BurstRefused
  <2>2. D \cap (0 .. 8 * n - 1) # {}
    BY <1>1, <1>5
  <2>. QED  BY <2>1, <2>2
<1>6. CASE D \cap (16 .. 8 * c + 15) = {}
  <2>1. \A i \in 2 .. c + 1 : q[i] = p[i]
    <3>. DEFINE a == 2
                b == c + 1
    <3>1. a \in Nat /\ b \in Nat /\ b < n /\ Clear(D, a, b)
      BY <1>1, <1>6 DEF Clear
    <3>. HIDE DEF a, b
    <3>2. Same(p, q, a, b)
      BY <1>1, <1>4, <3>1, Unhit
    <3>. QED  BY <3>2 DEF Same, a, b
  <2>2. CASE D \cap (0 .. 15) # {}
    <3>1. q[0] # p[0] \/ q[1] # p[1]
      <4>1. D \cap (8 * 0 .. 8 * 0 + 7) # {} \/ D \cap (8 * 1 .. 8 * 1 + 7) # {}
        BY <2>2
      <4>2. 0 \in 0 .. n - 1 /\ 1 \in 0 .. n - 1
        BY <1>1
      <4>. QED  BY <1>1, <1>4, <4>1, <4>2, Hurt
    <3>2. D \cap (0 .. 8 * n - 1) # {}
      BY <1>1, <2>2
    <3>. QED  BY <3>1, <3>2
  <2>3. CASE D \cap (0 .. 15) = {}
    <3>1. \A i \in 0 .. 1 : q[i] = p[i]
      <4>. DEFINE a == 0
                  b == 1
      <4>1. a \in Nat /\ b \in Nat /\ b < n /\ Clear(D, a, b)
        BY <1>1, <2>3 DEF Clear
      <4>. HIDE DEF a, b
      <4>2. Same(p, q, a, b)
        BY <1>1, <1>4, <4>1, Unhit
      <4>. QED  BY <4>2 DEF Same, a, b
    <3>2. \A i \in 0 .. c + 1 : q[i] = p[i]
      <4>1. \A i \in 0 .. c + 1 : i \in 0 .. 1 \/ i \in 2 .. c + 1
        BY <1>1
      <4>. QED  BY <2>1, <3>1, <4>1
    <3>3. ASSUME D \cap (0 .. 8 * n - 1) = {} PROVE q = p
      <4>. DEFINE a == 0
                  b == n - 1
      <4>1. a \in Nat /\ b \in Nat /\ b < n /\ Clear(D, a, b)
        BY <1>1, <3>3 DEF Clear
      <4>. HIDE DEF a, b
      <4>2. Same(p, q, a, b)
        BY <1>1, <1>4, <4>1, Unhit
      <4>3. \A i \in 0 .. n - 1 : q[i] = p[i]
        BY <4>2 DEF Same, a, b
      <4>4. p = [i \in 0 .. n - 1 |-> p[i]] /\ q = [i \in 0 .. n - 1 |-> q[i]]
        BY <1>4 DEF Flip
      <4>. QED  BY <4>3, <4>4
    <3>. QED  BY <3>2, <3>3 DEF Same
  <2>. QED  BY <2>2, <2>3
<1>. QED  BY <1>5, <1>6

-----------------------------------------------------------------------------
(* What the parsers read.                                                  *)

Alike(p, q, kind) ==
    /\ DOMAIN p = 0 .. Layout[kind].length - 1 /\ DOMAIN q = 0 .. Layout[kind].length - 1
    /\ \A i \in 0 .. Layout[kind].crc + 1 : q[i] = p[i]

\* Packets that differ in their last two bytes only pass the same checks,
LEMMA AlikeChecks ==
    ASSUME NEW kind \in DOMAIN Layout, NEW p, NEW q, Alike(p, q, kind)
    PROVE  (WellFormed(q, kind) <=> WellFormed(p, kind)) /\ (CrcOk(q, kind) <=> CrcOk(p, kind))
<1>. DEFINE c == Layout[kind].crc
<1>1. c \in {20, 28} /\ c \in Nat /\ \A i \in 0 .. c + 1 : q[i] = p[i]
  BY Layouts DEF Alike
<1>2. WellFormed(q, kind) <=> WellFormed(p, kind)
  <2>1. q[0] = p[0] /\ q[1] = p[1] /\ q[2] = p[2] /\ q[3] = p[3] /\ q[4] = p[4]
    BY <1>1
  <2>. QED  BY <2>1 DEF Alike, WellFormed
<1>3. CrcOk(q, kind) <=> CrcOk(p, kind)
  <2>1. /\ CrcOk(p, kind) <=> CalculateCrc(p, 2, c) = Field16(p, c)
        /\ CrcOk(q, kind) <=> CalculateCrc(q, 2, c) = Field16(q, c)
    BY DEF CrcOk, VerifyCrc
  <2>. HIDE DEF c
  <2>2. CalculateCrc(p, 2, c) = CalculateCrc(q, 2, c)
    <3>1. 2 \in Nat /\ 2 <= c /\ \A i \in 2 .. c - 1 : p[i] = q[i]
      BY <1>1
    <3>. QED  BY <1>1, <3>1, CrcLocal
  <2>3. Field16(q, c) = Field16(p, c)
    BY <1>1 DEF Field16
  <2>. QED  BY <2>1, <2>2, <2>3
<1>. QED  BY <1>2, <1>3

\* so they parse to the same response,
LEMMA AlikeResponses ==
    ASSUME NEW p, NEW q, Alike(p, q, "response")
    PROVE  ParseCommandResponse(q) = ParseCommandResponse(p)
<1>1. "response" \in DOMAIN Layout /\ Layout["response"].crc + 1 = 29
  BY DEF Layout
<1>2. \A i \in 0 .. 29 : q[i] = p[i]
  <2>1. \A i \in 0 .. Layout["response"].crc + 1 : q[i] = p[i]
    BY DEF Alike
  <2>. QED  BY <1>1, <2>1
<1>3. Slice(q, 14, 28) = Slice(p, 14, 28)
  BY <1>2 DEF Slice
<1>4. (WellFormed(q, "response") <=> WellFormed(p, "response"))
      /\ (CrcOk(q, "response") <=> CrcOk(p, "response"))
  BY <1>1, AlikeChecks
<1>5. CrcOk(q, "response") = CrcOk(p, "response")
  BY <1>4 DEF CrcOk, VerifyCrc
<1>6. q[11] = p[11] /\ q[12] = p[12]
  BY <1>2
<1>. QED  BY <1>3, <1>4, <1>5, <1>6 DEF ParseCommandResponse

\* the same info packet,
LEMMA AlikeInfos ==
    ASSUME NEW p, NEW q, Alike(p, q, "info")
    PROVE  ParseInfoPacket(q) = ParseInfoPacket(p)
<1>1. "info" \in DOMAIN Layout /\ Layout["info"].crc = 20
  BY DEF Layout
<1>2. \A i \in 0 .. 21 : q[i] = p[i]
  BY <1>1 DEF Alike
<1>3. [i \in 1 .. 6 |-> q[12 - i]] = [i \in 1 .. 6 |-> p[12 - i]]
  <2>1. \A i \in 1 .. 6 : 12 - i \in 0 .. 21
    OBVIOUS
  <2>. QED  BY <1>2, <2>1
<1>4. (WellFormed(q, "info") <=> WellFormed(p, "info"))
      /\ (CrcOk(q, "info") <=> CrcOk(p, "info"))
  BY <1>1, AlikeChecks
<1>5. CrcOk(q, "info") = CrcOk(p, "info")
  BY <1>4 DEF CrcOk, VerifyCrc
<1>6. q[5] = p[5] /\ q[12] = p[12] /\ q[13] = p[13] /\ q[16] = p[16] /\ q[19] = p[19]
  BY <1>2
<1>. QED  BY <1>3, <1>4, <1>5, <1>6 DEF ParseInfoPacket

\* and the same reading.
LEMMA AlikeReadings ==
    ASSUME NEW p, NEW q, Alike(p, q, "reading")
    PROVE  ParseReadingPacket(q) = ParseReadingPacket(p)
<1>1. "reading" \in DOMAIN Layout /\ Layout["reading"].crc + 1 = 29
  BY DEF Layout
<1>2. \A i \in 0 .. 29 : q[i] = p[i]
  <2>1. \A i \in 0 .. Layout["reading"].crc + 1 : q[i] = p[i]
    BY DEF Alike
  <2>. QED  BY <1>1, <2>1
<1>3. Slice(q, 4, 7) = Slice(p, 4, 7)
  BY <1>2 DEF Slice
<1>4. (WellFormed(q, "reading") <=> WellFormed(p, "reading"))
      /\ (CrcOk(q, "reading") <=> CrcOk(p, "reading"))
  BY <1>1, AlikeChecks
<1>5. CrcOk(q, "reading") = CrcOk(p, "reading")
  BY <1>4 DEF CrcOk, VerifyCrc
<1>6. /\ q[7] = p[7] /\ q[8] = p[8] /\ q[9] = p[9] /\ q[10] = p[10] /\ q[11] = p[11]
      /\ q[12] = p[12] /\ q[13] = p[13] /\ q[14] = p[14] /\ q[15] = p[15]
      /\ q[17] = p[17] /\ q[18] = p[18] /\ q[20] = p[20] /\ q[21] = p[21]
      /\ q[22] = p[22] /\ q[23] = p[23] /\ q[24] = p[24] /\ q[25] = p[25]
      /\ q[26] = p[26] /\ q[27] = p[27]
  BY <1>2
<1>7. ParseRtc(q) = ParseRtc(p) /\ Flags(q) = Flags(p) /\ Mantissa(q) = Mantissa(p)
  BY <1>6 DEF ParseRtc, Flags, Mantissa
<1>. QED  BY <1>3, <1>4, <1>5, <1>6, <1>7 DEF ParseReadingPacket

-----------------------------------------------------------------------------
(* Commands and responses.                                                 *)

Joins(u, s, t) == u = s \o t

\* Rows end to end.
LEMMA RowConcat ==
    ASSUME NEW m \in Nat, NEW n \in Nat, NEW s, NEW t, NEW u,
           Row(s, m), Row(t, n), Joins(u, s, t)
    PROVE  /\ Row(u, m + n)
           /\ \A i \in 1 .. m : u[i] = s[i]
           /\ \A i \in 1 .. n : u[m + i] = t[i]
<1>1. s \in Seq(Bytes) /\ Len(s) = m /\ t \in Seq(Bytes) /\ Len(t) = n
  BY DEF Row
<1>2. /\ u \in Seq(Bytes) /\ Len(u) = m + n
      /\ \A i \in 1 .. m : u[i] = s[i]
      /\ \A i \in 1 .. n : u[m + i] = t[i]
  <2>1. u = s \o t
    BY DEF Joins
  <2>2. /\ s \o t \in Seq(Bytes) /\ Len(s \o t) = Len(s) + Len(t)
        /\ \A i \in 1 .. Len(s) : (s \o t)[i] = s[i]
        /\ \A i \in 1 .. Len(t) : (s \o t)[Len(s) + i] = t[i]
    BY <1>1
  <2>. QED  BY <1>1, <2>1, <2>2
<1>. QED  BY <1>2 DEF Row

CommandBytes(kind, id, args) ==
    <<255, 1, 32, kind, 1>> \o Reverse(Address) \o LittleEndian(id) \o <<1>> \o args

\* The address is in reverse on the wire.
LEMMA ReversedAddress ==
    Row(Reverse(Address), 6) /\ \A i \in 1 .. 6 : Reverse(Address)[i] = Address[7 - i]
<1>1. Row(Address, 6)
  BY AddressAssumption, RowFunction
<1>2. Len(Address) = 6 /\ Address \in [1 .. 6 -> Bytes]
  BY <1>1, AddressAssumption DEF Row
<1>3. Reverse(Address) = [i \in 1 .. 6 |-> Address[(6 - i) + 1]]
  BY <1>2 DEF Reverse
<1>4. \A i \in 1 .. 6 : (6 - i) + 1 = 7 - i /\ 7 - i \in 1 .. 6 /\ (6 - i) + 1 \in 1 .. 6
  OBVIOUS
<1>5. Reverse(Address) \in [1 .. 6 -> Bytes]
  BY <1>2, <1>3, <1>4
<1>6. \A i \in 1 .. 6 : Reverse(Address)[i] = Address[7 - i]
  BY <1>3, <1>4
<1>. QED  BY <1>5, <1>6, RowFunction

\* Fourteen bytes of arguments, zeroes at their end.
LEMMA PaddedRow ==
    ASSUME NEW n \in Nat, n <= 14, NEW args, Row(args, n)
    PROVE  /\ Row(Padded(args), 14)
           /\ \A i \in 1 .. n : Padded(args)[i] = args[i]
           /\ n = 14 => Padded(args) = args
<1>. DEFINE k == 14 - n
            z == [i \in 1 .. k |-> 0]
            u == Padded(args)
<1>1. k \in Nat /\ n \in Nat /\ n + k = 14 /\ Len(args) = n
  BY DEF Row
<1>2. z \in [1 .. k -> Bytes]
  BY DEF Bytes
<1>3. Joins(u, args, z)
  BY <1>1 DEF Padded, Joins
<1>. HIDE DEF z, k, u
<1>4. Row(z, k)
  BY <1>1, <1>2, RowFunction
<1>5. Row(u, n + k) /\ \A i \in 1 .. n : u[i] = args[i]
  BY <1>1, <1>3, <1>4, RowConcat
<1>6. ASSUME n = 14 PROVE u = args
  <2>1. u \in [1 .. n -> Bytes] /\ args \in [1 .. n -> Bytes]
    BY <1>1, <1>5, <1>6, RowFunction
  <2>. QED  BY <1>5, <2>1
<1>. QED  BY <1>1, <1>5, <1>6 DEF u

\* The bytes of a command or a response up to the CRC,
LEMMA CommandLayout ==
    ASSUME NEW kind \in Bytes, NEW id \in Nat, id \div 256 \in Bytes, NEW args, Row(args, 14)
    PROVE  LET s == CommandBytes(kind, id, args) IN
           /\ Row(s, 28)
           /\ s[1] = 255 /\ s[2] = 1 /\ s[3] = 32 /\ s[4] = kind /\ s[5] = 1
           /\ \A i \in 1 .. 6 : s[5 + i] = Address[7 - i]
           /\ s[12] = id % 256 /\ s[13] = id \div 256 /\ s[14] = 1
           /\ \A i \in 1 .. 14 : s[14 + i] = args[i]
<1>. DEFINE a == <<255, 1, 32, kind, 1>>
            b == Reverse(Address)
            c == LittleEndian(id)
            d == <<1>>
            s1 == a \o b
            s2 == s1 \o c
            s3 == s2 \o d
            s4 == s3 \o args
<1>1. /\ Row(a, 5) /\ a[1] = 255 /\ a[2] = 1 /\ a[3] = 32
      /\ a[4] = kind /\ a[5] = 1
  BY DEF Bytes, Row
<1>2. Row(b, 6) /\ \A i \in 1 .. 6 : b[i] = Address[7 - i]
  BY ReversedAddress
<1>3. Row(c, 2) /\ c[1] = id % 256 /\ c[2] = id \div 256
  BY DEF LittleEndian, Bytes, Row
<1>4. Row(d, 1) /\ d[1] = 1
  BY DEF Bytes, Row
<1>5. Joins(s1, a, b) /\ Joins(s2, s1, c) /\ Joins(s3, s2, d) /\ Joins(s4, s3, args)
  BY DEF Joins
<1>10. s4 = CommandBytes(kind, id, args)
  BY DEF CommandBytes
<1>. HIDE DEF a, b, c, d, s1, s2, s3, s4
<1>6. /\ Row(s1, 11)
      /\ \A i \in 1 .. 5 : s1[i] = a[i]
      /\ \A i \in 1 .. 6 : s1[5 + i] = b[i]
  BY <1>1, <1>2, <1>5, RowConcat
<1>7. /\ Row(s2, 13)
      /\ \A i \in 1 .. 11 : s2[i] = s1[i]
      /\ \A i \in 1 .. 2 : s2[11 + i] = c[i]
  BY <1>3, <1>5, <1>6, RowConcat
<1>8. /\ Row(s3, 14)
      /\ \A i \in 1 .. 13 : s3[i] = s2[i]
      /\ \A i \in 1 .. 1 : s3[13 + i] = d[i]
  BY <1>4, <1>5, <1>7, RowConcat
<1>9. /\ Row(s4, 28)
      /\ \A i \in 1 .. 14 : s4[i] = s3[i]
      /\ \A i \in 1 .. 14 : s4[14 + i] = args[i]
  BY <1>5, <1>8, RowConcat
<1>11. \A i \in 1 .. 6 : s4[5 + i] = Address[7 - i]
  <2>1. \A i \in 1 .. 6 : 5 + i \in 1 .. 11 /\ 5 + i \in 1 .. 13 /\ 5 + i \in 1 .. 14
    OBVIOUS
  <2>. QED  BY <1>2, <1>6, <1>7, <1>8, <1>9, <2>1
<1>12. s4[1] = 255 /\ s4[2] = 1 /\ s4[3] = 32 /\ s4[4] = kind /\ s4[5] = 1
  BY <1>1, <1>6, <1>7, <1>8, <1>9
<1>13. s4[12] = id % 256 /\ s4[13] = id \div 256 /\ s4[14] = 1
  <2>1. s2[11 + 1] = c[1] /\ s2[11 + 2] = c[2] /\ s3[13 + 1] = d[1]
    BY <1>7, <1>8
  <2>. QED  BY <1>3, <1>4, <1>8, <1>9, <2>1
<1>. QED  BY <1>9, <1>10, <1>11, <1>12, <1>13

\* and those of the whole packet.
LEMMA CommandPacket ==
    ASSUME NEW kind \in Bytes, NEW id \in Nat, id \div 256 \in Bytes, NEW args, Row(args, 14)
    PROVE  LET p == Seal(CommandBytes(kind, id, args)) IN
           /\ p \in [0 .. 31 -> Bytes]
           /\ p[0] = 255 /\ p[1] = 1 /\ p[2] = 32 /\ p[3] = kind /\ p[4] = 1
           /\ \A i \in 1 .. 6 : p[4 + i] = Address[7 - i]
           /\ p[11] + 256 * p[12] = id /\ p[13] = 1
           /\ \A i \in 1 .. 14 : p[13 + i] = args[i]
           /\ VerifyCrc(p, 2, 28)
<1>. DEFINE s == CommandBytes(kind, id, args)
            p == Seal(s)
<1>1. /\ Row(s, 28)
      /\ s[1] = 255 /\ s[2] = 1 /\ s[3] = 32 /\ s[4] = kind /\ s[5] = 1
      /\ \A i \in 1 .. 6 : s[5 + i] = Address[7 - i]
      /\ s[12] = id % 256 /\ s[13] = id \div 256 /\ s[14] = 1
      /\ \A i \in 1 .. 14 : s[14 + i] = args[i]
  BY CommandLayout
<1>. HIDE DEF s
<1>2. /\ p \in [0 .. 31 -> Bytes]
      /\ \A i \in 0 .. 27 : p[i] = s[i + 1]
      /\ VerifyCrc(p, 2, 28)
  <2>1. Sealed(p, s, 28)
    BY <1>1, SealFacts
  <2>. HIDE DEF p
  <2>. QED  BY <2>1 DEF Sealed
<1>. HIDE DEF p
<1>3. p[0] = 255 /\ p[1] = 1 /\ p[2] = 32 /\ p[3] = kind /\ p[4] = 1 /\ p[13] = 1
  BY <1>1, <1>2
<1>4. p[11] = id % 256 /\ p[12] = id \div 256
  BY <1>1, <1>2
<1>5. p[11] + 256 * p[12] = id
  BY <1>4
<1>6. \A i \in 1 .. 6 : p[4 + i] = Address[7 - i]
  <2>1. \A i \in 1 .. 6 : 4 + i \in 0 .. 27 /\ (4 + i) + 1 = 5 + i
    OBVIOUS
  <2>. QED  BY <1>1, <1>2, <2>1
<1>7. \A i \in 1 .. 14 : p[13 + i] = args[i]
  <2>1. \A i \in 1 .. 14 : 13 + i \in 0 .. 27 /\ (13 + i) + 1 = 14 + i
    OBVIOUS
  <2>. QED  BY <1>1, <1>2, <2>1
<1>. QED  BY <1>2, <1>3, <1>5, <1>6, <1>7 DEF p, s

\* So a damaged packet of the meter is refused, or flagged, or read as it was.
LEMMA NoticedByParsers ==
    ASSUME NEW kind \in DOMAIN Layout,
           NEW p, NEW q, NEW D \in SUBSET Nat, Burst(D),
           Flip(p, q, D, Layout[kind].length),
           WellFormed(p, kind), CrcOk(p, kind)
    PROVE  /\ ~WellFormed(q, kind) \/ ~CrcOk(q, kind) \/ Alike(p, q, kind)
           /\ D \cap (0 .. 8 * Layout[kind].length - 1) = {} => q = p
<1>. DEFINE n == Layout[kind].length
            c == Layout[kind].crc
<1>1. n \in Nat /\ c \in Nat /\ 2 <= c /\ n = c + 4
  BY Layouts
<1>2. VerifyCrc(p, 2, c) /\ (CrcOk(q, kind) => VerifyCrc(q, 2, c))
  BY DEF CrcOk
<1>3. WellFormed(q, kind) => q[0] = p[0] /\ q[1] = p[1]
  BY DEF WellFormed
<1>4. DOMAIN p = 0 .. n - 1 /\ DOMAIN q = 0 .. n - 1
  BY DEF Flip
<1>5. Same(p, q, 0, c + 1) => Alike(p, q, kind)
  BY <1>4 DEF Same, Alike
<1>6. Flip(p, q, D, n)
  OBVIOUS
<1>. HIDE DEF n, c
<1>7. /\ ~VerifyCrc(q, 2, c) \/ q[0] # p[0] \/ q[1] # p[1] \/ Same(p, q, 0, c + 1)
      /\ D \cap (0 .. 8 * n - 1) = {} => q = p
  BY <1>1, <1>2, <1>6, Noticed
<1>. QED  BY <1>2, <1>3, <1>5, <1>7 DEF n

\* The bytes of a response's arguments.
LEMMA RowPacket ==
    ASSUME NEW a, Row(a, 14)
    PROVE  Packet(a) \in [0 .. 13 -> Bytes]
<1>1. Len(a) = 14 /\ a \in [1 .. 14 -> Bytes]
  <2>1. 14 \in Nat
    OBVIOUS
  <2>. QED  BY <2>1, RowFunction DEF Row
<1>2. Packet(a) = [i \in 0 .. 13 |-> a[i + 1]]
  BY <1>1 DEF Packet
<1>3. \A i \in 0 .. 13 : i + 1 \in 1 .. 14
  OBVIOUS
<1>. QED  BY <1>1, <1>2, <1>3

\* What a response parses to when it arrives intact.
LEMMA ResponsePacket ==
    ASSUME NEW id \in Nat, id \div 256 \in Bytes, NEW n \in Nat, n <= 14, NEW args, Row(args, n)
    PROVE  LET p == EncodeResponse(id, args)
               r == [command_id |-> id, args |-> Packet(Padded(args)), crc_ok |-> TRUE]
           IN /\ p \in [0 .. 31 -> Bytes]
              /\ WellFormed(p, "response") /\ CrcOk(p, "response")
              /\ ParseCommandResponse(p) = r /\ r # None
<1>. DEFINE a == Padded(args)
            p == EncodeResponse(id, args)
<1>1. Row(a, 14)
  BY PaddedRow
<1>. HIDE DEF a
<1>2. p = Seal(CommandBytes(2, id, a))
  BY DEF EncodeResponse, CommandBytes, a
<1>. HIDE DEF p
<1>3. /\ p \in [0 .. 31 -> Bytes]
      /\ p[0] = 255 /\ p[1] = 1 /\ p[2] = 32 /\ p[3] = 2 /\ p[4] = 1
      /\ p[11] + 256 * p[12] = id
      /\ \A i \in 1 .. 14 : p[13 + i] = a[i]
      /\ VerifyCrc(p, 2, 28)
  <2>1. 2 \in Bytes
    BY DEF Bytes
  <2>. QED  BY <1>1, <1>2, <2>1, CommandPacket
<1>4. WellFormed(p, "response")
  BY <1>3 DEF WellFormed, Layout
<1>5. CrcOk(p, "response") /\ CrcOk(p, "response") = TRUE
  <2>1. CrcOk(p, "response")
    BY <1>3 DEF CrcOk, Layout
  <2>. QED  BY <2>1 DEF CrcOk, VerifyCrc
<1>6. Slice(p, 14, 28) = Packet(a)
  <2>1. Slice(p, 14, 28) = [i \in 0 .. 13 |-> p[14 + i]]
    BY DEF Slice
  <2>2. Packet(a) = [i \in 0 .. 13 |-> a[i + 1]]
    BY <1>1 DEF Packet, Row
  <2>3. \A i \in 0 .. 13 : p[14 + i] = a[i + 1]
    <3>1. \A i \in 0 .. 13 : i + 1 \in 1 .. 14 /\ 13 + (i + 1) = 14 + i
      OBVIOUS
    <3>. QED  BY <1>3, <3>1
  <2>. QED  BY <2>1, <2>2, <2>3
<1>7. ParseCommandResponse(p) = [command_id |-> id, args |-> Packet(a), crc_ok |-> TRUE]
  <2>1. ParseCommandResponse(p) =
           [command_id |-> p[11] + 256 * p[12], args |-> Slice(p, 14, 28),
            crc_ok |-> CrcOk(p, "response")]
    BY <1>4 DEF ParseCommandResponse
  <2>. DEFINE c == CrcOk(p, "response")
              i == p[11] + 256 * p[12]
              t == Slice(p, 14, 28)
  <2>2. i = id /\ t = Packet(a) /\ c = TRUE
    BY <1>3, <1>5, <1>6
  <2>3. ParseCommandResponse(p) = [command_id |-> i, args |-> t, crc_ok |-> c]
    BY <2>1
  <2>. HIDE DEF c, i, t
  <2>. QED  BY <2>2, <2>3
<1>8. [command_id |-> id, args |-> Packet(a), crc_ok |-> TRUE] # None
  <2>1. Packet(a) \in [0 .. 13 -> Bytes]
    BY <1>1, RowPacket
  <2>. DEFINE r == [command_id |-> id, args |-> Packet(a), crc_ok |-> TRUE]
  <2>2. r \in Responses
    <3>1. id \in 0 .. 2^16 - 1
      <4>1. id \div 256 <= 255
        BY DEF Bytes
      <4>. QED  BY <4>1
    <3>. QED  BY <2>1, <3>1 DEF Responses
  <2>. HIDE DEF r
  <2>3. r # None
    BY <2>2, NoneAssumption
  <2>. QED  BY <2>3 DEF r
<1>. QED  BY <1>3, <1>4, <1>5, <1>7, <1>8 DEF a, p

\* What arrives of a response.
LEMMA ResponseArrives ==
    ASSUME NEW p, NEW q, NEW D \in SUBSET Nat, Burst(D), Flip(p, q, D, 32),
           WellFormed(p, "response"), CrcOk(p, "response")
    PROVE  LET r == ParseCommandResponse(q)
           IN /\ r = None \/ ~r.crc_ok \/ r = ParseCommandResponse(p)
              /\ D \cap (0 .. 255) = {} => r = ParseCommandResponse(p)
<1>1. "response" \in DOMAIN Layout /\ Layout["response"].length = 32
  BY DEF Layout
<1>2. /\ ~WellFormed(q, "response") \/ ~CrcOk(q, "response") \/ Alike(p, q, "response")
      /\ D \cap (0 .. 8 * 32 - 1) = {} => q = p
  BY <1>1, NoticedByParsers
<1>3. ~WellFormed(q, "response") => ParseCommandResponse(q) = None
  BY DEF ParseCommandResponse
<1>4. WellFormed(q, "response") /\ ~CrcOk(q, "response") => ~ParseCommandResponse(q).crc_ok
  BY DEF ParseCommandResponse
<1>5. Alike(p, q, "response") => ParseCommandResponse(q) = ParseCommandResponse(p)
  BY AlikeResponses
<1>. QED  BY <1>2, <1>3, <1>4, <1>5

\* What the meter makes of the packet of a command.
Asked(id, args) == [id |-> id, args |-> args]

\* build_command_packet accepts the arguments of the commands modelled.
LEMMA RequestPacket ==
    ASSUME NEW id \in Nat, id \div 256 \in Bytes, NEW n \in Nat, n <= 14, NEW args, Row(args, n)
    PROVE  BuildCommandPacket(Address, id, args) = Seal(CommandBytes(1, id, Padded(args)))
<1>1. Len(Address) = 6
  <2>1. 6 \in Nat
    OBVIOUS
  <2>. QED  BY <2>1, AddressAssumption, RowFunction DEF Row
<1>2. id \in 0 .. 2^16 - 1
  <2>1. id \div 256 <= 255
    BY DEF Bytes
  <2>. QED  BY <2>1
<1>3. ~(Len(args) > 14)
  BY DEF Row
<1>. QED  BY <1>1, <1>2, <1>3 DEF BuildCommandPacket, CommandBytes

\* Of a damaged command the meter understands nothing or what was asked.
LEMMA DecodeArrives ==
    ASSUME NEW id \in Nat, id \div 256 \in Bytes, NEW args, Row(args, 14), NEW p,
           p = Seal(CommandBytes(1, id, args)),
           NEW q, NEW D \in SUBSET Nat, Burst(D), Flip(p, q, D, 32)
    PROVE  /\ DecodeCommand(q) \in {None, Asked(id, args)}
           /\ D = {} => DecodeCommand(q) = Asked(id, args)
<1>1. /\ p \in [0 .. 31 -> Bytes]
      /\ p[0] = 255 /\ p[1] = 1 /\ p[2] = 32 /\ p[3] = 1 /\ p[4] = 1
      /\ \A i \in 1 .. 6 : p[4 + i] = Address[7 - i]
      /\ p[11] + 256 * p[12] = id /\ p[13] = 1
      /\ \A i \in 1 .. 14 : p[13 + i] = args[i]
      /\ VerifyCrc(p, 2, 28)
  <2>1. 1 \in Bytes
    BY DEF Bytes
  <2>. QED  BY <2>1, CommandPacket
<1>2. args = [i \in 1 .. 14 |-> args[i]]
  <2>1. 14 \in Nat
    OBVIOUS
  <2>2. args \in [1 .. 14 -> Bytes]
    BY <2>1, RowFunction
  <2>. QED  BY <2>2
<1>3. ASSUME NEW r, \A i \in 1 .. 14 : r[13 + i] = p[13 + i], r[11] = p[11], r[12] = p[12]
      PROVE  [id |-> r[11] + 256 * r[12], args |-> [i \in 1 .. 14 |-> r[13 + i]]] = Asked(id, args)
  <2>1. [i \in 1 .. 14 |-> r[13 + i]] = args
    <3>1. \A i \in 1 .. 14 : r[13 + i] = args[i]
      BY <1>1, <1>3
    <3>. QED  BY <1>2, <3>1
  <2>2. r[11] + 256 * r[12] = id
    BY <1>1, <1>3
  <2>. QED  BY <2>1, <2>2 DEF Asked
<1>4. DecodeCommand(p) = Asked(id, args)
  <2>1. DecodeCommand(p) = [id |-> p[11] + 256 * p[12], args |-> [i \in 1 .. 14 |-> p[13 + i]]]
    BY <1>1 DEF DecodeCommand
  <2>. QED  BY <1>3, <2>1
<1>5. /\ \/ ~VerifyCrc(q, 2, 28)
         \/ q[0] # p[0] \/ q[1] # p[1]
         \/ Same(p, q, 0, 29)
      /\ D = {} => q = p
  <2>. DEFINE c == 28
              n == 32
  <2>1. c \in Nat /\ 2 <= c /\ n \in Nat /\ n = c + 4 /\ Flip(p, q, D, n) /\ VerifyCrc(p, 2, c)
    BY <1>1
  <2>2. 28 = c /\ 29 = c + 1
    OBVIOUS
  <2>. HIDE DEF c, n
  <2>3. /\ \/ ~VerifyCrc(q, 2, c)
           \/ q[0] # p[0] \/ q[1] # p[1]
           \/ Same(p, q, 0, c + 1)
        /\ D \cap (0 .. 8 * n - 1) = {} => q = p
    BY <2>1, Noticed
  <2>. QED  BY <2>2, <2>3
<1>6. CASE ~VerifyCrc(q, 2, 28) \/ q[0] # p[0] \/ q[1] # p[1]
  <2>1. DecodeCommand(q) = None
    BY <1>1, <1>6 DEF DecodeCommand
  <2>. QED  BY <1>4, <1>5, <2>1
<1>7. CASE Same(p, q, 0, 29)
  <2>1. \A i \in 1 .. 14 : q[13 + i] = p[13 + i]
    <3>1. \A i \in 1 .. 14 : 13 + i \in 0 .. 29
      OBVIOUS
    <3>. QED  BY <1>7, <3>1 DEF Same
  <2>2. q[11] = p[11] /\ q[12] = p[12]
    BY <1>7 DEF Same
  <2>3. DecodeCommand(q) \in {None, [id |-> q[11] + 256 * q[12], args |-> [i \in 1 .. 14 |-> q[13 + i]]]}
    BY DEF DecodeCommand
  <2>4. DecodeCommand(q) \in {None, Asked(id, args)}
    BY <1>3, <2>1, <2>2, <2>3
  <2>. QED  BY <1>4, <1>5, <2>4
<1>. QED  BY <1>5, <1>6, <1>7

\* The two encodings of a time that sync_rtc writes and the meter reads.
LEMMA RtcArgs ==
    ASSUME NEW t \in Moments
    PROVE  Row(EncodeRtcTimeArgs(t), 14) /\ ClockOf(EncodeRtcTimeArgs(t)) = t
<1>. DEFINE a == EncodeRtcTimeArgs(t)
<1>1. /\ t.year \in 2000 .. 2127 /\ t.month \in 1 .. 12 /\ t.date \in 1 .. 31
      /\ t.weekday \in 0 .. 6 /\ t.hour \in 0 .. 23 /\ t.minute \in 0 .. 59
      /\ t.second \in 0 .. 59
      /\ t = [year |-> t.year, month |-> t.month, date |-> t.date, weekday |-> t.weekday,
              hour |-> t.hour, minute |-> t.minute, second |-> t.second]
  BY DEF Moments
<1>2. /\ t.year - 2000 \in Bytes /\ t.month \in Bytes /\ t.date \in Bytes
      /\ t.weekday + 1 \in Bytes /\ t.hour \in Bytes /\ t.minute \in Bytes
      /\ t.second \in Bytes /\ 0 \in Bytes
  BY <1>1 DEF Bytes
<1>3. Row(a, 14)
  BY <1>2 DEF Row, EncodeRtcTimeArgs
<1>4. /\ a[1] = t.second /\ a[2] = t.minute /\ a[3] = t.hour /\ a[4] = t.date
      /\ a[5] = t.weekday + 1 /\ a[6] = t.month /\ a[7] = t.year - 2000
  BY DEF EncodeRtcTimeArgs
<1>. HIDE DEF a
<1>5. a[5] - 1 = t.weekday /\ 2000 + a[7] = t.year
  BY <1>1, <1>4
<1>6. ClockOf(a) = [second |-> t.second, minute |-> t.minute, hour |-> t.hour,
                    date |-> t.date, weekday |-> t.weekday, month |-> t.month,
                    year |-> t.year]
  BY <1>4, <1>5 DEF ClockOf
<1>7. ClockOf(a) = t
  BY <1>1, <1>6
<1>. QED  BY <1>3, <1>7 DEF a

\* A reply with what its receiver makes of it when it arrives intact.
Said(id, args, failed, code) ==
    [command_id |-> id, args |-> Packet(Padded(args)), crc_ok |-> TRUE,
     failed |-> failed, code |-> code]

\* A success names the command,
LEMMA Successes ==
    ASSUME NEW id \in Nat, id \div 256 \in Bytes, id # CMD_FAILURE
    PROVE  LET p == EncodeResponse(id, <<>>) IN
           /\ p \in [0 .. 31 -> Bytes] /\ WellFormed(p, "response") /\ CrcOk(p, "response")
           /\ ParseCommandResponse(p) # None
           /\ Answer(ParseCommandResponse(p)) = Said(id, <<>>, None, None)
<1>. DEFINE e == <<>>
            n == 0
<1>1. n \in Nat /\ n <= 14 /\ Row(e, n)
  BY DEF Row
<1>2. n = 0 /\ e = <<>>
  OBVIOUS
<1>. HIDE DEF n, e
<1>. DEFINE p == EncodeResponse(id, e)
            a == Packet(Padded(e))
            r == [command_id |-> id, args |-> a, crc_ok |-> TRUE]
<1>3. /\ p \in [0 .. 31 -> Bytes] /\ WellFormed(p, "response") /\ CrcOk(p, "response")
      /\ ParseCommandResponse(p) = r /\ r # None
  BY <1>1, ResponsePacket
<1>. HIDE DEF p, a
<1>4. Answer(r) = [command_id |-> id, args |-> a, crc_ok |-> TRUE, failed |-> None, code |-> None]
  BY <1>3 DEF Answer, IsFailure, FailedCommandId, ErrorCode
<1>. HIDE DEF r
<1>. QED  BY <1>2, <1>3, <1>4 DEF p, a, Said

\* a failure the failed command and an error code.
LEMMA Failures ==
    ASSUME NEW id \in Nat, id \div 256 \in Bytes, NEW code \in Bytes
    PROVE  LET args == LittleEndian(id) \o LittleEndian(code)
               p == EncodeResponse(CMD_FAILURE, args)
           IN /\ p \in [0 .. 31 -> Bytes] /\ WellFormed(p, "response") /\ CrcOk(p, "response")
              /\ ParseCommandResponse(p) # None
              /\ Answer(ParseCommandResponse(p)) = Said(CMD_FAILURE, args, id, code)
<1>. DEFINE e == LittleEndian(id) \o LittleEndian(code)
            n == 4
<1>1. n \in Nat /\ n <= 14 /\ Row(e, n)
      /\ e[1] = id % 256 /\ e[2] = id \div 256 /\ e[3] = code /\ e[4] = 0
  <2>1. id % 256 \in Bytes /\ code % 256 = code /\ code \div 256 = 0 /\ 0 \in Bytes
    BY DEF Bytes
  <2>. DEFINE u == LittleEndian(id)
              v == LittleEndian(code)
              two == 2
  <2>2. /\ Row(u, two) /\ u[1] = id % 256 /\ u[2] = id \div 256
        /\ Row(v, two) /\ v[1] = code /\ v[2] = 0
    BY <2>1 DEF LittleEndian, Row
  <2>3. Joins(e, u, v) /\ two \in Nat
    BY DEF Joins
  <2>4. n = two + two /\ 1 \in 1 .. two /\ 2 \in 1 .. two /\ two + 1 = 3 /\ two + 2 = 4
    OBVIOUS
  <2>. HIDE DEF e, u, v, two, n
  <2>5. /\ Row(e, n)
        /\ \A i \in 1 .. two : e[i] = u[i]
        /\ \A i \in 1 .. two : e[two + i] = v[i]
    BY <2>2, <2>3, <2>4, RowConcat
  <2>6. n \in Nat /\ n <= 14
    BY DEF n
  <2>. QED  BY <2>2, <2>4, <2>5, <2>6
<1>2. CMD_FAILURE \in Nat /\ CMD_FAILURE \div 256 \in Bytes
  BY DEF CMD_FAILURE, Bytes
<1>3. e = LittleEndian(id) \o LittleEndian(code)
  OBVIOUS
<1>4. n = 4
  OBVIOUS
<1>. HIDE DEF e, n
<1>. DEFINE p == EncodeResponse(CMD_FAILURE, e)
            a == Packet(Padded(e))
            r == [command_id |-> CMD_FAILURE, args |-> a, crc_ok |-> TRUE]
<1>5. /\ p \in [0 .. 31 -> Bytes] /\ WellFormed(p, "response") /\ CrcOk(p, "response")
      /\ ParseCommandResponse(p) = r /\ r # None
  BY <1>1, <1>2, ResponsePacket
<1>6. a[0] = e[1] /\ a[1] = e[2] /\ a[2] = e[3] /\ a[3] = e[4]
  <2>1. Row(Padded(e), 14) /\ \A i \in 1 .. n : Padded(e)[i] = e[i]
    BY <1>1, PaddedRow
  <2>2. Packet(Padded(e)) = [i \in 0 .. 13 |-> Padded(e)[i + 1]]
    BY <2>1 DEF Packet, Row
  <2>. QED  BY <1>4, <2>1, <2>2
<1>7. a[0] + 256 * a[1] = id /\ a[2] + 256 * a[3] = code
  BY <1>1, <1>6 DEF Bytes
<1>. HIDE DEF p, a
<1>8. Answer(r) = [command_id |-> CMD_FAILURE, args |-> a, crc_ok |-> TRUE,
                   failed |-> id, code |-> code]
  BY <1>5, <1>7 DEF Answer, IsFailure, FailedCommandId, ErrorCode
<1>. HIDE DEF r
<1>. QED  BY <1>3, <1>5, <1>8 DEF p, a, Said

-----------------------------------------------------------------------------
(* Notifications.                                                          *)

\* An info packet tells the meter's address.
LEMMA InfoPacket ==
    LET p == EncodeInfo IN
    /\ p \in [0 .. 23 -> Bytes]
    /\ WellFormed(p, "info") /\ CrcOk(p, "info")
    /\ ParseInfoPacket(p) = FaithfulInfo
<1>. DEFINE a == <<255, 1, 24, 4, 1, 2>>
            b == Reverse(Address)
            c == <<0, 0, 0, 0, ReadingsPerFrame, 0, 0, 1>>
            s1 == a \o b
            s == s1 \o c
            p == EncodeInfo
<1>1. /\ Row(a, 6) /\ a[1] = 255 /\ a[2] = 1 /\ a[3] = 24 /\ a[4] = 4 /\ a[5] = 1
      /\ a[6] = 2
  BY DEF Bytes, Row
<1>2. Row(b, 6) /\ \A i \in 1 .. 6 : b[i] = Address[7 - i]
  BY ReversedAddress
<1>3. /\ Row(c, 8) /\ c[1] = 0 /\ c[2] = 0 /\ c[5] = ReadingsPerFrame /\ c[8] = 1
  BY DEF Bytes, Row, ReadingsPerFrame
<1>4. Joins(s1, a, b) /\ Joins(s, s1, c)
  BY DEF Joins
<1>5. p = Seal(s)
  BY DEF EncodeInfo
<1>. HIDE DEF a, b, c, s1, s, p
<1>6. /\ Row(s1, 12)
      /\ \A i \in 1 .. 6 : s1[i] = a[i]
      /\ \A i \in 1 .. 6 : s1[6 + i] = b[i]
  BY <1>1, <1>2, <1>4, RowConcat
<1>7. /\ Row(s, 20)
      /\ \A i \in 1 .. 12 : s[i] = s1[i]
      /\ \A i \in 1 .. 8 : s[12 + i] = c[i]
  BY <1>3, <1>4, <1>6, RowConcat
<1>8. /\ p \in [0 .. 23 -> Bytes]
      /\ \A i \in 0 .. 19 : p[i] = s[i + 1]
      /\ VerifyCrc(p, 2, 20)
  <2>1. Sealed(p, s, 20)
    BY <1>5, <1>7, SealFacts
  <2>. QED  BY <2>1 DEF Sealed
<1>9. p[0] = 255 /\ p[1] = 1 /\ p[2] = 24 /\ p[3] = 4 /\ p[4] = 1 /\ p[5] = 2
  BY <1>1, <1>6, <1>7, <1>8
<1>10. p[12] = 0 /\ p[13] = 0 /\ p[16] = ReadingsPerFrame /\ p[19] = 1
  <2>1. s[12 + 1] = 0 /\ s[12 + 2] = 0 /\ s[12 + 5] = ReadingsPerFrame /\ s[12 + 8] = 1
    BY <1>3, <1>7
  <2>. QED  BY <1>8, <2>1
<1>11. [i \in 1 .. 6 |-> p[12 - i]] = Address
  <2>1. \A i \in 1 .. 6 : p[12 - i] = Address[i]
    <3>1. \A i \in 1 .. 6 : /\ 12 - i \in 0 .. 19 /\ (12 - i) + 1 = 6 + (7 - i)
                            /\ 6 + (7 - i) \in 1 .. 12 /\ 7 - i \in 1 .. 6
                            /\ 7 - (7 - i) = i
      OBVIOUS
    <3>. QED  BY <1>2, <1>6, <1>7, <1>8, <3>1
  <2>2. Address = [i \in 1 .. 6 |-> Address[i]]
    BY AddressAssumption
  <2>. QED  BY <2>1, <2>2
<1>12. WellFormed(p, "info")
  BY <1>8, <1>9 DEF WellFormed, Layout
<1>13. CrcOk(p, "info") = TRUE
  BY <1>8 DEF CrcOk, Layout, VerifyCrc
<1>14. ParseInfoPacket(p) = FaithfulInfo
  <2>. DEFINE m == [i \in 1 .. 6 |-> p[12 - i]]
              ok == CrcOk(p, "info")
  <2>1. ParseInfoPacket(p) =
           [device_category |-> p[5], mac |-> m,
            battery_status |-> p[12], power_source |-> p[13],
            reading_packet_count |-> p[16], device_reading_pk_id |-> p[19],
            crc_ok |-> ok]
    BY <1>12 DEF ParseInfoPacket
  <2>2. m = Address /\ ok = TRUE
    BY <1>11, <1>13
  <2>. HIDE DEF m, ok
  <2>. QED  BY <1>9, <1>10, <2>1, <2>2 DEF FaithfulInfo
<1>. QED  BY <1>8, <1>12, <1>13, <1>14 DEF p

\* The milliseconds take up ten bits.
LEMMA TenBits ==
    ASSUME NEW ms \in 0 .. 999, NEW s \in 0 .. 59
    PROVE  /\ ms % 256 \in 0 .. 255 /\ ms \div 256 \in 0 .. 3
           /\ 256 * (ms \div 256) + (ms % 256) = ms
           /\ 4 * s + (ms \div 256) \in 0 .. 255
           /\ ((4 * s + (ms \div 256)) \div 4) % 64 = s
           /\ (4 * s + (ms \div 256)) % 4 = ms \div 256
<1>1. /\ ms % 256 \in 0 .. 255 /\ ms \div 256 \in 0 .. 3
      /\ 256 * (ms \div 256) + (ms % 256) = ms
  OBVIOUS
<1>. DEFINE h == ms \div 256
<1>. HIDE DEF h
<1>2. h \in 0 .. 3
  BY <1>1 DEF h
<1>3. /\ 4 * s + h \in 0 .. 255
      /\ (4 * s + h) \div 4 = s
      /\ (4 * s + h) % 4 = h
  BY <1>2
<1>4. s % 64 = s
  OBVIOUS
<1>. QED  BY <1>1, <1>3, <1>4 DEF h

\* The clock takes up six bytes.
LEMMA EncodeRtcBytes ==
    ASSUME NEW t \in Moments, NEW ms \in 0 .. 999
    PROVE  Row(EncodeRtc(t, ms), 6)
<1>1. /\ t.year \in 2000 .. 2127 /\ t.month \in 1 .. 12 /\ t.date \in 1 .. 31
      /\ t.hour \in 0 .. 23 /\ t.minute \in 0 .. 59 /\ t.second \in 0 .. 59
  BY DEF Moments
<1>2. /\ ms % 256 \in Bytes
      /\ 4 * t.second + (ms \div 256) \in Bytes
      /\ 64 * (t.hour % 4) + t.minute \in Bytes
      /\ t.hour \div 4 \in Bytes
      /\ 32 * (t.month % 8) + t.date \in Bytes
      /\ 2 * (t.year - 2000) + (t.month \div 8) \in Bytes
  <2>0. t.second \in 0 .. 59
    BY <1>1
  <2>t. /\ ms % 256 \in 0 .. 255 /\ ms \div 256 \in 0 .. 3
        /\ 256 * (ms \div 256) + (ms % 256) = ms
        /\ 4 * t.second + (ms \div 256) \in 0 .. 255
        /\ ((4 * t.second + (ms \div 256)) \div 4) % 64 = t.second
        /\ (4 * t.second + (ms \div 256)) % 4 = ms \div 256
    BY <2>0, TenBits, Zenon
  <2>1. ms % 256 \in Bytes /\ 4 * t.second + (ms \div 256) \in Bytes
    BY <2>t, Zenon DEF Bytes
  <2>2. 64 * (t.hour % 4) + t.minute \in Bytes /\ t.hour \div 4 \in Bytes
    BY <1>1 DEF Bytes
  <2>3. 32 * (t.month % 8) + t.date \in Bytes
    BY <1>1 DEF Bytes
  <2>4. 2 * (t.year - 2000) + (t.month \div 8) \in Bytes
    BY <1>1 DEF Bytes
  <2>. QED  BY <2>1, <2>2, <2>3, <2>4
<1>. QED  BY <1>2 DEF EncodeRtc, Row

\* The smaller of two numbers.
LEMMA MinOfTwo ==
    ASSUME NEW a \in Int, NEW b \in Int, b <= a
    PROVE  Min({a, b}) = b
<1>1. b \in {a, b} /\ \A y \in {a, b} : b <= y
  OBVIOUS
<1>2. ASSUME NEW x \in {a, b}, \A y \in {a, b} : x <= y PROVE x = b
  BY <1>2
<1>. QED  BY <1>1, <1>2 DEF Min

\* The larger of two numbers.
LEMMA MaxOfTwo ==
    ASSUME NEW a \in Int, NEW b \in Int, a <= b
    PROVE  Max({a, b}) = b
<1>1. b \in {a, b} /\ \A y \in {a, b} : b >= y
  OBVIOUS
<1>2. ASSUME NEW x \in {a, b}, \A y \in {a, b} : x >= y PROVE x = b
  BY <1>2
<1>. QED  BY <1>1, <1>2 DEF Max

\* The clock's fields survive being split over the six bytes.
LEMMA RtcArrives ==
    ASSUME NEW t \in Moments, NEW ms \in 0 .. 999, NEW p, NEW e,
           e = EncodeRtc(t, ms), \A i \in 1 .. 6 : p[7 + i] = e[i]
    PROVE  ParseRtc(p) =
              [year |-> t.year, month |-> t.month, date |-> t.date,
               hour |-> t.hour, minute |-> t.minute, second |-> t.second,
               millisecond |-> ms]
<1>1. /\ t.year \in 2000 .. 2127 /\ t.month \in 1 .. 12 /\ t.date \in 1 .. 31
      /\ t.hour \in 0 .. 23 /\ t.minute \in 0 .. 59 /\ t.second \in 0 .. 59
  BY DEF Moments
<1>2. /\ p[8] = ms % 256
      /\ p[9] = 4 * t.second + (ms \div 256)
      /\ p[10] = 64 * (t.hour % 4) + t.minute
      /\ p[11] = t.hour \div 4
      /\ p[12] = 32 * (t.month % 8) + t.date
      /\ p[13] = 2 * (t.year - 2000) + (t.month \div 8)
  <2>1. /\ p[7 + 1] = e[1] /\ p[7 + 2] = e[2] /\ p[7 + 3] = e[3]
        /\ p[7 + 4] = e[4] /\ p[7 + 5] = e[5] /\ p[7 + 6] = e[6]
    OBVIOUS
  <2>. QED  BY <2>1 DEF EncodeRtc
<1>3. /\ 2000 + ((p[13] \div 2) % 128) = t.year
      /\ 8 * (p[13] % 2) + ((p[12] \div 32) % 8) = t.month
      /\ p[12] % 32 = t.date
  BY <1>1, <1>2
<1>4. /\ ((p[10] \div 64) % 4) + 4 * (p[11] % 8) = t.hour
      /\ p[10] % 64 = t.minute
  BY <1>1, <1>2
<1>5. /\ (p[9] \div 4) % 64 = t.second
      /\ 256 * (p[9] % 4) + p[8] = ms
  <2>0. t.second \in 0 .. 59
    BY <1>1
  <2>t. /\ ms % 256 \in 0 .. 255 /\ ms \div 256 \in 0 .. 3
        /\ 256 * (ms \div 256) + (ms % 256) = ms
        /\ 4 * t.second + (ms \div 256) \in 0 .. 255
        /\ ((4 * t.second + (ms \div 256)) \div 4) % 64 = t.second
        /\ (4 * t.second + (ms \div 256)) % 4 = ms \div 256
    BY <2>0, TenBits, Zenon
  <2>. DEFINE h == ms \div 256
              l == ms % 256
  <2>1. /\ 256 * h + l = ms
        /\ ((4 * t.second + h) \div 4) % 64 = t.second
        /\ (4 * t.second + h) % 4 = h
    BY <2>t, Zenon
  <2>2. p[8] = l /\ p[9] = 4 * t.second + h
    BY <1>2
  <2>. HIDE DEF h, l
  <2>. QED  BY <2>1, <2>2
<1>6. Min({999, ms}) = ms
  <2>1. 999 \in Int /\ ms \in Int /\ ms <= 999
    OBVIOUS
  <2>. QED  BY <2>1, MinOfTwo
<1>7. Min({999, 256 * (p[9] % 4) + p[8]}) = ms
  BY <1>5, <1>6
<1>. DEFINE y  == 2000 + ((p[13] \div 2) % 128)
            mo == 8 * (p[13] % 2) + ((p[12] \div 32) % 8)
            da == p[12] % 32
            ho == ((p[10] \div 64) % 4) + 4 * (p[11] % 8)
            mi == p[10] % 64
            se == (p[9] \div 4) % 64
            mm == Min({999, 256 * (p[9] % 4) + p[8]})
<1>8. /\ y = t.year /\ mo = t.month /\ da = t.date /\ ho = t.hour
      /\ mi = t.minute /\ se = t.second /\ mm = ms
  BY <1>3, <1>4, <1>5, <1>7
<1>9. ParseRtc(p) = [year |-> y, month |-> mo, date |-> da, hour |-> ho, minute |-> mi,
                     second |-> se, millisecond |-> mm]
  BY DEF ParseRtc
<1>. HIDE DEF y, mo, da, ho, mi, se, mm
<1>. QED  BY <1>8, <1>9

\* Flags survive being packed into a byte,
LEMMA FlagByteArrives ==
    ASSUME NEW layout, NEW names,
           \A f \in DOMAIN layout : layout[f] \in 0 .. 7,
           \A f \in DOMAIN layout, g \in DOMAIN layout : layout[f] = layout[g] => f = g
    PROVE  /\ FlagByte(names, layout) \in Bytes
           /\ {f \in DOMAIN layout : layout[f] \in Bits(FlagByte(names, layout))}
                = names \cap DOMAIN layout
<1>. DEFINE S == {layout[f] : f \in names \cap DOMAIN layout}
<1>1. S \in SUBSET (0 .. 7)
  OBVIOUS
<1>2. \A f \in DOMAIN layout : layout[f] \in S <=> f \in names
  OBVIOUS
<1>3. FlagByte(names, layout) = Number(S)
  BY DEF FlagByte
<1>. HIDE DEF S
<1>4. FlagByte(names, layout) \in Bytes /\ Bits(FlagByte(names, layout)) = S
  BY <1>1, <1>3, NumberFacts
<1>. QED  BY <1>2, <1>4

\* those of both bytes
LEMMA FlagsArrive ==
    ASSUME NEW names, names \subseteq DOMAIN Status0 \cup DOMAIN Status1, NEW p,
           p[14] = FlagByte(names, Status0), p[15] = FlagByte(names, Status1)
    PROVE  Flags(p) = names
<1>1. /\ \A f \in DOMAIN Status0 : Status0[f] \in 0 .. 7
      /\ \A f \in DOMAIN Status0, g \in DOMAIN Status0 : Status0[f] = Status0[g] => f = g
  BY DEF Status0
<1>2. /\ \A f \in DOMAIN Status1 : Status1[f] \in 0 .. 7
      /\ \A f \in DOMAIN Status1, g \in DOMAIN Status1 : Status1[f] = Status1[g] => f = g
  BY DEF Status1
<1>3. {f \in DOMAIN Status0 : Status0[f] \in Bits(p[14])} = names \cap DOMAIN Status0
  BY <1>1, FlagByteArrives
<1>4. {f \in DOMAIN Status1 : Status1[f] \in Bits(p[15])} = names \cap DOMAIN Status1
  BY <1>2, FlagByteArrives
<1>5. Flags(p) = (names \cap DOMAIN Status0) \cup (names \cap DOMAIN Status1)
  BY <1>3, <1>4 DEF Flags
<1>. QED  BY <1>5

\* which are bytes.
LEMMA FlagBytes ==
    ASSUME NEW names
    PROVE  FlagByte(names, Status0) \in Bytes /\ FlagByte(names, Status1) \in Bytes
<1>1. /\ \A f \in DOMAIN Status0 : Status0[f] \in 0 .. 7
      /\ \A f \in DOMAIN Status0, g \in DOMAIN Status0 : Status0[f] = Status0[g] => f = g
  BY DEF Status0
<1>2. /\ \A f \in DOMAIN Status1 : Status1[f] \in 0 .. 7
      /\ \A f \in DOMAIN Status1, g \in DOMAIN Status1 : Status1[f] = Status1[g] => f = g
  BY DEF Status1
<1>3. FlagByte(names, Status0) \in Bytes
  BY <1>1, FlagByteArrives
<1>4. FlagByte(names, Status1) \in Bytes
  BY <1>2, FlagByteArrives
<1>. QED  BY <1>3, <1>4

\* The powers of two that the formats use.
LEMMA Powers ==
    /\ 2^(8 - 1) = 128 /\ 2^8 = 256
    /\ 2^23 = 128 * 65536 /\ 2^(24 - 1) = 128 * 65536 /\ 2^24 = 256 * 65536
OBVIOUS

\* The 24 bits of a number, and the number of 24 bits.
LEMMA ThreeBytes ==
    ASSUME NEW v \in Nat, v < 2^24
    PROVE  /\ v % 256 \in Bytes /\ (v \div 256) % 256 \in Bytes /\ v \div 65536 \in Bytes
           /\ (v % 256) + 256 * ((v \div 256) % 256) + 65536 * (v \div 65536) = v
<1>. DEFINE w == v \div 256
<1>1. w \in Nat /\ v % 256 \in 0 .. 255 /\ v = 256 * w + (v % 256)
  OBVIOUS
<1>2. v \div 65536 = w \div 256
  OBVIOUS
<1>3. w < 65536
  BY <1>1, Powers
<1>. HIDE DEF w
<1>4. w % 256 \in 0 .. 255 /\ w \div 256 \in 0 .. 255 /\ w = 256 * (w \div 256) + (w % 256)
  BY <1>1, <1>3
<1>. QED  BY <1>1, <1>2, <1>4 DEF Bytes, w

\* A number survives two's complement in 24 bits,
LEMMA MantissaArrives ==
    ASSUME NEW number \in Nat, number < 2^23, NEW twos \in BOOLEAN, twos => number # 0,
           NEW v, v = IF twos THEN 2^24 - number ELSE number
    PROVE  v \in Nat /\ v < 2^24 /\ Abs(Signed(v, 24)) = number
BY Powers DEF Abs, Signed

\* a prefix that in eight.
LEMMA PrefixArrives ==
    ASSUME NEW x \in PREFIX_MAP
    PROVE  x % 256 \in Bytes /\ Prefix(Signed(x % 256, 8)) = x
BY Powers DEF PREFIX_MAP, Prefix, Signed, Bytes

\* The displays that the assumptions allow.
Display(d) ==
    /\ d \in LcdStates
    /\ d.twos => d.number # 0
    /\ d.point = 0 \/ d.digits - d.point \in 0 .. 6

\* What the bytes of a reading packet are.
Fields(p, d, t, ms) ==
    LET v == IF d.twos THEN 2^24 - d.number ELSE d.number IN
    /\ p \in [0 .. 31 -> Bytes] /\ VerifyCrc(p, 2, 28)
    /\ p[0] = 255 /\ p[1] = 2 /\ p[2] = 32 /\ p[3] = 5
    /\ p[4] = 1 /\ p[5] = 0 /\ p[6] = 0 /\ p[7] = 1
    /\ \A i \in 1 .. 6 : p[7 + i] = EncodeRtc(t, ms)[i]
    /\ p[14] = FlagByte(d.flags, Status0) /\ p[15] = FlagByte(d.flags, Status1)
    /\ p[17] = 1 /\ p[18] = d.function[1] /\ p[20] = d.function[2]
    /\ p[21] = v % 256 /\ p[22] = (v \div 256) % 256 /\ p[23] = v \div 65536
    /\ p[24] = d.point /\ p[25] = d.prefix % 256 /\ p[26] = d.unit /\ p[27] = d.digits

\* The bytes of a reading packet.
LEMMA ReadingLayout ==
    ASSUME NEW d, Display(d), NEW t \in Moments, NEW ms \in 0 .. 999,
           NEW p, p = EncodeReading(d, t, ms)
    PROVE  Fields(p, d, t, ms)
<1>. DEFINE v == IF d.twos THEN 2^24 - d.number ELSE d.number
            r == EncodeRtc(t, ms)
            f0 == FlagByte(d.flags, Status0)
            f1 == FlagByte(d.flags, Status1)
            n0 == v % 256
            n1 == (v \div 256) % 256
            n2 == v \div 65536
            x == d.prefix % 256
            u1 == d.function[1]
            u2 == d.function[2]
            a == <<255, 2, 32, 5, 1, 0, 0, 1>>
            b == <<f0, f1, 0, 1>>
            c == <<u1, 0, u2>>
            e == <<n0, n1, n2>>
            g == <<d.point, x, d.unit, d.digits>>
            s1 == a \o r
            s2 == s1 \o b
            s3 == s2 \o c
            s4 == s3 \o e
            s5 == s4 \o g
<1>1. /\ d.function \in Bytes \X Bytes /\ d.number \in 0 .. 2^23 - 1 /\ d.digits \in Bytes
      /\ d.point \in Bytes /\ d.prefix \in PREFIX_MAP /\ d.unit \in Bytes
      /\ d.twos \in BOOLEAN /\ (d.twos => d.number # 0)
  BY DEF Display, LcdStates
<1>2. u1 \in Bytes /\ u2 \in Bytes
  BY <1>1
<1>3. n0 \in Bytes /\ n1 \in Bytes /\ n2 \in Bytes
  <2>1. d.number \in Nat /\ d.number < 2^23
    BY <1>1, Powers
  <2>2. v \in Nat /\ v < 2^24
    BY <1>1, <2>1, MantissaArrives
  <2>. HIDE DEF v
  <2>. QED  BY <2>2, ThreeBytes
<1>4. x \in Bytes
  BY <1>1, PrefixArrives
<1>5. f0 \in Bytes /\ f1 \in Bytes
  BY FlagBytes
<1>6. Row(r, 6)
  BY EncodeRtcBytes
<1>. HIDE DEF v, r, f0, f1, n0, n1, n2, x, u1, u2
<1>7. Row(a, 8) /\ a[1] = 255 /\ a[2] = 2 /\ a[3] = 32 /\ a[4] = 5
      /\ a[5] = 1 /\ a[6] = 0 /\ a[7] = 0 /\ a[8] = 1
  BY DEF Row, Bytes
<1>8. Row(b, 4) /\ b[1] = f0 /\ b[2] = f1 /\ b[4] = 1
  BY <1>5 DEF Row, Bytes
<1>9. Row(c, 3) /\ c[1] = u1 /\ c[3] = u2
  BY <1>2 DEF Row, Bytes
<1>10. Row(e, 3) /\ e[1] = n0 /\ e[2] = n1 /\ e[3] = n2
  BY <1>3 DEF Row, Bytes
<1>11. Row(g, 4) /\ g[1] = d.point /\ g[2] = x /\ g[3] = d.unit /\ g[4] = d.digits
  BY <1>1, <1>4 DEF Row, Bytes
<1>12. /\ Joins(s1, a, r) /\ Joins(s2, s1, b) /\ Joins(s3, s2, c) /\ Joins(s4, s3, e)
       /\ Joins(s5, s4, g)
  BY DEF Joins
<1>13. p = Seal(s5)
  <2>1. EncodeReading(d, t, ms) = Seal(s5)
    BY DEF EncodeReading, v, r, f0, f1, n0, n1, n2, x, u1, u2
  <2>. QED  BY <2>1
<1>. HIDE DEF a, b, c, e, g, s1, s2, s3, s4, s5
<1>14. /\ Row(s1, 14) /\ \A i \in 1 .. 8 : s1[i] = a[i]
       /\ \A i \in 1 .. 6 : s1[8 + i] = r[i]
  BY <1>6, <1>7, <1>12, RowConcat
<1>15. /\ Row(s2, 18) /\ \A i \in 1 .. 14 : s2[i] = s1[i]
       /\ \A i \in 1 .. 4 : s2[14 + i] = b[i]
  BY <1>8, <1>12, <1>14, RowConcat
<1>16. /\ Row(s3, 21) /\ \A i \in 1 .. 18 : s3[i] = s2[i]
       /\ \A i \in 1 .. 3 : s3[18 + i] = c[i]
  BY <1>9, <1>12, <1>15, RowConcat
<1>17. /\ Row(s4, 24) /\ \A i \in 1 .. 21 : s4[i] = s3[i]
       /\ \A i \in 1 .. 3 : s4[21 + i] = e[i]
  BY <1>10, <1>12, <1>16, RowConcat
<1>18. /\ Row(s5, 28) /\ \A i \in 1 .. 24 : s5[i] = s4[i]
       /\ \A i \in 1 .. 4 : s5[24 + i] = g[i]
  BY <1>11, <1>12, <1>17, RowConcat
<1>19. /\ p \in [0 .. 31 -> Bytes]
       /\ \A i \in 0 .. 27 : p[i] = s5[i + 1]
       /\ VerifyCrc(p, 2, 28)
  <2>1. Sealed(p, s5, 28)
    BY <1>13, <1>18, SealFacts
  <2>. QED  BY <2>1 DEF Sealed
<1>20. \A i \in 1 .. 8 : p[i - 1] = a[i]
  <2>1. \A i \in 1 .. 8 : /\ i - 1 \in 0 .. 27 /\ (i - 1) + 1 = i /\ i \in 1 .. 14
                          /\ i \in 1 .. 18 /\ i \in 1 .. 21 /\ i \in 1 .. 24
    OBVIOUS
  <2>. QED  BY <1>14, <1>15, <1>16, <1>17, <1>18, <1>19, <2>1
<1>21. \A i \in 1 .. 6 : p[7 + i] = r[i]
  <2>1. \A i \in 1 .. 6 : /\ 7 + i \in 0 .. 27 /\ (7 + i) + 1 = 8 + i /\ 8 + i \in 1 .. 14
                          /\ 8 + i \in 1 .. 18 /\ 8 + i \in 1 .. 21 /\ 8 + i \in 1 .. 24
    OBVIOUS
  <2>. QED  BY <1>14, <1>15, <1>16, <1>17, <1>18, <1>19, <2>1
<1>22. \A i \in 1 .. 4 : p[13 + i] = b[i]
  <2>1. \A i \in 1 .. 4 : /\ 13 + i \in 0 .. 27 /\ (13 + i) + 1 = 14 + i
                          /\ 14 + i \in 1 .. 18 /\ 14 + i \in 1 .. 21 /\ 14 + i \in 1 .. 24
    OBVIOUS
  <2>. QED  BY <1>15, <1>16, <1>17, <1>18, <1>19, <2>1
<1>23. \A i \in 1 .. 3 : p[17 + i] = c[i]
  <2>1. \A i \in 1 .. 3 : /\ 17 + i \in 0 .. 27 /\ (17 + i) + 1 = 18 + i
                          /\ 18 + i \in 1 .. 21 /\ 18 + i \in 1 .. 24
    OBVIOUS
  <2>. QED  BY <1>16, <1>17, <1>18, <1>19, <2>1
<1>24. \A i \in 1 .. 3 : p[20 + i] = e[i]
  <2>1. \A i \in 1 .. 3 : 20 + i \in 0 .. 27 /\ (20 + i) + 1 = 21 + i /\ 21 + i \in 1 .. 24
    OBVIOUS
  <2>. QED  BY <1>17, <1>18, <1>19, <2>1
<1>25. \A i \in 1 .. 4 : p[23 + i] = g[i]
  <2>1. \A i \in 1 .. 4 : 23 + i \in 0 .. 27 /\ (23 + i) + 1 = 24 + i
    OBVIOUS
  <2>. QED  BY <1>18, <1>19, <2>1
<1>26. /\ p[0] = 255 /\ p[1] = 2 /\ p[2] = 32 /\ p[3] = 5
       /\ p[4] = 1 /\ p[5] = 0 /\ p[6] = 0 /\ p[7] = 1
  <2>1. /\ p[1 - 1] = a[1] /\ p[2 - 1] = a[2] /\ p[3 - 1] = a[3] /\ p[4 - 1] = a[4]
        /\ p[5 - 1] = a[5] /\ p[6 - 1] = a[6] /\ p[7 - 1] = a[7] /\ p[8 - 1] = a[8]
    BY <1>20
  <2>. QED  BY <1>7, <2>1
<1>27. /\ p[14] = f0 /\ p[15] = f1 /\ p[17] = 1 /\ p[18] = u1 /\ p[20] = u2
  <2>1. /\ p[13 + 1] = b[1] /\ p[13 + 2] = b[2] /\ p[13 + 4] = b[4]
        /\ p[17 + 1] = c[1] /\ p[17 + 3] = c[3]
    BY <1>22, <1>23
  <2>. QED  BY <1>8, <1>9, <2>1
<1>28. /\ p[21] = n0 /\ p[22] = n1 /\ p[23] = n2
       /\ p[24] = d.point /\ p[25] = x /\ p[26] = d.unit /\ p[27] = d.digits
  <2>1. /\ p[20 + 1] = e[1] /\ p[20 + 2] = e[2] /\ p[20 + 3] = e[3]
        /\ p[23 + 1] = g[1] /\ p[23 + 2] = g[2] /\ p[23 + 3] = g[3] /\ p[23 + 4] = g[4]
    BY <1>24, <1>25
  <2>. QED  BY <1>10, <1>11, <2>1
<1>. QED  BY <1>19, <1>21, <1>26, <1>27, <1>28 DEF Fields, v, r, f0, f1, n0, n1, n2, x, u1, u2

\* A reading parses to what the display shows.
LEMMA ReadingPacket ==
    ASSUME NEW d, Display(d), NEW t \in Moments, NEW ms \in 0 .. 999,
           NEW p, p = EncodeReading(d, t, ms)
    PROVE  /\ p \in [0 .. 31 -> Bytes]
           /\ WellFormed(p, "reading") /\ CrcOk(p, "reading")
           /\ ParseReadingPacket(p) = Faithful(d, t, ms)
<1>. DEFINE v == IF d.twos THEN 2^24 - d.number ELSE d.number
            rtc == ParseRtc(p)
            want == [year |-> t.year, month |-> t.month, date |-> t.date,
                     hour |-> t.hour, minute |-> t.minute, second |-> t.second,
                     millisecond |-> ms]
            ids == <<Slice(p, 4, 7), p[7], p[17]>>
            ok == CrcOk(p, "reading")
            m == Mantissa(p)
            x == Prefix(Signed(p[25], 8))
            fn == <<p[18], p[20]>>
            fl == Flags(p)
            text == IF "ascii" \in fl THEN m ELSE None
<1>1. /\ p \in [0 .. 31 -> Bytes] /\ VerifyCrc(p, 2, 28)
      /\ p[0] = 255 /\ p[1] = 2 /\ p[2] = 32 /\ p[3] = 5
      /\ p[4] = 1 /\ p[5] = 0 /\ p[6] = 0 /\ p[7] = 1
      /\ \A i \in 1 .. 6 : p[7 + i] = EncodeRtc(t, ms)[i]
      /\ p[14] = FlagByte(d.flags, Status0) /\ p[15] = FlagByte(d.flags, Status1)
      /\ p[17] = 1 /\ p[18] = d.function[1] /\ p[20] = d.function[2]
      /\ p[21] = v % 256 /\ p[22] = (v \div 256) % 256 /\ p[23] = v \div 65536
      /\ p[24] = d.point /\ p[25] = d.prefix % 256 /\ p[26] = d.unit /\ p[27] = d.digits
  <2>1. Fields(p, d, t, ms)
    BY ReadingLayout
  <2>. QED  BY <2>1 DEF Fields
<1>2. /\ d.function \in Bytes \X Bytes /\ d.number \in 0 .. 2^23 - 1
      /\ d.prefix \in PREFIX_MAP /\ d.flags \subseteq DOMAIN Status0 \cup DOMAIN Status1
      /\ d.twos \in BOOLEAN /\ (d.twos => d.number # 0)
  BY DEF Display, LcdStates
<1>3. rtc = want
  <2>. DEFINE e == EncodeRtc(t, ms)
  <2>1. e = EncodeRtc(t, ms) /\ \A i \in 1 .. 6 : p[7 + i] = e[i]
    BY <1>1
  <2>. HIDE DEF e
  <2>2. ParseRtc(p) = want
    BY <2>1, RtcArrives
  <2>. QED  BY <2>2
<1>4. fl = d.flags
  BY <1>1, <1>2, FlagsArrive
<1>5. m = d.number
  <2>1. d.number \in Nat /\ d.number < 2^23
    BY <1>2, Powers
  <2>2. v \in Nat /\ v < 2^24 /\ Abs(Signed(v, 24)) = d.number
    BY <1>2, <2>1, MantissaArrives
  <2>3. p[21] = v % 256 /\ p[22] = (v \div 256) % 256 /\ p[23] = v \div 65536
    BY <1>1
  <2>. HIDE DEF v
  <2>4. p[21] + 256 * p[22] + 65536 * p[23] = v
    BY <2>2, <2>3, ThreeBytes
  <2>. QED  BY <2>2, <2>4 DEF Mantissa
<1>6. x = d.prefix
  BY <1>1, <1>2, PrefixArrives
<1>7. ids = <<Packet(<<1, 0, 0>>), 1, 1>>
  <2>1. Slice(p, 4, 7) = [i \in 0 .. 2 |-> p[4 + i]]
    BY DEF Slice
  <2>2. Packet(<<1, 0, 0>>) = [i \in 0 .. 2 |-> <<1, 0, 0>>[i + 1]]
    BY DEF Packet
  <2>3. \A i \in 0 .. 2 : p[4 + i] = <<1, 0, 0>>[i + 1]
    <3>1. \A i \in 0 .. 2 : i = 0 \/ i = 1 \/ i = 2
      OBVIOUS
    <3>. QED  BY <1>1, <3>1
  <2>. QED  BY <1>1, <2>1, <2>2, <2>3
<1>8. fn = d.function
  BY <1>1, <1>2
<1>9. ok = TRUE
  BY <1>1 DEF CrcOk, Layout, VerifyCrc
<1>10. WellFormed(p, "reading")
  BY <1>1 DEF WellFormed, Layout
<1>11. text = IF "ascii" \in d.flags THEN d.number ELSE None
  BY <1>4, <1>5
<1>12. ParseReadingPacket(p) =
         [function_name |-> fn, mantissa |-> m, decimal_pos |-> p[24],
          display_digit_count |-> p[27], prefix |-> x, unit |-> p[26], ids |-> ids,
          rtc |-> rtc, flags |-> fl, ascii_text |-> text, crc_ok |-> ok]
  BY <1>10 DEF ParseReadingPacket
<1>13. Faithful(d, t, ms) =
         [function_name |-> fn, mantissa |-> m, decimal_pos |-> p[24],
          display_digit_count |-> p[27], prefix |-> x, unit |-> p[26], ids |-> ids,
          rtc |-> rtc, flags |-> fl, ascii_text |-> text, crc_ok |-> ok]
  <2>1. p[24] = d.point /\ p[26] = d.unit /\ p[27] = d.digits
    BY <1>1
  <2>2. Faithful(d, t, ms) =
         [function_name |-> d.function, mantissa |-> d.number, decimal_pos |-> d.point,
          display_digit_count |-> d.digits, prefix |-> d.prefix, unit |-> d.unit,
          ids |-> <<Packet(<<1, 0, 0>>), 1, 1>>,
          rtc |-> want, flags |-> d.flags,
          ascii_text |-> IF "ascii" \in d.flags THEN d.number ELSE None, crc_ok |-> TRUE]
    BY DEF Faithful
  <2>. HIDE DEF fn, m, x, ids, rtc, want, fl, text, ok
  <2>. QED  BY <1>3, <1>4, <1>5, <1>6, <1>7, <1>8, <1>9, <1>11, <2>1, <2>2
<1>14. CrcOk(p, "reading")
  BY <1>9
<1>. HIDE DEF fn, m, x, ids, rtc, fl, text, ok
<1>. QED  BY <1>1, <1>10, <1>12, <1>13, <1>14

\* A packet of zeroes cannot become a reading by damage to sixteen bits.
LEMMA ZeroesRefused ==
    ASSUME NEW p, NEW q, NEW D \in SUBSET Nat, Burst(D), Flip(p, q, D, 32),
           \A i \in 0 .. 31 : p[i] = 0
    PROVE  ParseReadingPacket(q) = None
<1>. SUFFICES ASSUME WellFormed(q, "reading") PROVE FALSE
  BY DEF ParseReadingPacket
<1>1. q[0] = 255 /\ q[2] = 32 /\ p[0] = 0 /\ p[2] = 0
  BY DEF WellFormed, Layout
<1>2. Hit(D, 0) = Xor(Bits(p[0]), Bits(q[0])) /\ Hit(D, 2) = Xor(Bits(p[2]), Bits(q[2]))
  BY DEF Flip
<1>3. 0 \in Bits(q[0]) /\ 0 \notin Bits(p[0]) /\ 5 \in Bits(q[2]) /\ 5 \notin Bits(p[2])
  BY <1>1, BitAt
<1>4. 0 \in Hit(D, 0) /\ 5 \in Hit(D, 2)
  BY <1>2, <1>3 DEF Xor
<1>5. 0 \in D /\ 21 \in D
  BY <1>4 DEF Hit
<1>6. PICK s \in Nat : D \subseteq s .. s + 15
  BY DEF Burst
<1>. QED  BY <1>5, <1>6

\* What a parser may make of a packet of which the bits in D were flipped.
Arrived(got, want, D, bits) ==
    /\ got = None \/ got = want \/ ~got.crc_ok
    /\ bits \cap D = {} => got = want

\* What arrives of an info packet.
LEMMA InfoArrives ==
    ASSUME NEW p, NEW q, NEW D \in SUBSET Nat, Burst(D), Flip(p, q, D, 24),
           WellFormed(p, "info"), CrcOk(p, "info")
    PROVE  Arrived(ParseInfoPacket(q), ParseInfoPacket(p), D, 0 .. 191)
<1>1. "info" \in DOMAIN Layout /\ Layout["info"].length = 24
  BY DEF Layout
<1>2. /\ ~WellFormed(q, "info") \/ ~CrcOk(q, "info") \/ Alike(p, q, "info")
      /\ D \cap (0 .. 8 * 24 - 1) = {} => q = p
  BY <1>1, NoticedByParsers
<1>3. ~WellFormed(q, "info") => ParseInfoPacket(q) = None
  BY DEF ParseInfoPacket
<1>4. WellFormed(q, "info") /\ ~CrcOk(q, "info") => ~ParseInfoPacket(q).crc_ok
  BY DEF ParseInfoPacket
<1>5. Alike(p, q, "info") => ParseInfoPacket(q) = ParseInfoPacket(p)
  BY AlikeInfos
<1>. QED  BY <1>2, <1>3, <1>4, <1>5 DEF Arrived

\* What arrives of a reading.
LEMMA ReadingArrives ==
    ASSUME NEW p, NEW q, NEW D \in SUBSET Nat, Burst(D), Flip(p, q, D, 32),
           WellFormed(p, "reading"), CrcOk(p, "reading")
    PROVE  Arrived(ParseReadingPacket(q), ParseReadingPacket(p), D, 0 .. 255)
<1>1. "reading" \in DOMAIN Layout /\ Layout["reading"].length = 32
  BY DEF Layout
<1>2. /\ ~WellFormed(q, "reading") \/ ~CrcOk(q, "reading") \/ Alike(p, q, "reading")
      /\ D \cap (0 .. 8 * 32 - 1) = {} => q = p
  BY <1>1, NoticedByParsers
<1>3. ~WellFormed(q, "reading") => ParseReadingPacket(q) = None
  BY DEF ParseReadingPacket
<1>4. WellFormed(q, "reading") /\ ~CrcOk(q, "reading") => ~ParseReadingPacket(q).crc_ok
  BY DEF ParseReadingPacket
<1>5. Alike(p, q, "reading") => ParseReadingPacket(q) = ParseReadingPacket(p)
  BY AlikeReadings
<1>. QED  BY <1>2, <1>3, <1>4, <1>5 DEF Arrived

\* f is a frame of the info packet e and n readings g.
FrameOf(f, e, g, n) ==
    /\ f \in [0 .. 151 -> Bytes]
    /\ Slice(f, 0, 24) = e
    /\ \A i \in 1 .. 4 : LET a == 24 + (i - 1) * 32 IN
          /\ i <= n => Slice(f, a, a + 32) = g
          /\ i > n => \A k \in 0 .. 31 : Slice(f, a, a + 32)[k] = 0

\* The parser finds the packets of a notification where the meter puts them.
LEMMA FrameSlices ==
    ASSUME NEW d, Display(d), NEW t \in Moments, NEW ms \in 0 .. 999, NEW n \in 1 .. 2,
           NEW f, f = EncodeFrame(d, t, ms, n)
    PROVE  FrameOf(f, EncodeInfo, EncodeReading(d, t, ms), n)
<1>. DEFINE e == EncodeInfo
            r == EncodeReading(d, t, ms)
<1>1. e \in [0 .. 23 -> Bytes]
  BY InfoPacket
<1>2. r \in [0 .. 31 -> Bytes]
  BY ReadingPacket
<1>3. f = [i \in 0 .. 151 |->
             CASE i < 24 -> e[i]
               [] i >= 24 /\ i < 24 + 32 * n -> r[(i - 24) % 32]
               [] OTHER -> 0]
  BY DEF EncodeFrame, FrameLength
<1>. HIDE DEF e, r
<1>4. /\ \A i \in 0 .. 151 : i < 24 => f[i] = e[i]
      /\ \A i \in 0 .. 151 : i >= 24 /\ i < 24 + 32 * n => f[i] = r[(i - 24) % 32]
      /\ \A i \in 0 .. 151 : i >= 24 + 32 * n => f[i] = 0
  BY <1>3
<1>5. f \in [0 .. 151 -> Bytes]
  <2>1. ASSUME NEW i \in 0 .. 151 PROVE f[i] \in Bytes
    <3>1. CASE i < 24
      BY <1>1, <1>4, <3>1
    <3>2. CASE i >= 24 /\ i < 24 + 32 * n
      <4>1. (i - 24) % 32 \in 0 .. 31
        BY <3>2
      <4>. QED  BY <1>2, <1>4, <3>2, <4>1
    <3>3. CASE i >= 24 + 32 * n
      BY <1>4, <3>3 DEF Bytes
    <3>. QED  BY <3>1, <3>2, <3>3
  <2>. QED  BY <1>3, <2>1
<1>6. Slice(f, 0, 24) = e
  <2>1. Slice(f, 0, 24) = [i \in 0 .. 23 |-> f[0 + i]]
    BY DEF Slice
  <2>2. \A i \in 0 .. 23 : f[0 + i] = e[i]
    BY <1>4
  <2>. QED  BY <1>1, <2>1, <2>2
<1>7. ASSUME NEW i \in 1 .. 4, NEW a, a = 24 + (i - 1) * 32
      PROVE  /\ i <= n => Slice(f, a, a + 32) = r
             /\ i > n => \A k \in 0 .. 31 : Slice(f, a, a + 32)[k] = 0
  <2>1. a \in Nat /\ Slice(f, a, a + 32) = [k \in 0 .. 31 |-> f[a + k]]
    BY <1>7 DEF Slice
  <2>2. ASSUME i <= n PROVE Slice(f, a, a + 32) = r
    <3>1. \A k \in 0 .. 31 : /\ a + k \in 0 .. 151 /\ a + k >= 24 /\ a + k < 24 + 32 * n
                             /\ ((a + k) - 24) % 32 = k
      BY <1>7, <2>2
    <3>2. \A k \in 0 .. 31 : f[a + k] = r[k]
      BY <1>4, <3>1
    <3>. QED  BY <1>2, <2>1, <3>2
  <2>3. ASSUME i > n PROVE \A k \in 0 .. 31 : Slice(f, a, a + 32)[k] = 0
    <3>1. \A k \in 0 .. 31 : a + k \in 0 .. 151 /\ a + k >= 24 + 32 * n
      BY <1>7, <2>3
    <3>. QED  BY <1>4, <2>1, <3>1
  <2>. QED  BY <2>2, <2>3
<1>. QED  BY <1>5, <1>6, <1>7 DEF FrameOf, e, r

\* The types of what the parsers return, for any bytes.
LEMMA InfoType ==
    ASSUME NEW q \in [0 .. 23 -> Bytes]
    PROVE  ParseInfoPacket(q) \in Infos \cup {None}
<1>1. /\ q[5] \in Bytes /\ q[12] \in Bytes /\ q[13] \in Bytes /\ q[16] \in Bytes
      /\ q[19] \in Bytes
  OBVIOUS
<1>2. [i \in 1 .. 6 |-> q[12 - i]] \in [1 .. 6 -> Bytes]
  <2>1. \A i \in 1 .. 6 : 12 - i \in 0 .. 23
    OBVIOUS
  <2>. QED  BY <2>1
<1>3. CrcOk(q, "info") \in BOOLEAN
  BY DEF CrcOk, VerifyCrc
<1>. QED  BY <1>1, <1>2, <1>3 DEF ParseInfoPacket, Infos

LEMMA MantissaType ==
    ASSUME NEW p, p[21] \in Bytes, p[22] \in Bytes, p[23] \in Bytes
    PROVE  Mantissa(p) \in 0 .. 2^23
<1>. DEFINE v == p[21] + 256 * p[22] + 65536 * p[23]
<1>1. v \in Nat /\ v < 256 * 65536
  <2>. DEFINE a == p[21]
              b == p[22]
              c == p[23]
  <2>1. a \in Nat /\ a <= 255 /\ b \in Nat /\ b <= 255 /\ c \in Nat /\ c <= 255
    BY DEF Bytes
  <2>2. v = a + 256 * b + 65536 * c
    OBVIOUS
  <2>. HIDE DEF v, a, b, c
  <2>. QED  BY <2>1, <2>2
<1>2. Mantissa(p) = Abs(Signed(v, 24))
  BY DEF Mantissa
<1>. HIDE DEF v
<1>. QED  BY <1>1, <1>2, Powers DEF Abs, Signed

LEMMA RtcType ==
    ASSUME NEW p, \A i \in 8 .. 13 : p[i] \in Bytes
    PROVE  ParseRtc(p) \in [year : Nat, month : Nat, date : Nat, hour : Nat,
                            minute : Nat, second : Nat, millisecond : Nat]
<1>. DEFINE y  == 2000 + ((p[13] \div 2) % 128)
            mo == 8 * (p[13] % 2) + ((p[12] \div 32) % 8)
            da == p[12] % 32
            ho == ((p[10] \div 64) % 4) + 4 * (p[11] % 8)
            mi == p[10] % 64
            se == (p[9] \div 4) % 64
            x  == 256 * (p[9] % 4) + p[8]
            mm == Min({999, x})
<1>1. \A b \in Bytes : b \in Nat
  BY DEF Bytes
<1>2. /\ p[8] \in Nat /\ p[9] \in Nat /\ p[10] \in Nat /\ p[11] \in Nat
      /\ p[12] \in Nat /\ p[13] \in Nat
  BY <1>1
<1>3. /\ y \in Nat /\ mo \in Nat /\ da \in Nat /\ ho \in Nat /\ mi \in Nat
      /\ se \in Nat /\ x \in Nat
  BY <1>2
<1>4. ParseRtc(p) = [year |-> y, month |-> mo, date |-> da, hour |-> ho, minute |-> mi,
                     second |-> se, millisecond |-> mm]
  BY DEF ParseRtc
<1>. HIDE DEF y, mo, da, ho, mi, se, x
<1>5. mm \in Nat
  <2>1. CASE x <= 999
    BY <1>3, <2>1, MinOfTwo
  <2>2. CASE 999 <= x
    <3>1. {999, x} = {x, 999}
      OBVIOUS
    <3>2. Min({x, 999}) = 999
      BY <1>3, <2>2, MinOfTwo
    <3>. QED  BY <3>1, <3>2
  <2>. QED  BY <1>3, <2>1, <2>2
<1>. HIDE DEF mm
<1>. QED  BY <1>3, <1>4, <1>5

LEMMA ReadingType ==
    ASSUME NEW q \in [0 .. 31 -> Bytes]
    PROVE  ParseReadingPacket(q) \in Readings \cup {None}
<1>. DEFINE fn == <<q[18], q[20]>>
            m == Mantissa(q)
            x == Prefix(Signed(q[25], 8))
            ids == <<Slice(q, 4, 7), q[7], q[17]>>
            rtc == ParseRtc(q)
            fl == Flags(q)
            text == IF "ascii" \in fl THEN m ELSE None
            ok == CrcOk(q, "reading")
<1>1. /\ q[7] \in Bytes /\ q[17] \in Bytes /\ q[18] \in Bytes /\ q[20] \in Bytes
      /\ q[21] \in Bytes /\ q[22] \in Bytes /\ q[23] \in Bytes /\ q[24] \in Bytes
      /\ q[26] \in Bytes /\ q[27] \in Bytes
  OBVIOUS
<1>2. m \in 0 .. 2^23
  BY <1>1, MantissaType
<1>3. rtc \in [year : Nat, month : Nat, date : Nat, hour : Nat,
               minute : Nat, second : Nat, millisecond : Nat]
  <2>1. \A i \in 8 .. 13 : q[i] \in Bytes
    OBVIOUS
  <2>. QED  BY <2>1, RtcType
<1>4. ids \in [0 .. 2 -> Bytes] \X Bytes \X Bytes
  <2>1. Slice(q, 4, 7) = [i \in 0 .. 2 |-> q[4 + i]]
    BY DEF Slice
  <2>2. \A i \in 0 .. 2 : 4 + i \in 0 .. 31
    OBVIOUS
  <2>3. Slice(q, 4, 7) \in [0 .. 2 -> Bytes]
    BY <2>1, <2>2
  <2>. QED  BY <1>1, <2>3
<1>5. fl \in SUBSET (DOMAIN Status0 \cup DOMAIN Status1)
  BY DEF Flags
<1>6. x \in PREFIX_MAP \cup {None}
  BY DEF Prefix
<1>7. text \in Nat \cup {None}
  <2>1. m \in Nat
    BY <1>2
  <2>. QED  BY <2>1
<1>8. ok \in BOOLEAN
  BY DEF CrcOk, VerifyCrc
<1>9. fn \in Bytes \X Bytes
  BY <1>1
<1>10. WellFormed(q, "reading") =>
       ParseReadingPacket(q) =
         [function_name |-> fn, mantissa |-> m, decimal_pos |-> q[24],
          display_digit_count |-> q[27], prefix |-> x, unit |-> q[26], ids |-> ids,
          rtc |-> rtc, flags |-> fl, ascii_text |-> text, crc_ok |-> ok]
  BY DEF ParseReadingPacket
<1>11. ~WellFormed(q, "reading") => ParseReadingPacket(q) = None
  BY DEF ParseReadingPacket
<1>. HIDE DEF fn, m, x, ids, rtc, fl, text, ok
<1>12. [function_name |-> fn, mantissa |-> m, decimal_pos |-> q[24],
        display_digit_count |-> q[27], prefix |-> x, unit |-> q[26], ids |-> ids,
        rtc |-> rtc, flags |-> fl, ascii_text |-> text, crc_ok |-> ok] \in Readings
  BY <1>1, <1>2, <1>3, <1>4, <1>5, <1>6, <1>7, <1>8, <1>9 DEF Readings
<1>. QED  BY <1>10, <1>11, <1>12

\* Where the parser of frames finds what it parses.
LEMMA ParsedFrame ==
    ASSUME NEW q \in [0 .. 151 -> Bytes]
    PROVE  LET r == ParseStreamFrame(q) IN
           /\ r # None
           /\ r.info = ParseInfoPacket(Slice(q, 0, 24))
           /\ \A i \in 1 .. 4 : LET a == 24 + (i - 1) * 32 IN
                 r.readings[i] = ParseReadingPacket(Slice(q, a, a + 32))
<1>. DEFINE e == ParseInfoPacket(Slice(q, 0, 24))
            at32(i) == 24 + (i - 1) * 32
            s == [i \in 1 .. 4 |-> ParseReadingPacket(Slice(q, at32(i), at32(i) + 32))]
<1>1. ParseStreamFrame(q) = [info |-> e, readings |-> s]
  BY DEF ParseStreamFrame, FrameLength, ReadingsPerFrame, ReadingBytes, ReadingStart, Layout
<1>2. e \in Infos \cup {None}
  <2>1. Slice(q, 0, 24) = [i \in 0 .. 23 |-> q[0 + i]]
    BY DEF Slice
  <2>2. Slice(q, 0, 24) \in [0 .. 23 -> Bytes]
    BY <2>1
  <2>. QED  BY <2>2, InfoType
<1>3. ASSUME NEW i \in 1 .. 4 PROVE s[i] \in Readings \cup {None}
  <2>. DEFINE a == at32(i)
  <2>1. a \in Nat /\ a + 31 <= 151
    OBVIOUS
  <2>2. s[i] = ParseReadingPacket(Slice(q, a, a + 32))
    OBVIOUS
  <2>. HIDE DEF a, s
  <2>3. Slice(q, a, a + 32) = [k \in 0 .. 31 |-> q[a + k]]
    BY <2>1 DEF Slice
  <2>4. \A k \in 0 .. 31 : a + k \in 0 .. 151
    BY <2>1
  <2>5. Slice(q, a, a + 32) \in [0 .. 31 -> Bytes]
    BY <2>3, <2>4
  <2>. QED  BY <2>2, <2>5, ReadingType
<1>4. s = [i \in 1 .. 4 |-> s[i]]
  OBVIOUS
<1>5. \A i \in 1 .. 4 : s[i] = ParseReadingPacket(Slice(q, at32(i), at32(i) + 32))
  OBVIOUS
<1>. HIDE DEF e, s
<1>6. s \in [1 .. 4 -> Readings \cup {None}]
  BY <1>3, <1>4
<1>7. [info |-> e, readings |-> s] \in Frames
  BY <1>2, <1>6 DEF Frames, ReadingsPerFrame
<1>8. ParseStreamFrame(q) # None
  BY <1>1, <1>7, NoneAssumption
<1>. QED  BY <1>1, <1>5, <1>8 DEF e

\* r is what arrived of the packets of a frame.
ArrivedFrame(r, D, d, t, ms, n) ==
    /\ r # None
    /\ Arrived(r.info, FaithfulInfo, D, 0 .. 191)
    /\ \A i \in 1 .. 4 :
          Arrived(r.readings[i], IF i > n THEN None ELSE Faithful(d, t, ms), D,
                  8 * ReadingStart(i) .. 8 * ReadingStart(i) + 255)

\* What arrives of a notification.
LEMMA FrameArrives ==
    ASSUME NEW d, Display(d), NEW t \in Moments, NEW ms \in 0 .. 999, NEW n \in 1 .. 2,
           NEW f, f = EncodeFrame(d, t, ms, n),
           NEW q, NEW D \in SUBSET Nat, Burst(D), Flip(f, q, D, 152),
           NEW r, r = ParseStreamFrame(q)
    PROVE  ArrivedFrame(r, D, d, t, ms, n)
<1>. DEFINE e == EncodeInfo
            g == EncodeReading(d, t, ms)
<1>1. /\ f \in [0 .. 151 -> Bytes]
      /\ Slice(f, 0, 24) = e
      /\ \A i \in 1 .. 4 : LET a == 24 + (i - 1) * 32 IN
            /\ i <= n => Slice(f, a, a + 32) = g
            /\ i > n => \A k \in 0 .. 31 : Slice(f, a, a + 32)[k] = 0
  <2>1. FrameOf(f, e, g, n)
    BY FrameSlices
  <2>. QED  BY <2>1 DEF FrameOf
<1>2. q \in [0 .. 151 -> Bytes]
  BY DEF Flip
<1>3. /\ r # None
      /\ r.info = ParseInfoPacket(Slice(q, 0, 24))
      /\ \A i \in 1 .. 4 : LET a == 24 + (i - 1) * 32 IN
            r.readings[i] = ParseReadingPacket(Slice(q, a, a + 32))
  BY <1>2, ParsedFrame
<1>4. WellFormed(e, "info") /\ CrcOk(e, "info") /\ ParseInfoPacket(e) = FaithfulInfo
  BY InfoPacket
<1>5. /\ WellFormed(g, "reading") /\ CrcOk(g, "reading")
      /\ ParseReadingPacket(g) = Faithful(d, t, ms)
  <2>1. g = EncodeReading(d, t, ms)
    OBVIOUS
  <2>. HIDE DEF g
  <2>2. WellFormed(g, "reading")
    BY <2>1, ReadingPacket
  <2>3. CrcOk(g, "reading")
    BY <2>1, ReadingPacket
  <2>4. ParseReadingPacket(g) = Faithful(d, t, ms)
    BY <2>1, ReadingPacket
  <2>. QED  BY <2>2, <2>3, <2>4
<1>. HIDE DEF e, g
<1>. DEFINE len == 152
<1>6. len = 152 /\ len \in Nat /\ Flip(f, q, D, len)
  OBVIOUS
<1>. HIDE DEF len
<1>7. Arrived(r.info, FaithfulInfo, D, 0 .. 191)
  <2>. DEFINE a == 0
              m == 24
              s == Slice(q, a, a + m)
              E == From(D, a)
  <2>1. a \in Nat /\ m \in Nat /\ a + m <= len /\ a = 0 /\ m = 24
    BY <1>6
  <2>. HIDE DEF a, m
  <2>2. /\ Flip(Slice(f, a, a + m), s, E, m)
        /\ E \in SUBSET Nat /\ Burst(E)
        /\ \A k \in Nat : D \cap (8 * a .. 8 * a + k) = {} => E \cap (0 .. k) = {}
    <3>1. FlippedPart(f, q, D, a, m)
      BY <1>6, <2>1, FlipSlice
    <3>. QED  BY <3>1 DEF FlippedPart
  <2>3. Slice(f, a, a + m) = e /\ s = Slice(q, 0, 24) /\ 8 * a = 0 /\ 8 * a + 191 = 191
    BY <1>1, <2>1
  <2>. HIDE DEF s, E
  <2>4. Flip(e, s, E, 24)
    BY <2>1, <2>2, <2>3
  <2>5. Arrived(ParseInfoPacket(s), FaithfulInfo, E, 0 .. 191)
    BY <1>4, <2>2, <2>4, InfoArrives
  <2>6. D \cap (0 .. 191) = {} => E \cap (0 .. 191) = {}
    <3>1. 191 \in Nat
      OBVIOUS
    <3>. QED  BY <2>2, <2>3, <3>1
  <2>. QED  BY <1>3, <2>3, <2>5, <2>6 DEF Arrived
<1>8. ASSUME NEW i \in 1 .. 4
      PROVE  Arrived(r.readings[i], IF i > n THEN None ELSE Faithful(d, t, ms), D,
                     8 * ReadingStart(i) .. 8 * ReadingStart(i) + 255)
  <2>. DEFINE a == 24 + (i - 1) * 32
              m == 32
              s == Slice(q, a, a + m)
              E == From(D, a)
              w == IF i > n THEN None ELSE Faithful(d, t, ms)
  <2>1. a \in Nat /\ m \in Nat /\ a + m <= len /\ m = 32
    BY <1>6
  <2>2. /\ i <= n => Slice(f, a, a + m) = g
        /\ i > n => \A k \in 0 .. 31 : Slice(f, a, a + m)[k] = 0
    BY <1>1
  <2>3. r.readings[i] = ParseReadingPacket(s)
    BY <1>3
  <2>4. ReadingStart(i) = a
    BY DEF ReadingStart, Layout
  <2>. HIDE DEF a, m
  <2>5. /\ Flip(Slice(f, a, a + m), s, E, m)
        /\ E \in SUBSET Nat /\ Burst(E)
        /\ \A k \in Nat : D \cap (8 * a .. 8 * a + k) = {} => E \cap (0 .. k) = {}
    <3>1. FlippedPart(f, q, D, a, m)
      BY <1>6, <2>1, FlipSlice
    <3>. QED  BY <3>1 DEF FlippedPart
  <2>. HIDE DEF s, E
  <2>6. D \cap (8 * a .. 8 * a + 255) = {} => E \cap (0 .. 255) = {}
    <3>1. 255 \in Nat
      OBVIOUS
    <3>. QED  BY <2>5, <3>1
  <2>7. CASE i <= n
    <3>1. Flip(g, s, E, 32)
      BY <2>1, <2>2, <2>5, <2>7
    <3>2. Arrived(ParseReadingPacket(s), Faithful(d, t, ms), E, 0 .. 255)
      BY <1>5, <2>5, <3>1, ReadingArrives
    <3>3. w = Faithful(d, t, ms)
      BY <2>7
    <3>. HIDE DEF w
    <3>4. Arrived(r.readings[i], w, D, 8 * a .. 8 * a + 255)
      BY <2>3, <2>6, <3>2, <3>3 DEF Arrived
    <3>. QED  BY <2>4, <3>4 DEF w
  <2>8. CASE i > n
    <3>. DEFINE z == Slice(f, a, a + m)
    <3>1. Flip(z, s, E, 32) /\ \A k \in 0 .. 31 : z[k] = 0
      BY <2>1, <2>2, <2>5, <2>8
    <3>. HIDE DEF z
    <3>2. ParseReadingPacket(s) = None
      BY <2>5, <3>1, ZeroesRefused
    <3>3. w = None
      BY <2>8
    <3>. HIDE DEF w
    <3>4. Arrived(r.readings[i], w, D, 8 * a .. 8 * a + 255)
      BY <2>3, <3>2, <3>3 DEF Arrived
    <3>. QED  BY <2>4, <3>4 DEF w
  <2>. QED  BY <2>7, <2>8
<1>. QED  BY <1>3, <1>7, <1>8 DEF ArrivedFrame

\* Of a notification that was cut short nothing is read.
LEMMA CutFrame ==
    ASSUME NEW f, NEW n \in {24, 56, 151}
    PROVE  DOMAIN Slice(f, 0, n) # 0 .. FrameLength - 1 /\ ParseStreamFrame(Slice(f, 0, n)) = None
<1>1. DOMAIN Slice(f, 0, n) = 0 .. n - 1
  BY DEF Slice
<1>2. 151 \in 0 .. FrameLength - 1 /\ 151 \notin 0 .. n - 1
  BY DEF FrameLength
<1>3. DOMAIN Slice(f, 0, n) # 0 .. FrameLength - 1
  BY <1>1, <1>2
<1>. QED  BY <1>3 DEF ParseStreamFrame

\* What is printed of a reading that arrived.
LEMMA FaithfulShown ==
    ASSUME NEW d, Display(d), NEW t, NEW ms
    PROVE  ReadingLine(Faithful(d, t, ms)) = <<d.function, Lcd(d)>> \/ Faithful(d, t, ms) = None
<1>. DEFINE r == Faithful(d, t, ms)
<1>1. /\ r.function_name = d.function /\ r.mantissa = d.number /\ r.decimal_pos = d.point
      /\ r.display_digit_count = d.digits /\ r.prefix = d.prefix /\ r.unit = d.unit
      /\ r.flags = d.flags
      /\ r.ascii_text = IF "ascii" \in d.flags THEN d.number ELSE None
  BY DEF Faithful
<1>2. d.number \in 0 .. 2^23 - 1 /\ d.digits \in Bytes /\ d.point \in Bytes
      /\ (d.point = 0 \/ d.digits - d.point \in 0 .. 6)
  BY DEF Display, LcdStates
<1>. HIDE DEF r
<1>3. Decimals(r) = IF d.point = 0 THEN 0 ELSE d.digits - d.point
  <2>. DEFINE k == d.digits - d.point
  <2>1. CASE d.point = 0
    BY <1>1, <2>1 DEF Decimals
  <2>2. CASE d.point # 0
    <3>1. k \in 0 .. 6
      BY <1>2, <2>2
    <3>2. Decimals(r) = Min({6, Max({0, k})})
      BY <1>1, <2>2 DEF Decimals
    <3>. HIDE DEF k
    <3>3. Max({0, k}) = k
      <4>1. 0 \in Int /\ k \in Int /\ 0 <= k
        BY <3>1
      <4>. QED  BY <4>1, MaxOfTwo
    <3>4. Min({6, k}) = k
      <4>1. 6 \in Int /\ k \in Int /\ k <= 6
        BY <3>1
      <4>. QED  BY <4>1, MinOfTwo
    <3>5. Decimals(r) = k
      BY <3>2, <3>3, <3>4
    <3>. QED  BY <2>2, <3>5 DEF k
  <2>. QED  BY <2>1, <2>2
<1>4. d.number \in Nat
  BY <1>2, Powers
<1>5. (SignedValue(r) < 0) = ("negative" \in d.flags /\ d.number # 0)
  BY <1>1, <1>4 DEF SignedValue
<1>6. r # None => FormatReading(r) = Lcd(d)
  BY <1>1, <1>3, <1>5 DEF FormatReading, Lcd
<1>7. r # None => ReadingLine(r) = <<d.function, Lcd(d)>>
  BY <1>1, <1>6 DEF ReadingLine
<1>. QED  BY <1>7 DEF r

-----------------------------------------------------------------------------
(* The inductive invariant.                                                *)

\* What is on the air is the packet p of n bytes, with one burst of bits flipped.
Transit(p, n) == damage \in SUBSET Nat /\ Burst(damage) /\ Flip(p, bytes, damage, n)

\* A command carries what its caller asked for.  While one sets the clock the
\* computer does not know the time.
RequestInv ==
    /\ \/ meant.id = CommandIds.verify /\ asked = None /\ meant.args \in Guesses
       \/ /\ meant.id = CommandIds.rtc /\ asked \in Times /\ synced = None
          /\ meant.args = EncodeRtcTimeArgs(asked)
    /\ Transit(BuildCommandPacket(Address, meant.id, meant.args), 32)

\* A response says what it was meant to, and no failure only if the clock was set.
ReplyInv ==
    /\ \E p : /\ WellFormed(p, "response") /\ CrcOk(p, "response")
              /\ ParseCommandResponse(p) # None
              /\ Answer(ParseCommandResponse(p)) = meant
              /\ Transit(p, 32)
    /\ asked # None => meant.command_id = CMD_FAILURE \/ clock = asked

SentFrame == EncodeFrame(meant.display, clock, meant.millisecond, meant.readings)

\* A notification is of the display and of the clock as it still is.
FrameInv ==
    /\ meant.display \in Displays /\ meant.millisecond \in Milliseconds
    /\ meant.readings \in 1 .. 2
    /\ \/ Transit(SentFrame, 152)
       \/ damage # {} /\ \E n \in {24, 56, 151} : bytes = Slice(SentFrame, 0, n)

WireInv ==
    /\ at \in OnAir \cup {"idle", "readReply", "readFrame"}
    /\ clock \in Moments
    /\ synced # None => clock = synced
    /\ at = "request" => RequestInv
    /\ at \in {"reply", "readReply"} => ReplyInv
    /\ at \in {"frame", "readFrame"} => FrameInv
    /\ at = "readReply" => result = ParseCommandResponse(bytes)
    /\ at = "readFrame" => result = ParseStreamFrame(bytes)

-----------------------------------------------------------------------------
(* Damage.                                                                 *)

\* A packet that was just put on the air.
LEMMA Undamaged ==
    ASSUME NEW n \in Nat, NEW p \in [0 .. n - 1 -> Bytes]
    PROVE  /\ {} \in SUBSET Nat /\ Burst({}) /\ Flip(p, p, {}, n)
<1>1. Burst({})
  BY DEF Burst
<1>2. \A i \in 0 .. n - 1 : Hit({}, i) = {} /\ Xor(Bits(p[i]), Bits(p[i])) = {}
  BY DEF Hit, Xor
<1>3. Flip(p, p, {}, n)
  BY <1>2 DEF Flip
<1>. QED  BY <1>1, <1>3

\* An undamaged packet is as it was sent.
LEMMA NotFlipped ==
    ASSUME NEW n \in Nat, NEW p, NEW q, Flip(p, q, {}, n)
    PROVE  q = p
<1>1. \A i \in 0 .. n - 1 : Hit({}, i) = {}
  BY DEF Hit
<1>2. \A i \in 0 .. n - 1 : q[i] = p[i]
  BY <1>1 DEF Flip
<1>3. p = [i \in 0 .. n - 1 |-> p[i]] /\ q = [i \in 0 .. n - 1 |-> q[i]]
  BY DEF Flip
<1>. QED  BY <1>2, <1>3

\* Damage to a packet under way is one burst.
LEMMA DamageStep ==
    ASSUME Damage, NEW n \in Nat, NEW p, Transit(p, n)
    PROVE  damage' \in SUBSET Nat /\ Burst(damage') /\ Flip(p, bytes', damage', n)
<1>1. bytes = p /\ p \in [0 .. n - 1 -> Bytes]
  <2>1. Flip(p, bytes, {}, n)
    BY DEF Damage, Transit
  <2>. QED  BY <2>1, NotFlipped DEF Flip
<1>2. Cardinality(DOMAIN bytes) \in Nat
  <2>1. DOMAIN bytes = 0 .. n - 1
    BY <1>1
  <2>2. 0 \in Int /\ n - 1 \in Int
    OBVIOUS
  <2>3. Cardinality(0 .. n - 1) = IF 0 > n - 1 THEN 0 ELSE (n - 1) - 0 + 1
    BY <2>2, FS_Interval
  <2>. QED  BY <2>1, <2>3
<1>3. PICK start \in 0 .. 8 * Cardinality(DOMAIN bytes) - 1, b \in Bursts :
         damage' = {start + i : i \in b} /\ bytes' = Flipped(bytes, damage')
  BY DEF Damage
<1>4. start \in Nat
  BY <1>2
<1>5. b \subseteq 0 .. 15
  BY BurstAssumption
<1>6. damage' \in SUBSET Nat /\ Burst(damage')
  <2>1. \A x \in damage' : x \in Nat /\ x >= start /\ x <= start + 15
    BY <1>3, <1>4, <1>5
  <2>2. damage' \subseteq start .. start + 15
    BY <1>4, <2>1
  <2>. QED  BY <1>4, <2>1, <2>2 DEF Burst
<1>. DEFINE D == damage'
            q == bytes'
<1>7. D \in SUBSET Nat /\ q = Flipped(p, D)
  BY <1>1, <1>3, <1>6
<1>. HIDE DEF D, q
<1>8. Flip(p, q, D, n)
  BY <1>1, <1>7, FlippedFlips
<1>. QED  BY <1>6, <1>8 DEF D, q

-----------------------------------------------------------------------------
(* What each step puts on the air.                                         *)

\* The arguments of the commands modelled.
LEMMA CommandArgs ==
    /\ \A g \in Guesses : Row(g, 4)
    /\ \A t \in Times : Row(EncodeRtcTimeArgs(t), 14) /\ ClockOf(Padded(EncodeRtcTimeArgs(t))) = t
<1>1. ASSUME NEW g \in Guesses PROVE Row(g, 4)
  <2>1. g \in [1 .. 4 -> 0 .. 9]
    BY PasswordAssumption
  <2>2. g \in [1 .. 4 -> Bytes]
    <3>1. \A x \in 0 .. 9 : x \in Bytes
      BY DEF Bytes
    <3>. QED  BY <2>1, <3>1
  <2>3. 4 \in Nat
    OBVIOUS
  <2>. QED  BY <2>2, <2>3, RowFunction
<1>2. ASSUME NEW t \in Times
      PROVE  Row(EncodeRtcTimeArgs(t), 14) /\ ClockOf(Padded(EncodeRtcTimeArgs(t))) = t
  <2>. DEFINE a == EncodeRtcTimeArgs(t)
              n == 14
  <2>1. t \in Moments
    BY TimeAssumption
  <2>2. Row(a, n) /\ ClockOf(a) = t
    BY <2>1, RtcArgs
  <2>3. n \in Nat /\ n <= 14 /\ n = 14
    OBVIOUS
  <2>. HIDE DEF a, n
  <2>4. Padded(a) = a
    BY <2>2, <2>3, PaddedRow
  <2>. QED  BY <2>2, <2>3, <2>4 DEF a
<1>. QED  BY <1>1, <1>2

\* A command packet, whatever reaches the meter of it.
Understood(id, args, q, D) ==
    LET asIs == [id |-> id, args |-> Padded(args)] IN
    /\ DecodeCommand(q) \in {None, asIs}
    /\ D = {} => DecodeCommand(q) = asIs

\* What the meter makes of a command packet, whatever reaches it of it.
LEMMA Commanded ==
    ASSUME NEW id \in Nat, id \div 256 \in Bytes, NEW n \in Nat, n <= 14, NEW args, Row(args, n),
           NEW p, p = BuildCommandPacket(Address, id, args)
    PROVE  /\ p \in [0 .. 31 -> Bytes]
           /\ \A q, D : D \in SUBSET Nat /\ Burst(D) /\ Flip(p, q, D, 32) => Understood(id, args, q, D)
<1>. DEFINE a == Padded(args)
<1>1. Row(a, 14)
  BY PaddedRow
<1>2. p = Seal(CommandBytes(1, id, a))
  BY RequestPacket
<1>. HIDE DEF a
<1>3. p \in [0 .. 31 -> Bytes]
  <2>1. 1 \in Bytes
    BY DEF Bytes
  <2>. QED  BY <1>1, <1>2, <2>1, CommandPacket
<1>4. ASSUME NEW q, NEW D, D \in SUBSET Nat, Burst(D), Flip(p, q, D, 32)
      PROVE  Understood(id, args, q, D)
  <2>1. /\ DecodeCommand(q) \in {None, Asked(id, a)}
        /\ D = {} => DecodeCommand(q) = Asked(id, a)
    BY <1>1, <1>2, <1>4, DecodeArrives
  <2>. QED  BY <2>1 DEF Understood, Asked, a
<1>. QED  BY <1>3, <1>4

\* The codes in use differ.
LEMMA Codes ==
    /\ CommandIds.verify = 337 /\ CommandIds.rtc = 16 /\ CMD_FAILURE = 32769
    /\ CommandIds.verify \in Nat /\ CommandIds.verify \div 256 \in Bytes
    /\ CommandIds.rtc \in Nat /\ CommandIds.rtc \div 256 \in Bytes
BY DEF CommandIds, CMD_FAILURE, Bytes

\* A command under way is understood as asked or not at all.
LEMMA RequestUnderstood ==
    ASSUME RequestInv
    PROVE  /\ Understood(meant.id, meant.args, bytes, damage)
           /\ asked # None => meant.id = CommandIds.rtc /\ ClockOf(Padded(meant.args)) = asked
           /\ meant.id \in Nat /\ meant.id \div 256 \in Bytes /\ meant.id # CMD_FAILURE
           /\ meant.id = CommandIds.rtc => /\ synced = None /\ asked \in Times
                                           /\ ClockOf(Padded(meant.args)) = asked
<1>. DEFINE id == meant.id
            args == meant.args
            p == BuildCommandPacket(Address, id, args)
<1>1. \/ id = CommandIds.verify /\ asked = None /\ args \in Guesses
      \/ /\ id = CommandIds.rtc /\ asked \in Times /\ synced = None
         /\ args = EncodeRtcTimeArgs(asked)
  BY DEF RequestInv
<1>2. damage \in SUBSET Nat /\ Burst(damage) /\ Flip(p, bytes, damage, 32)
  BY DEF RequestInv, Transit
<1>3. \E n \in Nat : n <= 14 /\ Row(args, n)
  <2>1. 4 \in Nat /\ 14 \in Nat /\ 4 <= 14 /\ 14 <= 14
    OBVIOUS
  <2>. HIDE DEF id, args
  <2>. QED  BY <1>1, <2>1, CommandArgs
<1>4. id \in Nat /\ id \div 256 \in Bytes /\ id # CMD_FAILURE
  BY <1>1, Codes
<1>5. Understood(id, args, bytes, damage)
  <2>. PICK n \in Nat : n <= 14 /\ Row(args, n)
    BY <1>3
  <2>1. p = BuildCommandPacket(Address, id, args)
    OBVIOUS
  <2>. HIDE DEF id, args, p
  <2>2. \A q, D : D \in SUBSET Nat /\ Burst(D) /\ Flip(p, q, D, 32) => Understood(id, args, q, D)
    BY <1>4, <2>1, Commanded
  <2>. QED  BY <1>2, <2>2
<1>6. id = CommandIds.rtc => asked \in Times /\ synced = None /\ args = EncodeRtcTimeArgs(asked)
  BY <1>1, Codes
<1>7. asked # None => id = CommandIds.rtc
  BY <1>1
<1>. HIDE DEF id, args
<1>8. id = CommandIds.rtc => ClockOf(Padded(args)) = asked
  BY <1>6, CommandArgs
<1>. QED  BY <1>4, <1>5, <1>6, <1>7, <1>8 DEF id, args

LEMMA ResetMoment == Reset \in Moments
BY DEF Reset, Moments

\* The initial states.
LEMMA InitInv == Init => WireInv
BY ResetMoment DEF Init, WireInv, OnAir

\* A command is put on the air.
LEMMA RequestStep ==
    ASSUME WireInv, NEW id, NEW args, NEW time, Request(id, args, time),
           \/ id = CommandIds.verify /\ time = None /\ args \in Guesses /\ synced' = synced
           \/ /\ id = CommandIds.rtc /\ time \in Times /\ synced' = None
              /\ args = EncodeRtcTimeArgs(time)
    PROVE  WireInv'
<1>. DEFINE p == BuildCommandPacket(Address, id, args)
<1>1. /\ at' = "request" /\ bytes' = p /\ damage' = {} /\ asked' = time /\ clock' = clock
      /\ meant'.id = id /\ meant'.args = args
  BY DEF Request, Put
<1>2. p \in [0 .. 31 -> Bytes]
  <2>1. id \in Nat /\ id \div 256 \in Bytes
    BY Codes
  <2>2. \E n \in Nat : n <= 14 /\ Row(args, n)
    <3>1. 4 \in Nat /\ 14 \in Nat /\ 4 <= 14 /\ 14 <= 14
      OBVIOUS
    <3>. QED  BY <3>1, CommandArgs
  <2>. PICK n \in Nat : n <= 14 /\ Row(args, n)
    BY <2>2
  <2>3. p = BuildCommandPacket(Address, id, args)
    OBVIOUS
  <2>. HIDE DEF p
  <2>. QED  BY <2>1, <2>3, Commanded
<1>3. Transit(BuildCommandPacket(Address, meant.id, meant.args), 32)'
  <2>. DEFINE n == 32
  <2>1. n \in Nat /\ p \in [0 .. n - 1 -> Bytes] /\ n = 32
    BY <1>2
  <2>2. BuildCommandPacket(Address, meant'.id, meant'.args) = p
    BY <1>1
  <2>. HIDE DEF n, p
  <2>3. {} \in SUBSET Nat /\ Burst({}) /\ Flip(p, p, {}, n)
    BY <2>1, Undamaged
  <2>. QED  BY <1>1, <2>1, <2>2, <2>3 DEF Transit
<1>4. RequestInv'
  BY <1>1, <1>3 DEF RequestInv
<1>5. clock' \in Moments /\ (synced' # None => clock' = synced')
  BY <1>1 DEF WireInv
<1>. QED  BY <1>1, <1>4, <1>5 DEF WireInv, OnAir

\* Nothing is left on the air.
LEMMA QuietStep ==
    ASSUME Quiet, clock' \in Moments, synced' # None => clock' = synced'
    PROVE  WireInv'
BY DEF Quiet, Put, WireInv, OnAir

\* What the meter says is what a response parses to.
LEMMA ReplyStep ==
    ASSUME NEW p, p \in [0 .. 31 -> Bytes], WellFormed(p, "response"), CrcOk(p, "response"),
           ParseCommandResponse(p) # None, Answer(ParseCommandResponse(p)) = meant',
           at' = "reply", bytes' = p, damage' = {},
           clock' \in Moments, synced' # None => clock' = synced',
           asked' # None => meant'.command_id = CMD_FAILURE \/ clock' = asked'
    PROVE  WireInv'
<1>1. Transit(p, 32)'
  <2>. DEFINE n == 32
  <2>1. n \in Nat /\ p \in [0 .. n - 1 -> Bytes] /\ n = 32
    OBVIOUS
  <2>. HIDE DEF n
  <2>3. {} \in SUBSET Nat /\ Burst({}) /\ Flip(p, p, {}, n)
    BY <2>1, Undamaged
  <2>. QED  BY <2>1, <2>3 DEF Transit
<1>2. ReplyInv'
  BY <1>1 DEF ReplyInv
<1>. QED  BY <1>2 DEF WireInv, OnAir

\* The meter answers; it sets the clock exactly to the time asked for.
LEMMA ExecuteStep ==
    ASSUME WireInv, Execute
    PROVE  WireInv'
<1>1. at = "request" /\ RequestInv /\ asked' = asked /\ synced' = synced
  BY DEF Execute, WireInv
<1>. DEFINE id == meant.id
            asIs == [id |-> meant.id, args |-> Padded(meant.args)]
            c == DecodeCommand(bytes)
<1>2. /\ c \in {None, asIs}
      /\ asked # None => id = CommandIds.rtc
      /\ id \in Nat /\ id \div 256 \in Bytes /\ id # CMD_FAILURE
      /\ id = CommandIds.rtc => synced = None /\ asked \in Times /\ ClockOf(asIs.args) = asked
  BY <1>1, RequestUnderstood DEF Understood
<1>3. asIs.id = id
  OBVIOUS
<1>4. clock \in Moments /\ (synced # None => clock = synced)
  BY DEF WireInv
<1>5. \/ c = None /\ Fail(id, 0) /\ clock' = clock
      \/ c # None /\ c.id = CommandIds.rtc /\ Succeed(c.id) /\ clock' = ClockOf(c.args)
      \/ /\ c # None /\ c.id = CommandIds.verify /\ clock' = clock
         /\ Succeed(c.id) \/ Fail(c.id, 3)
  BY DEF Execute
<1>. HIDE DEF id, asIs, c
<1>6. c # None => c.id = id /\ c.args = asIs.args
  BY <1>2, <1>3
<1>7. clock' \in Moments /\ (synced' # None => clock' = synced')
      /\ (Succeed(id) /\ asked # None => clock' = asked)
  <2>1. CASE c # None /\ c.id = CommandIds.rtc /\ clock' = ClockOf(c.args)
    <3>1. synced = None /\ asked \in Times /\ clock' = asked
      BY <1>2, <1>6, <2>1
    <3>2. asked \in Moments
      BY <3>1, TimeAssumption
    <3>. QED  BY <1>1, <3>1, <3>2
  <2>2. CASE c # None /\ c.id = CommandIds.verify /\ clock' = clock
    <3>1. asked = None
      BY <1>2, <1>6, <2>2, Codes
    <3>. QED  BY <1>1, <1>4, <2>2, <3>1
  <2>3. CASE c = None /\ Fail(id, 0) /\ clock' = clock
    <3>1. ~Succeed(id)
      <4>1. Fail(id, 0) => meant'.command_id = CMD_FAILURE
        BY DEF Fail, Reply, Put
      <4>2. Succeed(id) => meant'.command_id = id
        BY DEF Succeed, Reply, Put
      <4>. QED  BY <1>2, <2>3, <4>1, <4>2
    <3>. QED  BY <1>1, <1>4, <2>3, <3>1
  <2>. QED  BY <1>5, <2>1, <2>2, <2>3
<1>8. CASE Succeed(id)
  <2>. DEFINE p == EncodeResponse(id, <<>>)
  <2>1. /\ p \in [0 .. 31 -> Bytes] /\ WellFormed(p, "response") /\ CrcOk(p, "response")
        /\ ParseCommandResponse(p) # None
        /\ Answer(ParseCommandResponse(p)) = Said(id, <<>>, None, None)
    BY <1>2, Successes
  <2>2. /\ at' = "reply" /\ bytes' = p /\ damage' = {}
        /\ meant' = Said(id, <<>>, None, None)
    BY <1>8 DEF Succeed, Reply, Put, Said
  <2>. HIDE DEF p
  <2>. QED  BY <1>1, <1>7, <1>8, <2>1, <2>2, ReplyStep
<1>9. ASSUME NEW code \in Bytes, Fail(id, code) PROVE WireInv'
  <2>. DEFINE args == LittleEndian(id) \o LittleEndian(code)
              p == EncodeResponse(CMD_FAILURE, args)
  <2>1. /\ p \in [0 .. 31 -> Bytes] /\ WellFormed(p, "response") /\ CrcOk(p, "response")
        /\ ParseCommandResponse(p) # None
        /\ Answer(ParseCommandResponse(p)) = Said(CMD_FAILURE, args, id, code)
    BY <1>2, Failures
  <2>2. /\ at' = "reply" /\ bytes' = p /\ damage' = {}
        /\ meant' = Said(CMD_FAILURE, args, id, code)
    BY <1>9 DEF Fail, Reply, Put, Said
  <2>. HIDE DEF p, args
  <2>3. meant'.command_id = CMD_FAILURE
    BY <2>2 DEF Said
  <2>. QED  BY <1>7, <2>1, <2>2, <2>3, ReplyStep
<1>10. Succeed(id) \/ Fail(id, 0) \/ Fail(id, 3)
  BY <1>5, <1>6
<1>11. 0 \in Bytes /\ 3 \in Bytes
  BY DEF Bytes
<1>. QED  BY <1>8, <1>9, <1>10, <1>11

\* An intact or damaged response, and what send_command makes of it.
LEMMA ReplyRead ==
    ASSUME ReplyInv, NEW r, r = ParseCommandResponse(bytes)
    PROVE  /\ Answer(r) = None \/ Answer(r) = meant \/ ~Answer(r).crc_ok
           /\ damage \cap (0 .. 255) = {} => Answer(r) = meant
           /\ r # None /\ r.crc_ok => Answer(r) = meant
           /\ r # None => Answer(r).command_id = r.command_id
<1>1. PICK p : /\ WellFormed(p, "response") /\ CrcOk(p, "response")
               /\ ParseCommandResponse(p) # None
               /\ Answer(ParseCommandResponse(p)) = meant
               /\ Transit(p, 32)
  BY DEF ReplyInv
<1>2. /\ r = None \/ ~r.crc_ok \/ r = ParseCommandResponse(p)
      /\ damage \cap (0 .. 255) = {} => r = ParseCommandResponse(p)
  BY <1>1, ResponseArrives DEF Transit
<1>3. /\ r = None => Answer(r) = None
      /\ r # None => Answer(r).crc_ok = r.crc_ok /\ Answer(r).command_id = r.command_id
  BY DEF Answer
<1>. QED  BY <1>1, <1>2, <1>3

\* The computer knows the time only after a success.
LEMMA ReceiveReplyStep ==
    ASSUME WireInv, ReceiveReply
    PROVE  WireInv'
<1>. DEFINE r == ParseCommandResponse(bytes)
<1>1. /\ at = "reply" /\ ReplyInv /\ clock \in Moments /\ (synced # None => clock = synced)
  BY DEF ReceiveReply, WireInv
<1>2. /\ at' = "readReply" /\ result' = r /\ bytes' = bytes /\ meant' = meant
      /\ damage' = damage /\ clock' = clock /\ asked' = asked
      /\ synced' = IF asked # None /\ r # None /\ ~IsFailure(r) /\ r.crc_ok
                   THEN asked ELSE synced
  BY DEF ReceiveReply, Read
<1>3. ReplyInv'
  BY <1>1, <1>2 DEF ReplyInv, Transit
<1>4. /\ r # None /\ r.crc_ok => Answer(r) = meant
      /\ r # None => Answer(r).command_id = r.command_id
  BY <1>1, ReplyRead
<1>5. result' = ParseCommandResponse(bytes')
  BY <1>2
<1>. HIDE DEF r
<1>6. synced' # None => clock' = synced'
  <2>1. CASE asked # None /\ r # None /\ ~IsFailure(r) /\ r.crc_ok
    <3>1. meant.command_id # CMD_FAILURE
      BY <1>4, <2>1 DEF IsFailure
    <3>2. clock = asked
      BY <1>1, <2>1, <3>1 DEF ReplyInv
    <3>. QED  BY <1>2, <2>1, <3>2
  <2>2. CASE ~(asked # None /\ r # None /\ ~IsFailure(r) /\ r.crc_ok)
    BY <1>1, <1>2, <2>2
  <2>. QED  BY <2>1, <2>2
<1>. QED  BY <1>1, <1>2, <1>3, <1>5, <1>6 DEF WireInv, OnAir

\* A notification of an allowed display.
LEMMA SentFrames ==
    ASSUME NEW d \in Displays, NEW t \in Moments, NEW ms \in Milliseconds, NEW n \in 1 .. 2
    PROVE  /\ EncodeFrame(d, t, ms, n) \in [0 .. 151 -> Bytes]
           /\ Display(d) /\ ms \in 0 .. 999
<1>1. Display(d) /\ ms \in 0 .. 999
  BY DisplayAssumption, TimeAssumption DEF Display
<1>. DEFINE f == EncodeFrame(d, t, ms, n)
<1>2. f = EncodeFrame(d, t, ms, n)
  OBVIOUS
<1>. HIDE DEF f
<1>3. FrameOf(f, EncodeInfo, EncodeReading(d, t, ms), n)
  BY <1>1, <1>2, FrameSlices
<1>4. f \in [0 .. 151 -> Bytes]
  BY <1>3 DEF FrameOf
<1>. QED  BY <1>1, <1>4 DEF f

\* A notification is put on the air.
LEMMA NotifyStep ==
    ASSUME WireInv, Notify
    PROVE  WireInv'
<1>1. PICK d \in Displays, ms \in Milliseconds, n \in 1 .. 2 :
         Put("frame", EncodeFrame(d, clock, ms, n),
             [display |-> d, millisecond |-> ms, readings |-> n])
  BY DEF Notify
<1>. DEFINE f == EncodeFrame(d, clock, ms, n)
<1>2. /\ at' = "frame" /\ bytes' = f /\ damage' = {} /\ clock' = clock /\ synced' = synced
      /\ meant'.display = d /\ meant'.millisecond = ms /\ meant'.readings = n
  BY <1>1 DEF Put, Notify
<1>3. clock \in Moments /\ (synced # None => clock = synced)
  BY DEF WireInv
<1>4. f \in [0 .. 151 -> Bytes]
  BY <1>3, SentFrames
<1>5. SentFrame' = f
  BY <1>2 DEF SentFrame
<1>. HIDE DEF f
<1>6. Transit(SentFrame, 152)'
  <2>. DEFINE k == 152
  <2>1. k \in Nat /\ f \in [0 .. k - 1 -> Bytes] /\ k = 152
    BY <1>4
  <2>. HIDE DEF k
  <2>2. {} \in SUBSET Nat /\ Burst({}) /\ Flip(f, f, {}, k)
    BY <2>1, Undamaged
  <2>. QED  BY <1>2, <1>5, <2>1, <2>2 DEF Transit
<1>7. FrameInv'
  BY <1>2, <1>6 DEF FrameInv
<1>. QED  BY <1>2, <1>3, <1>7 DEF WireInv, OnAir

\* A notification is cut short.
LEMMA TruncateStep ==
    ASSUME WireInv, Truncate
    PROVE  WireInv'
<1>1. PICK n \in {24, 56, FrameLength - 1} :
         bytes' = Slice(bytes, 0, n) /\ damage' = 8 * n .. 8 * FrameLength - 1
  BY DEF Truncate
<1>2. /\ at = "frame" /\ damage = {} /\ at' = at /\ meant' = meant /\ clock' = clock
      /\ synced' = synced
  BY DEF Truncate
<1>3. FrameInv /\ clock \in Moments /\ (synced # None => clock = synced)
  BY <1>2 DEF WireInv
<1>4. n \in {24, 56, 151} /\ 1215 \in damage'
  BY <1>1 DEF FrameLength
<1>5. bytes = SentFrame
  <2>1. Flip(SentFrame, bytes, {}, 152)
    BY <1>2, <1>3 DEF FrameInv, Transit
  <2>. DEFINE k == 152
              f == SentFrame
              q == bytes
  <2>2. k \in Nat /\ Flip(f, q, {}, k)
    BY <2>1
  <2>. HIDE DEF k, f, q
  <2>3. q = f
    BY <2>2, NotFlipped
  <2>. QED  BY <2>3 DEF f, q
<1>6. SentFrame' = SentFrame
  BY <1>2 DEF SentFrame
<1>7. FrameInv'
  <2>1. bytes' = Slice(SentFrame', 0, n) /\ damage' # {}
    BY <1>1, <1>4, <1>5, <1>6
  <2>2. \E k \in {24, 56, 151} : bytes' = Slice(SentFrame', 0, k)
    BY <1>4, <2>1
  <2>. QED  BY <1>2, <1>3, <2>1, <2>2 DEF FrameInv
<1>. QED  BY <1>2, <1>3, <1>7 DEF WireInv, OnAir

\* A notification is parsed.
LEMMA ReceiveFrameStep ==
    ASSUME WireInv, ReceiveFrame
    PROVE  WireInv'
<1>1. /\ at = "frame" /\ at' = "readFrame" /\ result' = ParseStreamFrame(bytes)
      /\ bytes' = bytes /\ meant' = meant /\ damage' = damage
      /\ clock' = clock /\ synced' = synced
  BY DEF ReceiveFrame, Read
<1>2. FrameInv /\ clock \in Moments /\ (synced # None => clock = synced)
  BY <1>1 DEF WireInv
<1>3. FrameInv'
  BY <1>1, <1>2 DEF FrameInv, SentFrame, Transit
<1>. QED  BY <1>1, <1>2, <1>3 DEF WireInv, OnAir

\* Damage keeps the invariant.
LEMMA DamageInv ==
    ASSUME WireInv, Damage
    PROVE  WireInv'
<1>1. /\ at \in OnAir /\ at' = at /\ meant' = meant /\ clock' = clock /\ damage = {}
      /\ asked' = asked /\ synced' = synced
  BY DEF Damage
<1>2. clock \in Moments /\ (synced # None => clock = synced)
  BY DEF WireInv
<1>3. \A n \in Nat : \A p : Transit(p, n) =>
         damage' \in SUBSET Nat /\ Burst(damage') /\ Flip(p, bytes', damage', n)
  BY DamageStep
<1>4. ASSUME RequestInv PROVE RequestInv'
  <2>. DEFINE p == BuildCommandPacket(Address, meant.id, meant.args)
  <2>1. Transit(p, 32)
    BY <1>4 DEF RequestInv
  <2>2. BuildCommandPacket(Address, meant'.id, meant'.args) = p
    BY <1>1
  <2>3. damage' \in SUBSET Nat /\ Burst(damage') /\ Flip(p, bytes', damage', 32)
    <3>1. 32 \in Nat
      OBVIOUS
    <3>. HIDE DEF p
    <3>. QED  BY <1>3, <2>1, <3>1
  <2>. HIDE DEF p
  <2>. QED  BY <1>1, <1>4, <2>2, <2>3 DEF RequestInv, Transit
<1>5. ASSUME ReplyInv PROVE ReplyInv'
  <2>1. PICK p : /\ WellFormed(p, "response") /\ CrcOk(p, "response")
                 /\ ParseCommandResponse(p) # None
                 /\ Answer(ParseCommandResponse(p)) = meant
                 /\ Transit(p, 32)
    BY <1>5 DEF ReplyInv
  <2>2. damage' \in SUBSET Nat /\ Burst(damage') /\ Flip(p, bytes', damage', 32)
    <3>1. 32 \in Nat
      OBVIOUS
    <3>. QED  BY <1>3, <2>1, <3>1
  <2>. QED  BY <1>1, <1>5, <2>1, <2>2 DEF ReplyInv, Transit
<1>6. ASSUME FrameInv PROVE FrameInv'
  <2>. DEFINE f == SentFrame
  <2>1. Transit(f, 152)
    BY <1>1, <1>6 DEF FrameInv
  <2>2. SentFrame' = f
    BY <1>1 DEF SentFrame
  <2>. HIDE DEF f
  <2>3. damage' \in SUBSET Nat /\ Burst(damage') /\ Flip(f, bytes', damage', 152)
    <3>1. 152 \in Nat
      OBVIOUS
    <3>. QED  BY <1>3, <2>1, <3>1
  <2>. QED  BY <1>1, <1>6, <2>2, <2>3 DEF FrameInv, Transit
<1>. QED  BY <1>1, <1>2, <1>4, <1>5, <1>6 DEF WireInv, OnAir

\* Every step keeps the invariant.
LEMMA NextInv ==
    ASSUME WireInv, [Next]_vars
    PROVE  WireInv'
<1>1. clock \in Moments /\ (synced # None => clock = synced)
  BY DEF WireInv
<1>2. CASE VerifyPassword
  <2>1. PICK g \in Guesses : Request(CommandIds.verify, EncodePasswordArgs(g), None)
    BY <1>2 DEF VerifyPassword
  <2>2. EncodePasswordArgs(g) = g /\ synced' = synced
    BY <1>2 DEF EncodePasswordArgs, VerifyPassword
  <2>. QED  BY <2>1, <2>2, RequestStep
<1>3. CASE SyncRtc
  <2>1. PICK t \in Times : Request(CommandIds.rtc, EncodeRtcTimeArgs(t), t)
    BY <1>3 DEF SyncRtc
  <2>2. synced' = None
    BY <1>3 DEF SyncRtc
  <2>. QED  BY <2>1, <2>2, RequestStep
<1>4. CASE HandOver
  BY <1>1, <1>4, QuietStep DEF HandOver
<1>5. CASE PowerCycle
  BY <1>5, QuietStep, ResetMoment DEF PowerCycle
<1>6. CASE UNCHANGED vars
  BY <1>6 DEF vars, WireInv, RequestInv, ReplyInv, FrameInv, SentFrame, Transit
<1>. QED
  BY <1>2, <1>3, <1>4, <1>5, <1>6, ExecuteStep, ReceiveReplyStep, NotifyStep,
     TruncateStep, ReceiveFrameStep, DamageInv DEF Next

\* What the packet under way is, and that a known time is the meter's.
THEOREM WireInvariant == Spec => []WireInv
<1>1. Init => WireInv
  BY InitInv
<1>2. WireInv /\ [Next]_vars => WireInv'
  BY NextInv
<1>. QED  BY <1>1, <1>2, PTL DEF Spec

-----------------------------------------------------------------------------
(* Theorems.                                                               *)

Shown(i) == IF i > meant.readings THEN None
            ELSE Faithful(meant.display, clock, meant.millisecond)

ReadingBits(i) == 8 * ReadingStart(i) .. 8 * ReadingStart(i) + 255

\* A received notification: its packets as they arrived, or nothing of a cut one.
LEMMA FrameRead ==
    ASSUME WireInv, at = "readFrame"
    PROVE  /\ Display(meant.display)
           /\ \/ /\ result # None
                 /\ Arrived(result.info, FaithfulInfo, damage, 0 .. 191)
                 /\ \A i \in 1 .. 4 :
                       Arrived(result.readings[i], Shown(i), damage, ReadingBits(i))
              \/ result = None /\ Truncated
<1>1. /\ FrameInv /\ result = ParseStreamFrame(bytes) /\ clock \in Moments
  BY DEF WireInv
<1>. DEFINE d == meant.display
            ms == meant.millisecond
            n == meant.readings
            f == EncodeFrame(d, clock, ms, n)
            q == bytes
            D == damage
            r == result
<1>2. d \in Displays /\ ms \in Milliseconds /\ n \in 1 .. 2
  BY <1>1 DEF FrameInv
<1>3. f = SentFrame
  BY DEF SentFrame
<1>4. CASE Transit(SentFrame, 152)
  <2>1. D \in SUBSET Nat /\ Burst(D) /\ Flip(f, q, D, 152)
    BY <1>3, <1>4 DEF Transit
  <2>2. f = EncodeFrame(d, clock, ms, n) /\ r = ParseStreamFrame(q)
    BY <1>1
  <2>3. \A i \in 1 .. 4 : /\ Shown(i) = IF i > n THEN None ELSE Faithful(d, clock, ms)
                          /\ ReadingBits(i) = 8 * ReadingStart(i) .. 8 * ReadingStart(i) + 255
    BY DEF Shown, ReadingBits
  <2>. HIDE DEF d, ms, n, f, q, D, r
  <2>4. Display(d) /\ ms \in 0 .. 999
    BY <1>1, <1>2, SentFrames
  <2>5. /\ r # None
        /\ Arrived(r.info, FaithfulInfo, D, 0 .. 191)
        /\ \A i \in 1 .. 4 :
              Arrived(r.readings[i], IF i > n THEN None ELSE Faithful(d, clock, ms), D,
                      8 * ReadingStart(i) .. 8 * ReadingStart(i) + 255)
    <3>1. ArrivedFrame(r, D, d, clock, ms, n)
      BY <1>1, <1>2, <2>1, <2>2, <2>4, FrameArrives
    <3>. QED  BY <3>1 DEF ArrivedFrame
  <2>6. \A i \in 1 .. 4 : Arrived(r.readings[i], Shown(i), D, ReadingBits(i))
    BY <2>3, <2>5
  <2>. QED  BY <2>4, <2>5, <2>6 DEF d, D, r
<1>5. CASE \E k \in {24, 56, 151} : bytes = Slice(SentFrame, 0, k)
  <2>1. PICK k \in {24, 56, 151} : bytes = Slice(SentFrame, 0, k)
    BY <1>5
  <2>2. Display(d)
    BY <1>1, <1>2, SentFrames
  <2>3. result = None /\ Truncated
    BY <1>1, <2>1, CutFrame DEF Truncated
  <2>. QED  BY <2>2, <2>3
<1>. QED  BY <1>1, <1>4, <1>5 DEF FrameInv

\* Every packet received is refused, flagged, or as it was meant.
Verdict(got, want, bits) ==
    /\ bits \cap damage # {} => got = None \/ got = want \/ ~got.crc_ok
    /\ bits \cap damage = {} => got = want \/ (at = "readFrame" /\ Truncated)

\* So it is with everything received.
LEMMA ReceivedVerdicts ==
    ASSUME WireInv, NEW x \in Received
    PROVE  Verdict(x.got, x.want, x.bits)
<1>1. CASE at = "readReply"
  <2>1. x = [bits |-> 0 .. 255, got |-> Answer(result), want |-> meant]
    BY <1>1 DEF Received
  <2>2. ReplyInv /\ result = ParseCommandResponse(bytes)
    BY <1>1 DEF WireInv
  <2>3. /\ Answer(result) = None \/ Answer(result) = meant \/ ~Answer(result).crc_ok
        /\ damage \cap (0 .. 255) = {} => Answer(result) = meant
    BY <2>2, ReplyRead
  <2>. QED  BY <2>1, <2>3 DEF Verdict
<1>2. CASE at = "readFrame"
  <2>. DEFINE info == [bits |-> 0 .. 191,
                       got |-> IF result = None THEN None ELSE result.info,
                       want |-> FaithfulInfo]
              reading(i) == [bits |-> ReadingBits(i),
                             got |-> IF result = None THEN None ELSE result.readings[i],
                             want |-> Shown(i)]
  <2>1. x = info \/ \E i \in 1 .. 4 : x = reading(i)
    <3>1. Received = {info} \cup {reading(i) : i \in 1 .. 4}
      BY <1>2 DEF Received, ReadingsPerFrame, ReadingBits, Shown
    <3>. QED  BY <3>1
  <2>2. \/ /\ result # None
           /\ Arrived(result.info, FaithfulInfo, damage, 0 .. 191)
           /\ \A i \in 1 .. 4 : Arrived(result.readings[i], Shown(i), damage, ReadingBits(i))
        \/ result = None /\ Truncated
    BY <1>2, FrameRead
  <2>3. CASE x = info
    <3>1. x.bits = 0 .. 191 /\ x.want = FaithfulInfo
          /\ x.got = IF result = None THEN None ELSE result.info
      BY <2>3
    <3>. QED  BY <1>2, <2>2, <3>1 DEF Verdict, Arrived
  <2>4. ASSUME NEW i \in 1 .. 4, x = reading(i) PROVE Verdict(x.got, x.want, x.bits)
    <3>1. x.bits = ReadingBits(i) /\ x.want = Shown(i)
          /\ x.got = IF result = None THEN None ELSE result.readings[i]
      BY <2>4
    <3>. QED  BY <1>2, <2>2, <3>1 DEF Verdict, Arrived
  <2>. QED  BY <2>1, <2>3, <2>4
<1>3. at = "readReply" \/ at = "readFrame"
  BY DEF Received
<1>. QED  BY <1>1, <1>2, <1>3

\* The four invariants follow.
LEMMA NoticedInv == WireInv => DamageNoticed
BY ReceivedVerdicts DEF DamageNoticed, Verdict

LEMMA IntactInv == WireInv => IntactPacketsArrive
BY ReceivedVerdicts DEF IntactPacketsArrive, Verdict

\* A reading whose checksum is right is of the display and the clock.
LEMMA GoodReadings ==
    ASSUME WireInv, at = "readFrame", result # None, NEW i \in 1 .. ReadingsPerFrame,
           result.readings[i] # None, result.readings[i].crc_ok
    PROVE  /\ Display(meant.display)
           /\ result.readings[i] = Faithful(meant.display, clock, meant.millisecond)
<1>1. i \in 1 .. 4
  BY DEF ReadingsPerFrame
<1>2. Display(meant.display) /\ Arrived(result.readings[i], Shown(i), damage, ReadingBits(i))
  BY <1>1, FrameRead
<1>3. result.readings[i] = Shown(i)
  BY <1>2 DEF Arrived
<1>. QED  BY <1>2, <1>3 DEF Shown

LEMMA ClockInv == WireInv => ClockFollowsSync
<1>. SUFFICES ASSUME WireInv, at = "readFrame", synced # None, result # None,
                     NEW i \in 1 .. ReadingsPerFrame,
                     result.readings[i] # None, result.readings[i].crc_ok,
                     NEW f \in DOMAIN result.readings[i].rtc \ {"millisecond"}
              PROVE  result.readings[i].rtc[f] = synced[f]
  BY DEF ClockFollowsSync
<1>1. clock = synced
  BY DEF WireInv
<1>2. result.readings[i] = Faithful(meant.display, clock, meant.millisecond)
  BY GoodReadings
<1>3. result.readings[i].rtc =
         [year |-> clock.year, month |-> clock.month, date |-> clock.date,
          hour |-> clock.hour, minute |-> clock.minute, second |-> clock.second,
          millisecond |-> meant.millisecond]
  BY <1>2 DEF Faithful
<1>4. f \in {"year", "month", "date", "hour", "minute", "second"}
  BY <1>3
<1>. QED  BY <1>1, <1>3, <1>4

LEMMA ShownInv == WireInv => ShownAsOnTheLcd
<1>. SUFFICES ASSUME WireInv, at = "readFrame", result # None,
                     NEW i \in 1 .. ReadingsPerFrame,
                     result.readings[i] # None, result.readings[i].crc_ok
              PROVE  ReadingLine(result.readings[i]) =
                        <<meant.display.function, Lcd(meant.display)>>
  BY DEF ShownAsOnTheLcd
<1>1. /\ Display(meant.display)
      /\ result.readings[i] = Faithful(meant.display, clock, meant.millisecond)
  BY GoodReadings
<1>. QED  BY <1>1, FaithfulShown

\* No damage to sixteen neighbouring bits of a packet passes for data, whatever
\* the address, the command, the display and the time (verify_crc).
THEOREM DamageNeverPasses == Spec => []DamageNoticed
BY WireInvariant, NoticedInv, PTL

\* What reaches a parser intact is read as it was meant, also next to a damaged
\* packet of the same notification (_handle_notify, parse_stream_frame).
THEOREM IntactPacketsRead == Spec => []IntactPacketsArrive
BY WireInvariant, IntactInv, PTL

\* Readings that arrive after a sync_rtc that succeeded carry the time it set.
THEOREM ClockKnown == Spec => []ClockFollowsSync
BY WireInvariant, ClockInv, PTL

\* A reading whose checksum is right is printed as the LCD shows it.
THEOREM PrintedAsShown == Spec => []ShownAsOnTheLcd
BY WireInvariant, ShownInv, PTL

\* Only Execute answers a command.
LEMMA ExecutesInv ==
    ASSUME WireInv, [Next]_vars, at = "request", at' = "reply"
    PROVE  LET asIs == [id |-> meant.id, args |-> Padded(meant.args)] IN
           IF damage = {} THEN result' = asIs ELSE result' \in {None, asIs}
<1>1. Execute
  BY DEF Next, vars, VerifyPassword, SyncRtc, Request, ReceiveReply, Notify, Truncate,
         ReceiveFrame, HandOver, Damage, PowerCycle, Put, Read, Quiet
<1>2. result' = DecodeCommand(bytes)
  BY <1>1 DEF Execute
<1>3. Understood(meant.id, meant.args, bytes, damage)
  BY RequestUnderstood DEF WireInv
<1>. QED  BY <1>2, <1>3 DEF Understood

\* The meter executes a command as its caller meant it, or not at all
\* (build_command_packet, encode_rtc_time_args).
THEOREM CommandsAsMeant == Spec => ExecutedAsMeant
<1>1. WireInv /\ [Next]_vars =>
      [at = "request" /\ at' = "reply" =>
          LET asIs == [id |-> meant.id, args |-> Padded(meant.args)] IN
          IF damage = {} THEN result' = asIs ELSE result' \in {None, asIs}]_vars
  BY ExecutesInv
<1>. QED  BY <1>1, WireInvariant, PTL DEF Spec, ExecutedAsMeant
=============================================================================
