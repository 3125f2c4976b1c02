------------------------------ MODULE CrcProofs ------------------------------
(***************************************************************************)
(* What the CRC is good for, for packets of every length and content: a    *)
(* packet that is sealed with it verifies, and one of which up to sixteen  *)
(* neighbouring bits were flipped does not.                                *)
(***************************************************************************)
EXTENDS Crc, WellFoundedInduction, TLAPS

-----------------------------------------------------------------------------
(* Recursion over the bytes of a packet.                                   *)

LEMMA Induction ==
    ASSUME NEW S, 0 \in S, \A n \in Nat : n \in S => n + 1 \in S
    PROVE  Nat \subseteq S
<1>. DEFINE T == Nat \ S
            R == OpToRel(<, Nat)
<1>. SUFFICES ASSUME T # {} PROVE FALSE
  OBVIOUS
<1>1. IsWellFoundedOn(R, Nat)
  BY NatLessThanWellFounded
<1>2. \A x, y \in Nat : x < y => <<x, y>> \in R
  BY DEF OpToRel
<1>. HIDE DEF R
<1>3. PICK x \in T : \A y \in T : <<y, x>> \notin R
  BY <1>1, WFMin
<1>4. x # 0 /\ x \in Nat /\ x - 1 \in Nat /\ x - 1 < x
  BY <1>3
<1>5. x - 1 \in S
  BY <1>2, <1>3, <1>4
<1>. QED  BY <1>3, <1>4, <1>5

\* f gives a value for every index up to b, each from the one before it.
Follows(f, base, a, b, step) ==
    f[a] = base /\ \A i \in a + 1 .. b : f[i] = step[i][f[i - 1]]

LEMMA Recursion ==
    ASSUME NEW V, NEW base \in V, NEW a \in Int, NEW b \in Int, a <= b,
           NEW step, \A i \in a + 1 .. b : \A v \in V : step[i][v] \in V
    PROVE  \E f \in [a .. b -> V] : Follows(f, base, a, b, step)
<1>. DEFINE Upto(n, f) == f[a] = base /\ \A i \in a + 1 .. n : f[i] = step[i][f[i - 1]]
<1>. DEFINE S == {n \in Nat : a + n <= b => \E f \in [a .. a + n -> V] : Upto(a + n, f)}
<1>1. 0 \in S
  <2>. DEFINE f == [i \in a .. a |-> base]
  <2>1. f \in [a .. a + 0 -> V] /\ Upto(a + 0, f)
    OBVIOUS
  <2>. QED  BY <2>1
<1>2. ASSUME NEW n \in Nat, n \in S PROVE n + 1 \in S
  <2>. SUFFICES ASSUME a + (n + 1) <= b
                PROVE  \E g \in [a .. a + (n + 1) -> V] : Upto(a + (n + 1), g)
    OBVIOUS
  <2>1. PICK f \in [a .. a + n -> V] : Upto(a + n, f)
    BY <1>2
  <2>. DEFINE m == a + (n + 1)
              g == [i \in a .. m |-> IF i = m THEN step[m][f[m - 1]] ELSE f[i]]
  <2>2. m \in a + 1 .. b /\ m - 1 = a + n /\ m # a
    OBVIOUS
  <2>3. f[m - 1] \in V /\ step[m][f[m - 1]] \in V
    BY <2>1, <2>2
  <2>4. g \in [a .. m -> V] /\ g[a] = base
    BY <2>1, <2>2, <2>3
  <2>5. ASSUME NEW i \in a + 1 .. m
        PROVE  g[i] = step[i][g[i - 1]]
    <3>1. i \in a .. m /\ i - 1 \in a .. m /\ i - 1 # m /\ g[i - 1] = f[i - 1]
      BY <2>2
    <3>2. CASE i = m
      BY <2>2, <3>1, <3>2
    <3>3. CASE i # m
      <4>1. i \in a + 1 .. a + n /\ g[i] = f[i]
        BY <2>2, <3>1, <3>3
      <4>2. f[i] = step[i][f[i - 1]]
        BY <2>1, <4>1
      <4>. QED  BY <3>1, <4>1, <4>2
    <3>. QED  BY <3>2, <3>3
  <2>. HIDE DEF g, m
  <2>6. Upto(m, g)
    BY <2>4, <2>5
  <2>. QED  BY <2>4, <2>6 DEF m
<1>. HIDE DEF S
<1>3. Nat \subseteq S
  BY <1>1, <1>2, Induction
<1>4. b - a \in Nat /\ a + (b - a) = b
  OBVIOUS
<1>5. b - a \in S
  BY <1>3, <1>4
<1>6. \E f \in [a .. a + (b - a) -> V] : Upto(a + (b - a), f)
  BY <1>4, <1>5 DEF S
<1>7. \A f : Upto(b, f) => Follows(f, base, a, b, step)
  BY DEF Follows
<1>. HIDE DEF Upto
<1>. QED  BY <1>4, <1>6, <1>7

-----------------------------------------------------------------------------
(* The register.                                                           *)

TurnsOf(reg) ==
    CHOOSE f : f = [k \in 0 .. 8 |-> IF k = 0 THEN reg ELSE CrcBit(f[k - 1])]

\* A register after k turns of the inner loop.
Turn(k, reg) == TurnsOf(reg)[k]

LEMMA XorFacts ==
    ASSUME NEW A \in Registers, NEW B \in Registers
    PROVE  /\ Xor(A, B) \in Registers
           /\ Xor(A, B) = Xor(B, A) /\ Xor(A, A) = {} /\ Xor(A, {}) = A
           /\ Xor(A, B) = {} => A = B
BY DEF Xor, Registers

LEMMA BitFacts ==
    ASSUME NEW A \in Registers
    PROVE  /\ CrcBit(A) \in Registers
           /\ CrcBit(A) = {} => A = {}
           /\ 0 \notin A => CrcBit(A) = Shift(A)
<1>1. Shift(A) \in SUBSET (0 .. 14)
  BY DEF Shift, Registers
<1>2. CrcBit(A) \in Registers
  BY <1>1 DEF CrcBit, Xor, Registers, Polynomial
<1>3. ASSUME CrcBit(A) = {} PROVE A = {}
  <2>1. 0 \notin A
    <3>1. 15 \in Xor(Shift(A), Polynomial)
      BY <1>1 DEF Xor, Polynomial
    <3>. QED  BY <1>3, <3>1 DEF CrcBit
  <2>. QED  BY <1>3, <2>1 DEF CrcBit, Shift, Registers
<1>. QED  BY <1>2, <1>3 DEF CrcBit

LEMMA BitLinear ==
    ASSUME NEW A \in Registers, NEW B \in Registers
    PROVE  CrcBit(Xor(A, B)) = Xor(CrcBit(A), CrcBit(B))
<1>1. Shift(Xor(A, B)) = Xor(Shift(A), Shift(B))
  <2>1. ASSUME NEW C \in Registers
        PROVE  \A x : x \in Shift(C) <=> x \in 0 .. 14 /\ x + 1 \in C
    <3>1. \A i \in C : i \in 0 .. 15 /\ (i # 0 => i - 1 \in 0 .. 14 /\ (i - 1) + 1 = i)
      BY DEF Registers
    <3>2. \A x \in 0 .. 14 : x + 1 # 0 /\ x = (x + 1) - 1
      OBVIOUS
    <3>. QED  BY <3>1, <3>2 DEF Shift
  <2>2. \A x : x \in Shift(Xor(A, B)) <=> x \in 0 .. 14 /\ x + 1 \in Xor(A, B)
    BY <2>1, XorFacts
  <2>3. \A x : x \in Xor(Shift(A), Shift(B)) <=> x \in 0 .. 14 /\ x + 1 \in Xor(A, B)
    BY <2>1 DEF Xor
  <2>4. \A x : x \in Shift(Xor(A, B)) <=> x \in Xor(Shift(A), Shift(B))
    BY <2>2, <2>3
  <2>. QED  BY <2>4
<1>2. 0 \in Xor(A, B) <=> ~(0 \in A <=> 0 \in B)
  BY DEF Xor
<1>3. \A C, D, P : /\ Xor(Xor(C, P), D) = Xor(Xor(C, D), P)
                   /\ Xor(C, Xor(D, P)) = Xor(Xor(C, D), P)
                   /\ Xor(Xor(C, P), Xor(D, P)) = Xor(C, D)
  BY DEF Xor
<1>. QED  BY <1>1, <1>2, <1>3 DEF CrcBit

LEMMA TurnFacts ==
    ASSUME NEW A \in Registers
    PROVE  /\ Turn(0, A) = A
           /\ \A k \in 0 .. 8 : Turn(k, A) \in Registers
           /\ \A k \in 0 .. 7 : Turn(k + 1, A) = CrcBit(Turn(k, A))
<1>. DEFINE step == [k \in 1 .. 8 |-> [r \in Registers |-> CrcBit(r)]]
<1>1. \A k \in 0 + 1 .. 8 : \A r \in Registers : step[k][r] \in Registers
  BY BitFacts
<1>2. PICK f \in [0 .. 8 -> Registers] : Follows(f, A, 0, 8, step)
  <2>. HIDE DEF step
  <2>1. 0 \in Int /\ 8 \in Int /\ 0 <= 8
    OBVIOUS
  <2>. QED  BY <1>1, <2>1, Recursion
<1>3. ASSUME NEW k \in 0 .. 8
      PROVE  f[k] = IF k = 0 THEN A ELSE CrcBit(f[k - 1])
  BY <1>2 DEF Follows
<1>4. f = [k \in 0 .. 8 |-> IF k = 0 THEN A ELSE CrcBit(f[k - 1])]
  BY <1>2, <1>3
<1>5. TurnsOf(A) = [k \in 0 .. 8 |-> IF k = 0 THEN A ELSE CrcBit(TurnsOf(A)[k - 1])]
  BY <1>4 DEF TurnsOf
<1>. DEFINE g == TurnsOf(A)
<1>6. \A k \in 0 .. 8 : g[k] = IF k = 0 THEN A ELSE CrcBit(g[k - 1])
  BY <1>5
<1>. HIDE DEF g
<1>. DEFINE S == {k \in Nat : k <= 8 => g[k] \in Registers}
<1>7. 0 \in S
  BY <1>6
<1>8. ASSUME NEW k \in Nat, k \in S PROVE k + 1 \in S
  <2>. SUFFICES ASSUME k + 1 <= 8 PROVE g[k + 1] \in Registers
    OBVIOUS
  <2>1. g[k + 1] = CrcBit(g[(k + 1) - 1]) /\ (k + 1) - 1 = k /\ g[k] \in Registers
    BY <1>6, <1>8
  <2>. QED  BY <2>1, BitFacts
<1>9. \A k \in 0 .. 8 : g[k] \in Registers
  <2>1. Nat \subseteq S
    <3>. HIDE DEF S
    <3>. QED  BY <1>7, <1>8, Induction
  <2>. QED  BY <2>1
<1>10. \A k \in 0 .. 7 : g[k + 1] = CrcBit(g[k])
  <2>. TAKE k \in 0 .. 7
  <2>1. k + 1 \in 0 .. 8 /\ k + 1 # 0 /\ (k + 1) - 1 = k
    OBVIOUS
  <2>. QED  BY <1>6, <2>1
<1>. QED  BY <1>6, <1>9, <1>10 DEF g, Turn

LEMMA ByteTurns ==
    ASSUME NEW reg, NEW byte
    PROVE  CrcByte(reg, byte) = Turn(8, Xor(reg, Bits(byte)))
BY DEF CrcByte, Turn, TurnsOf
\* An induction over the turns of the inner loop.
LEMMA TurnInduction ==
    ASSUME NEW S, 0 \in S, \A k \in 0 .. 7 : k \in S => k + 1 \in S
    PROVE  0 .. 8 \subseteq S
<1>. DEFINE T == {k \in Nat : k <= 8 => k \in S}
<1>1. 0 \in T
  OBVIOUS
<1>2. ASSUME NEW k \in Nat, k \in T PROVE k + 1 \in T
  BY <1>2
<1>3. Nat \subseteq T
  <2>. HIDE DEF T
  <2>. QED  BY <1>1, <1>2, Induction
<1>. QED  BY <1>3

LEMMA TurnLinear ==
    ASSUME NEW A \in Registers, NEW B \in Registers, NEW k \in 0 .. 8
    PROVE  Turn(k, Xor(A, B)) = Xor(Turn(k, A), Turn(k, B))
<1>. DEFINE S == {j \in 0 .. 8 : Turn(j, Xor(A, B)) = Xor(Turn(j, A), Turn(j, B))}
<1>1. Xor(A, B) \in Registers
  BY XorFacts
<1>2. 0 \in S
  BY <1>1, TurnFacts
<1>3. ASSUME NEW j \in 0 .. 7, j \in S PROVE j + 1 \in S
  <2>1. j \in 0 .. 8 /\ j + 1 \in 0 .. 8
    OBVIOUS
  <2>2. Turn(j, A) \in Registers /\ Turn(j, B) \in Registers
    BY <2>1, TurnFacts
  <2>3. Turn(j + 1, Xor(A, B)) = CrcBit(Xor(Turn(j, A), Turn(j, B)))
    BY <1>1, <1>3, TurnFacts
  <2>4. Turn(j + 1, A) = CrcBit(Turn(j, A)) /\ Turn(j + 1, B) = CrcBit(Turn(j, B))
    BY TurnFacts
  <2>. QED  BY <2>1, <2>2, <2>3, <2>4, BitLinear
<1>. HIDE DEF S
<1>4. k \in S
  BY <1>2, <1>3, TurnInduction
<1>. QED  BY <1>4 DEF S

\* No turn makes a register empty that was not.
LEMMA TurnKernel ==
    ASSUME NEW A \in Registers, NEW k \in 0 .. 8, Turn(k, A) = {}
    PROVE  A = {}
<1>. DEFINE S == {j \in 0 .. 8 : Turn(j, A) = {} => A = {}}
<1>1. 0 \in S
  BY TurnFacts
<1>2. ASSUME NEW j \in 0 .. 7, j \in S PROVE j + 1 \in S
  <2>1. j \in 0 .. 8 /\ j + 1 \in 0 .. 8
    OBVIOUS
  <2>2. Turn(j, A) \in Registers /\ Turn(j + 1, A) = CrcBit(Turn(j, A))
    BY <2>1, TurnFacts
  <2>. QED  BY <1>2, <2>1, <2>2, BitFacts
<1>. HIDE DEF S
<1>3. k \in S
  BY <1>1, <1>2, TurnInduction
<1>. QED  BY <1>3 DEF S

Down(A, k) == {i - k : i \in A}

\* Turns that meet no 1 bit shift the register.
LEMMA TurnShifts ==
    ASSUME NEW A \in Registers, NEW k \in 0 .. 8, A \subseteq k .. 15
    PROVE  Turn(k, A) = Down(A, k)
<1>. DEFINE S == {j \in 0 .. 8 : j <= k => Turn(j, A) = Down(A, j)}
<1>1. 0 \in S
  <2>1. \A i \in A : i \in Int /\ i - 0 = i
    BY DEF Registers
  <2>2. \A i : i \in Down(A, 0) <=> i \in A
    BY <2>1 DEF Down
  <2>3. Down(A, 0) = A
    BY <2>2
  <2>. QED  BY <2>3, TurnFacts
<1>2. ASSUME NEW j \in 0 .. 7, j \in S PROVE j + 1 \in S
  <2>1. j \in 0 .. 8 /\ j + 1 \in 0 .. 8
    OBVIOUS
  <2>. SUFFICES ASSUME j + 1 <= k PROVE Turn(j + 1, A) = Down(A, j + 1)
    BY <2>1
  <2>2. Turn(j, A) = Down(A, j)
    BY <1>2, <2>1
  <2>3. Turn(j, A) \in Registers /\ Turn(j + 1, A) = CrcBit(Turn(j, A))
    BY <2>1, TurnFacts
  <2>4. 0 \notin Down(A, j)
    BY DEF Down
  <2>5. Shift(Down(A, j)) = Down(A, j + 1)
    <3>1. \A i \in A : i \in Int /\ i - j # 0 /\ (i - j) - 1 = i - (j + 1)
      OBVIOUS
    <3>2. \A x : x \in Shift(Down(A, j)) <=> \E i \in A : x = (i - j) - 1
      BY <3>1 DEF Down, Shift
    <3>3. \A x : x \in Down(A, j + 1) <=> \E i \in A : x = (i - j) - 1
      BY <3>1 DEF Down
    <3>. QED  BY <3>2, <3>3
  <2>. QED  BY <2>2, <2>3, <2>4, <2>5, BitFacts
<1>. HIDE DEF S
<1>3. k \in S
  BY <1>1, <1>2, TurnInduction
<1>. QED  BY <1>3 DEF S

LEMMA TurnsAdd ==
    ASSUME NEW A \in Registers, NEW j \in 0 .. 8, NEW k \in 0 .. 8, j + k <= 8
    PROVE  Turn(j + k, A) = Turn(j, Turn(k, A))
<1>. DEFINE B == Turn(k, A)
            S == {i \in 0 .. 8 : i + k <= 8 => Turn(i + k, A) = Turn(i, B)}
<1>1. B \in Registers
  BY TurnFacts
<1>. HIDE DEF B
<1>2. 0 \in S
  <2>1. 0 + k = k /\ Turn(k, A) = B
    BY DEF B
  <2>. QED  BY <1>1, <2>1, TurnFacts
<1>3. ASSUME NEW i \in 0 .. 7, i \in S PROVE i + 1 \in S
  <2>1. i \in 0 .. 8 /\ i + 1 \in 0 .. 8
    OBVIOUS
  <2>. SUFFICES ASSUME (i + 1) + k <= 8 PROVE Turn((i + 1) + k, A) = Turn(i + 1, B)
    BY <2>1
  <2>2. (i + 1) + k = (i + k) + 1 /\ i + k \in 0 .. 7
    OBVIOUS
  <2>3. Turn((i + k) + 1, A) = CrcBit(Turn(i + k, A))
    BY <2>2, TurnFacts
  <2>4. Turn(i + 1, B) = CrcBit(Turn(i, B))
    BY <1>1, TurnFacts
  <2>5. Turn(i + k, A) = Turn(i, B)
    BY <1>3, <2>2
  <2>. QED  BY <2>2, <2>3, <2>4, <2>5
<1>. HIDE DEF S
<1>4. j \in S
  BY <1>2, <1>3, TurnInduction
<1>. QED  BY <1>4 DEF S, B

-----------------------------------------------------------------------------
(* The bytes of a packet.                                                  *)

LEMMA BitsType == \A n : Bits(n) \in Registers
BY DEF Bits, Registers

LEMMA ByteType ==
    ASSUME NEW reg \in Registers, NEW byte
    PROVE  CrcByte(reg, byte) \in Registers
BY BitsType, XorFacts, ByteTurns, TurnFacts

\* u holds the registers of calculate_crc before each byte and at the end.
Computes(u, p, first, end) ==
    /\ u \in [first .. end -> Registers]
    /\ u[first] = 0 .. 15
    /\ \A i \in first + 1 .. end : u[i] = CrcByte(u[i - 1], p[i - 1])

LEMMA CrcComputes ==
    ASSUME NEW p, NEW first \in Nat, NEW end \in Nat, first <= end
    PROVE  \E u : Computes(u, p, first, end) /\ CalculateCrc(p, first, end) = u[end]
<1>. DEFINE step == [i \in first + 1 .. end |->
                        [r \in Registers |-> CrcByte(r, p[i - 1])]]
            upTo[i \in first .. end] ==
                IF i = first THEN 0 .. 15
                ELSE LET reg == upTo[i - 1] IN
                     CASE reg \in Registers -> CrcByte(reg, p[i - 1])
<1>1. \A i \in first + 1 .. end : \A r \in Registers : step[i][r] \in Registers
  BY ByteType
<1>2. 0 .. 15 \in Registers /\ first \in Int /\ end \in Int
  BY DEF Registers
<1>3. PICK f \in [first .. end -> Registers] : Follows(f, 0 .. 15, first, end, step)
  <2>. HIDE DEF step
  <2>. QED  BY <1>1, <1>2, Recursion
<1>4. Computes(f, p, first, end)
  <2>1. ASSUME NEW i \in first + 1 .. end PROVE f[i] = CrcByte(f[i - 1], p[i - 1])
    <3>1. i - 1 \in first .. end /\ f[i - 1] \in Registers
      BY <1>3
    <3>. QED  BY <1>3, <3>1 DEF Follows
  <2>. QED  BY <1>3, <2>1 DEF Computes, Follows
<1>5. f = [i \in first .. end |->
              IF i = first THEN 0 .. 15
              ELSE LET reg == f[i - 1] IN
                   CASE reg \in Registers -> CrcByte(reg, p[i - 1])]
  <2>1. ASSUME NEW i \in first .. end, i # first
        PROVE  i \in first + 1 .. end /\ f[i - 1] \in Registers
    BY <1>3, <2>1
  <2>. QED  BY <1>3, <1>4, <2>1 DEF Computes
<1>6. upTo = [i \in first .. end |->
                 IF i = first THEN 0 .. 15
                 ELSE LET reg == upTo[i - 1] IN
                      CASE reg \in Registers -> CrcByte(reg, p[i - 1])]
  BY <1>5
<1>7. CalculateCrc(p, first, end) = upTo[end]
  BY DEF CalculateCrc
<1>. HIDE DEF upTo
<1>8. \A i \in first .. end : upTo[i] = f[i]
  <2>. DEFINE S == {n \in Nat : first + n <= end => upTo[first + n] = f[first + n]}
  <2>1. 0 \in S
    <3>1. first \in first .. end /\ first + 0 = first
      OBVIOUS
    <3>2. upTo[first] = 0 .. 15
      BY <1>6, <3>1
    <3>. QED  BY <1>4, <3>1, <3>2 DEF Computes
  <2>2. ASSUME NEW n \in Nat, n \in S PROVE n + 1 \in S
    <3>. DEFINE i == first + (n + 1)
    <3>. SUFFICES ASSUME i <= end PROVE upTo[i] = f[i]
      OBVIOUS
    <3>1. i \in first + 1 .. end /\ i \in first .. end /\ i # first /\ i - 1 = first + n
      OBVIOUS
    <3>2. upTo[i - 1] = f[i - 1] /\ f[i - 1] \in Registers
      BY <1>3, <2>2, <3>1
    <3>. HIDE DEF i
    <3>3. f[i] = CrcByte(f[i - 1], p[i - 1])
      BY <1>4, <3>1 DEF Computes
    <3>4. upTo[i] = CrcByte(f[i - 1], p[i - 1])
      BY <1>6, <3>1, <3>2
    <3>. QED  BY <3>3, <3>4
  <2>. HIDE DEF S
  <2>3. Nat \subseteq S
    BY <2>1, <2>2, Induction
  <2>4. ASSUME NEW i \in first .. end PROVE upTo[i] = f[i]
    <3>1. i - first \in Nat /\ first + (i - first) = i
      OBVIOUS
    <3>2. i - first \in S
      BY <2>3, <3>1
    <3>. QED  BY <3>1, <3>2 DEF S
  <2>. QED  BY <2>4
<1>. QED  BY <1>4, <1>7, <1>8
-----------------------------------------------------------------------------
(* Numbers and their bits.                                                 *)

LEMMA BitAt ==
    ASSUME NEW n \in Nat
    PROVE  /\ Bits(n) \subseteq 0 .. 15
           /\ (0 \in Bits(n) <=> n % 2 = 1)
           /\ (1 \in Bits(n) <=> (n \div 2) % 2 = 1)
           /\ (2 \in Bits(n) <=> (n \div 4) % 2 = 1)
           /\ (3 \in Bits(n) <=> (n \div 8) % 2 = 1)
           /\ (4 \in Bits(n) <=> (n \div 16) % 2 = 1)
           /\ (5 \in Bits(n) <=> (n \div 32) % 2 = 1)
           /\ (6 \in Bits(n) <=> (n \div 64) % 2 = 1)
           /\ (7 \in Bits(n) <=> (n \div 128) % 2 = 1)
           /\ (8 \in Bits(n) <=> (n \div 256) % 2 = 1)
           /\ (9 \in Bits(n) <=> (n \div 512) % 2 = 1)
           /\ (10 \in Bits(n) <=> (n \div 1024) % 2 = 1)
           /\ (11 \in Bits(n) <=> (n \div 2048) % 2 = 1)
           /\ (12 \in Bits(n) <=> (n \div 4096) % 2 = 1)
           /\ (13 \in Bits(n) <=> (n \div 8192) % 2 = 1)
           /\ (14 \in Bits(n) <=> (n \div 16384) % 2 = 1)
           /\ (15 \in Bits(n) <=> (n \div 32768) % 2 = 1)
<1>. n \div 1 = n
  OBVIOUS
<1>0. (0 \in Bits(n) <=> n % 2 = 1)
  BY DEF Bits
<1>1. (1 \in Bits(n) <=> (n \div 2) % 2 = 1)
  BY DEF Bits
<1>2. (2 \in Bits(n) <=> (n \div 4) % 2 = 1)
  BY DEF Bits
<1>3. (3 \in Bits(n) <=> (n \div 8) % 2 = 1)
  BY DEF Bits
<1>4. (4 \in Bits(n) <=> (n \div 16) % 2 = 1)
  BY DEF Bits
<1>5. (5 \in Bits(n) <=> (n \div 32) % 2 = 1)
  BY DEF Bits
<1>6. (6 \in Bits(n) <=> (n \div 64) % 2 = 1)
  BY DEF Bits
<1>7. (7 \in Bits(n) <=> (n \div 128) % 2 = 1)
  BY DEF Bits
<1>8. (8 \in Bits(n) <=> (n \div 256) % 2 = 1)
  BY DEF Bits
<1>9. (9 \in Bits(n) <=> (n \div 512) % 2 = 1)
  BY DEF Bits
<1>10. (10 \in Bits(n) <=> (n \div 1024) % 2 = 1)
  BY DEF Bits
<1>11. (11 \in Bits(n) <=> (n \div 2048) % 2 = 1)
  BY DEF Bits
<1>12. (12 \in Bits(n) <=> (n \div 4096) % 2 = 1)
  BY DEF Bits
<1>13. (13 \in Bits(n) <=> (n \div 8192) % 2 = 1)
  BY DEF Bits
<1>14. (14 \in Bits(n) <=> (n \div 16384) % 2 = 1)
  BY DEF Bits
<1>15. (15 \in Bits(n) <=> (n \div 32768) % 2 = 1)
  BY DEF Bits
<1>. QED  BY <1>0, <1>1, <1>2, <1>3, <1>4, <1>5, <1>6, <1>7, <1>8, <1>9, <1>10, <1>11, <1>12, <1>13, <1>14, <1>15 DEF Bits

LEMMA BitsOfByte ==
    ASSUME NEW n \in Bytes
    PROVE  Bits(n) \subseteq 0 .. 7
<1>1. /\ n \div 256 = 0 /\ n \div 512 = 0 /\ n \div 1024 = 0 /\ n \div 2048 = 0
      /\ n \div 4096 = 0 /\ n \div 8192 = 0 /\ n \div 16384 = 0 /\ n \div 32768 = 0
  BY DEF Bytes
<1>2. /\ 8 \notin Bits(n) /\ 9 \notin Bits(n) /\ 10 \notin Bits(n) /\ 11 \notin Bits(n)
      /\ 12 \notin Bits(n) /\ 13 \notin Bits(n) /\ 14 \notin Bits(n) /\ 15 \notin Bits(n)
  BY <1>1, BitAt DEF Bytes
<1>3. \A i \in 8 .. 15 : i \notin Bits(n)
  BY <1>2
<1>4. ASSUME NEW i \in Bits(n) PROVE i \in 0 .. 7
  <2>1. i \in 0 .. 15
    BY DEF Bits
  <2>. QED  BY <1>3, <2>1
<1>. QED  BY <1>4

LEMMA BitsOfField ==
    ASSUME NEW a \in Bytes, NEW b \in Bytes
    PROVE  Bits(a + 256 * b) = Bits(a) \cup {i + 8 : i \in Bits(b)}
<1>. DEFINE n == a + 256 * b
<1>1. n \in Nat /\ a \in Nat /\ b \in Nat
  BY DEF Bytes
<1>2. /\ n % 2 = a % 2 /\ (n \div 2) % 2 = (a \div 2) % 2
      /\ (n \div 4) % 2 = (a \div 4) % 2
      /\ (n \div 8) % 2 = (a \div 8) % 2
      /\ (n \div 16) % 2 = (a \div 16) % 2
      /\ (n \div 32) % 2 = (a \div 32) % 2
      /\ (n \div 64) % 2 = (a \div 64) % 2
      /\ (n \div 128) % 2 = (a \div 128) % 2
      /\ n \div 256 = b /\ n \div 512 = b \div 2
      /\ n \div 1024 = b \div 4 /\ n \div 2048 = b \div 8
      /\ n \div 4096 = b \div 16 /\ n \div 8192 = b \div 32
      /\ n \div 16384 = b \div 64 /\ n \div 32768 = b \div 128
  BY DEF Bytes
<1>. HIDE DEF n
<1>3. /\ (0 \in Bits(n) <=> 0 \in Bits(a)) /\ (1 \in Bits(n) <=> 1 \in Bits(a))
      /\ (2 \in Bits(n) <=> 2 \in Bits(a)) /\ (3 \in Bits(n) <=> 3 \in Bits(a))
      /\ (4 \in Bits(n) <=> 4 \in Bits(a)) /\ (5 \in Bits(n) <=> 5 \in Bits(a))
      /\ (6 \in Bits(n) <=> 6 \in Bits(a)) /\ (7 \in Bits(n) <=> 7 \in Bits(a))
  BY <1>1, <1>2, BitAt
<1>4. /\ (8 \in Bits(n) <=> 0 \in Bits(b)) /\ (9 \in Bits(n) <=> 1 \in Bits(b))
      /\ (10 \in Bits(n) <=> 2 \in Bits(b)) /\ (11 \in Bits(n) <=> 3 \in Bits(b))
      /\ (12 \in Bits(n) <=> 4 \in Bits(b)) /\ (13 \in Bits(n) <=> 5 \in Bits(b))
      /\ (14 \in Bits(n) <=> 6 \in Bits(b)) /\ (15 \in Bits(n) <=> 7 \in Bits(b))
  BY <1>1, <1>2, BitAt
<1>5. Bits(a) \subseteq 0 .. 7 /\ Bits(b) \subseteq 0 .. 7 /\ Bits(n) \subseteq 0 .. 15
  BY BitsOfByte DEF Bits
<1>. DEFINE M == Bits(a) \cup {i + 8 : i \in Bits(b)}
<1>6. \A i \in 0 .. 7 : i \in M <=> i \in Bits(a)
  BY <1>5
<1>7. \A i \in 8 .. 15 : i \in M <=> i - 8 \in Bits(b)
  BY <1>5
<1>8. M \subseteq 0 .. 15
  BY <1>5
<1>. HIDE DEF M
<1>9. \A i \in 0 .. 7 : i \in M <=> i \in Bits(n)
  BY <1>3, <1>6
<1>10. \A i \in 8 .. 15 : i \in M <=> i \in Bits(n)
  BY <1>4, <1>7
<1>11. \A i : i \in M <=> i \in Bits(n)
  <2>1. \A i \in 0 .. 15 : i \in 0 .. 7 \/ i \in 8 .. 15
    OBVIOUS
  <2>2. \A i \in 0 .. 15 : i \in M <=> i \in Bits(n)
    BY <1>9, <1>10, <2>1
  <2>. QED  BY <1>5, <1>8, <2>2
<1>12. M = Bits(n)
  BY <1>11
<1>. QED  BY <1>12 DEF M, n
-----------------------------------------------------------------------------
(* Two packets, one the other with the bits at the positions in D flipped.  *)
(* Bit j of a packet is bit j % 8 of byte j \div 8.                        *)

\* The flipped bits of byte i, those of the byte after it as they are in a
\* field of sixteen bits, and both.
Hit(D, i)    == {j - 8 * i : j \in D \cap (8 * i .. 8 * i + 7)}
Next8(D, i)  == {j - 8 * i : j \in D \cap (8 * i + 8 .. 8 * i + 15)}
Window(D, i) == {j - 8 * i : j \in D \cap (8 * i .. 8 * i + 15)}

LEMMA Windows ==
    ASSUME NEW D \in SUBSET Nat, NEW i \in Nat
    PROVE  /\ Hit(D, i) \in Registers /\ Next8(D, i) \in Registers
           /\ Window(D, i) \in Registers
           /\ Window(D, i) = Xor(Hit(D, i), Next8(D, i))
           /\ Turn(8, Next8(D, i)) = Hit(D, i + 1)
<1>1. \A j \in D : j \in Nat
  OBVIOUS
<1>2. Hit(D, i) \subseteq 0 .. 7 /\ Next8(D, i) \subseteq 8 .. 15
  BY <1>1 DEF Hit, Next8
<1>3. Window(D, i) \subseteq 0 .. 15
  BY <1>1 DEF Window
<1>4. \A x \in 0 .. 15 : /\ x \in Hit(D, i) <=> x <= 7 /\ x + 8 * i \in D
                         /\ x \in Next8(D, i) <=> x >= 8 /\ x + 8 * i \in D
                         /\ x \in Window(D, i) <=> x + 8 * i \in D
  BY <1>1 DEF Hit, Next8, Window
<1>5. Hit(D, i) \in Registers /\ Next8(D, i) \in Registers /\ Window(D, i) \in Registers
  BY <1>2, <1>3 DEF Registers
<1>6. Window(D, i) = Xor(Hit(D, i), Next8(D, i))
  <2>1. Xor(Hit(D, i), Next8(D, i)) \subseteq 0 .. 15
    BY <1>2 DEF Xor
  <2>2. \A x \in 0 .. 15 : x \in Xor(Hit(D, i), Next8(D, i)) <=> x + 8 * i \in D
    BY <1>4 DEF Xor
  <2>3. \A x : x \in Window(D, i) <=> x \in Xor(Hit(D, i), Next8(D, i))
    BY <1>3, <1>4, <2>1, <2>2
  <2>. QED  BY <2>3
<1>7. Turn(8, Next8(D, i)) = Down(Next8(D, i), 8)
  BY <1>2, <1>5, TurnShifts
<1>8. Down(Next8(D, i), 8) = Hit(D, i + 1)
  <2>1. \A j \in D : (j - 8 * i) - 8 = j - 8 * (i + 1)
    BY <1>1
  <2>2. 8 * (i + 1) = 8 * i + 8 /\ 8 * (i + 1) + 7 = 8 * i + 15
    OBVIOUS
  <2>3. \A x : x \in Down(Next8(D, i), 8) <=>
                 \E j \in D \cap (8 * i + 8 .. 8 * i + 15) : x = (j - 8 * i) - 8
    BY DEF Down, Next8
  <2>4. \A x : x \in Hit(D, i + 1) <=>
                 \E j \in D \cap (8 * i + 8 .. 8 * i + 15) : x = (j - 8 * i) - 8
    BY <2>1, <2>2 DEF Hit
  <2>. QED  BY <2>3, <2>4
<1>. QED  BY <1>5, <1>6, <1>7, <1>8

LEMMA XorSwap ==
    ASSUME NEW A, NEW B, NEW C, NEW D
    PROVE  /\ Xor(Xor(A, B), Xor(C, D)) = Xor(Xor(A, C), Xor(B, D))
           /\ Xor(Xor(A, B), C) = Xor(A, Xor(B, C))
BY DEF Xor

\* The registers of two packets differ by what the difference before the byte,
\* and the difference of the byte, turn into.
LEMMA Difference ==
    ASSUME NEW p, NEW q, NEW u, NEW v, NEW first \in Nat, NEW end \in Nat,
           Computes(u, p, first, end), Computes(v, q, first, end),
           NEW i \in first .. end - 1
    PROVE  /\ Xor(u[i], v[i]) \in Registers
           /\ Xor(u[i + 1], v[i + 1]) =
                 Turn(8, Xor(Xor(u[i], v[i]), Xor(Bits(p[i]), Bits(q[i]))))
<1>1. i \in first .. end /\ i + 1 \in first + 1 .. end /\ (i + 1) - 1 = i
  OBVIOUS
<1>2. u[i] \in Registers /\ v[i] \in Registers
  BY <1>1 DEF Computes
<1>3. /\ u[i + 1] = CrcByte(u[i], p[i])
      /\ v[i + 1] = CrcByte(v[i], q[i])
  BY <1>1 DEF Computes
<1>4. Xor(u[i], Bits(p[i])) \in Registers /\ Xor(v[i], Bits(q[i])) \in Registers
  BY <1>2, BitsType, XorFacts
<1>5. Xor(u[i + 1], v[i + 1]) =
         Turn(8, Xor(Xor(u[i], Bits(p[i])), Xor(v[i], Bits(q[i]))))
  <2>1. 8 \in 0 .. 8
    OBVIOUS
  <2>. QED  BY <1>3, <1>4, <2>1, ByteTurns, TurnLinear
<1>6. Xor(Xor(u[i], Bits(p[i])), Xor(v[i], Bits(q[i]))) =
         Xor(Xor(u[i], v[i]), Xor(Bits(p[i]), Bits(q[i])))
  BY XorSwap
<1>. QED  BY <1>2, <1>5, <1>6, XorFacts
\* The registers' difference, with the flipped bits under the field at i taken
\* in, and how a turn of the outer loop moves it on.
LEMMA WindowStep ==
    ASSUME NEW p, NEW q, NEW u, NEW v, NEW first \in Nat, NEW end \in Nat,
           Computes(u, p, first, end), Computes(v, q, first, end),
           NEW D \in SUBSET Nat, NEW i \in first .. end - 1,
           Xor(Bits(p[i]), Bits(q[i])) = Hit(D, i)
    PROVE  /\ Xor(Xor(u[i], v[i]), Window(D, i)) \in Registers
           /\ Xor(Xor(u[i + 1], v[i + 1]), Window(D, i + 1)) =
                 Xor(Turn(8, Xor(Xor(u[i], v[i]), Window(D, i))), Next8(D, i + 1))
<1>. DEFINE R == Xor(u[i], v[i])
            Rn == Xor(u[i + 1], v[i + 1])
            H == Hit(D, i)
            N == Next8(D, i)
            Hn == Hit(D, i + 1)
            Nn == Next8(D, i + 1)
<1>1. i \in Nat /\ i + 1 \in Nat
  OBVIOUS
<1>2. R \in Registers /\ Rn = Turn(8, Xor(R, H))
  BY Difference
<1>3. /\ H \in Registers /\ N \in Registers /\ Window(D, i) = Xor(H, N)
      /\ Turn(8, N) = Hn /\ Window(D, i + 1) = Xor(Hn, Nn)
      /\ Window(D, i) \in Registers
  BY <1>1, Windows
<1>. HIDE DEF R, Rn, H, N, Hn, Nn
<1>4. Xor(R, Window(D, i)) = Xor(Xor(R, H), N)
  BY <1>3, XorSwap
<1>5. Xor(R, H) \in Registers /\ Xor(R, Window(D, i)) \in Registers
  BY <1>2, <1>3, XorFacts
<1>6. Turn(8, Xor(R, Window(D, i))) = Xor(Rn, Hn)
  <2>1. 8 \in 0 .. 8
    OBVIOUS
  <2>2. Turn(8, Xor(Xor(R, H), N)) = Xor(Turn(8, Xor(R, H)), Turn(8, N))
    BY <1>3, <1>5, <2>1, TurnLinear
  <2>. QED  BY <1>2, <1>3, <1>4, <2>2
<1>7. Xor(Rn, Window(D, i + 1)) = Xor(Xor(Rn, Hn), Nn)
  BY <1>3, XorSwap
<1>. QED  BY <1>5, <1>6, <1>7 DEF R, Rn, Nn

\* Sixteen bits from s on: before they come the difference is what is in
\* sight of them, and once they have begun it is not empty.
LEMMA BurstStep ==
    ASSUME NEW D \in SUBSET Nat, D # {}, NEW s \in Nat, D \subseteq s .. s + 15,
           NEW i \in Nat, NEW V \in Registers,
           8 * i <= s => V = Window(D, i),
           8 * i > s => V # {}
    PROVE  LET W == Xor(Turn(8, V), Next8(D, i + 1))
           IN /\ 8 * (i + 1) <= s => W = Window(D, i + 1)
              /\ 8 * (i + 1) > s => W # {}
<1>. DEFINE Nn == Next8(D, i + 1)
            W == Xor(Turn(8, V), Nn)
<1>1. i + 1 \in Nat /\ 8 \in 0 .. 8 /\ 8 * (i + 1) = 8 * i + 8
  OBVIOUS
<1>2. Nn \in Registers /\ Turn(8, V) \in Registers
  BY <1>1, Windows, TurnFacts
<1>3. \A x : x \in Nn <=> \E j \in D : j >= 8 * i + 16 /\ j <= 8 * i + 23 /\ x = j - (8 * i + 8)
  BY <1>1 DEF Next8
<1>4. CASE 8 * (i + 1) <= s
  <2>1. Hit(D, i) = {}
    <3>1. \A j \in D : j > 8 * i + 7
      BY <1>1, <1>4
    <3>. QED  BY <3>1 DEF Hit
  <2>2. V = Next8(D, i)
    <3>1. V = Xor({}, Next8(D, i))
      <4>1. V = Window(D, i)
        BY <1>1, <1>4
      <4>. QED  BY <2>1, <4>1, Windows
    <3>. QED  BY <3>1 DEF Xor
  <2>. HIDE DEF Nn
  <2>3. Turn(8, V) = Hit(D, i + 1)
    BY <2>2, Windows
  <2>4. W = Window(D, i + 1)
    BY <1>1, <2>3, Windows DEF Nn
  <2>. QED  BY <1>1, <1>4, <2>4 DEF Nn
<1>5. CASE 8 * i > s
  <2>1. Nn = {}
    BY <1>3, <1>5
  <2>. HIDE DEF Nn
  <2>2. W = Turn(8, V)
    BY <2>1 DEF Xor
  <2>3. Turn(8, V) # {}
    BY <1>1, <1>5, TurnKernel
  <2>. QED  BY <1>1, <1>5, <2>2, <2>3 DEF Nn
<1>6. CASE 8 * i <= s /\ s < 8 * i + 8
  <2>. DEFINE k == s - 8 * i
              m == 8 - k
              A == Down(V, k)
              B == {j - s : j \in D \cap (8 * i + 16 .. 8 * i + 23)}
  <2>1. k \in 0 .. 7 /\ k \in 0 .. 8 /\ m \in 0 .. 8 /\ m + k = 8 /\ s = 8 * i + k
    BY <1>6
  <2>2. \A x : x \in V <=> \E j \in D : j <= 8 * i + 15 /\ x = j - 8 * i
    BY <1>6 DEF Window
  <2>3. V \subseteq k .. 15
    BY <2>2
  <2>4. A = Turn(k, V)
    BY <2>1, <2>3, TurnShifts
  <2>5. Turn(8, V) = Turn(m, A)
    <3>. HIDE DEF k, m
    <3>. QED  BY <2>1, <2>4, TurnsAdd
  <2>6. B \subseteq m .. 15 /\ B \in Registers
    <3>1. \A j \in D \cap (8 * i + 16 .. 8 * i + 23) : j - s \in m .. 15 /\ j - s \in 0 .. 15
      OBVIOUS
    <3>. QED  BY <3>1 DEF Registers
  <2>7. Nn = Turn(m, B)
    <3>1. \A j \in D : (j - s) - m = j - (8 * i + 8)
      OBVIOUS
    <3>2. \A x : x \in Down(B, m) <=>
                 \E j \in D : j >= 8 * i + 16 /\ j <= 8 * i + 23 /\ x = (j - s) - m
      <4>1. \A y : y \in B <=> \E j \in D : j >= 8 * i + 16 /\ j <= 8 * i + 23 /\ y = j - s
        OBVIOUS
      <4>. HIDE DEF B, m
      <4>2. \A x : x \in Down(B, m) <=> \E y \in B : x = y - m
        BY DEF Down
      <4>. QED  BY <4>1, <4>2
    <3>. HIDE DEF Nn, B, m
    <3>3. \A x : x \in Down(B, m) <=> x \in Nn
      BY <1>3, <3>1, <3>2
    <3>4. Down(B, m) = Nn
      BY <3>3
    <3>. QED  BY <2>1, <2>6, <3>4, TurnShifts
  <2>8. A \in Registers
    BY <2>1, <2>4, TurnFacts
  <2>9. Xor(A, B) # {}
    <3>1. PICK d \in D : TRUE
      OBVIOUS
    <3>2. \A x : x \in A <=> \E j \in D : j <= 8 * i + 15 /\ x = j - s
      <4>1. \A j \in D : (j - 8 * i) - k = j - s
        OBVIOUS
      <4>2. \A x : x \in A <=> \E y \in V : x = y - k
        BY DEF Down
      <4>. HIDE DEF A, k
      <4>. QED  BY <2>2, <4>1, <4>2
    <3>3. d <= s + 15 /\ d >= s /\ s + 15 <= 8 * i + 23
      BY <2>1
    <3>4. CASE d <= 8 * i + 15
      <4>1. d - s \in A /\ d - s \notin B
        BY <3>2, <3>4
      <4>. QED  BY <4>1 DEF Xor
    <3>5. CASE ~ (d <= 8 * i + 15)
      <4>1. d - s \in B
        BY <3>3, <3>5
      <4>2. d - s \notin A
        <5>. SUFFICES ASSUME d - s \in A PROVE FALSE
          OBVIOUS
        <5>. HIDE DEF A
        <5>1. PICK j \in D : j <= 8 * i + 15 /\ d - s = j - s
          BY <3>2
        <5>2. d \in Nat /\ j \in Nat /\ s \in Nat
          OBVIOUS
        <5>. QED  BY <3>5, <5>1, <5>2
      <4>. QED  BY <4>1, <4>2 DEF Xor
    <3>. QED  BY <3>4, <3>5
  <2>. HIDE DEF A, B, m, k, Nn
  <2>10. W = Turn(m, Xor(A, B))
    BY <2>1, <2>5, <2>6, <2>7, <2>8, TurnLinear
  <2>11. Xor(A, B) \in Registers
    BY <2>6, <2>8, XorFacts
  <2>12. W # {}
    BY <2>1, <2>9, <2>10, <2>11, TurnKernel
  <2>. QED  BY <1>1, <1>6, <2>12 DEF Nn
<1>. QED  BY <1>1, <1>4, <1>5, <1>6
(***************************************************************************)
(* The CRC notices every burst: if two packets differ in some of sixteen   *)
(* neighbouring bits and nowhere else, in the bytes the CRC is taken over  *)
(* or in the field that holds it, then verify_crc refuses one of them.  So *)
(* what a packet that was sealed becomes by such a damage is refused.      *)
(***************************************************************************)
THEOREM BurstsCaught ==
    ASSUME NEW first \in Nat, NEW end \in Nat, first <= end,
           NEW p, NEW q,
           \A i \in first .. end + 1 : p[i] \in Bytes /\ q[i] \in Bytes,
           NEW D \in SUBSET (8 * first .. 8 * end + 15), D # {},
           NEW s \in Nat, D \subseteq s .. s + 15,
           \A i \in first .. end + 1 : Xor(Bits(p[i]), Bits(q[i])) = Hit(D, i)
    PROVE  ~ (VerifyCrc(p, first, end) /\ VerifyCrc(q, first, end))
<1>1. PICK u : Computes(u, p, first, end) /\ CalculateCrc(p, first, end) = u[end]
  BY CrcComputes
<1>2. PICK v : Computes(v, q, first, end) /\ CalculateCrc(q, first, end) = v[end]
  BY CrcComputes
<1>3. D \in SUBSET Nat
  OBVIOUS
<1>. DEFINE V(i) == Xor(Xor(u[i], v[i]), Window(D, i))
            P(i) == /\ V(i) \in Registers
                    /\ 8 * i <= s => V(i) = Window(D, i)
                    /\ 8 * i > s => V(i) # {}
            S == {n \in Nat : first + n <= end => P(first + n)}
<1>4. P(first)
  <2>1. Xor(u[first], v[first]) = {}
    BY <1>1, <1>2 DEF Computes, Xor
  <2>2. V(first) = Window(D, first)
    BY <2>1 DEF Xor
  <2>3. Window(D, first) \in Registers
    BY <1>3, Windows
  <2>4. ASSUME 8 * first > s PROVE Window(D, first) # {}
    <3>1. PICK d \in D : TRUE
      OBVIOUS
    <3>2. d \in 8 * first .. 8 * first + 15
      BY <2>4
    <3>. QED  BY <3>2 DEF Window
  <2>. HIDE DEF V
  <2>. QED  BY <2>2, <2>3, <2>4
<1>5. ASSUME NEW i \in first .. end - 1, P(i) PROVE P(i + 1)
  <2>1. Xor(Bits(p[i]), Bits(q[i])) = Hit(D, i) /\ i \in Nat /\ i + 1 \in Nat
    OBVIOUS
  <2>2. V(i + 1) = Xor(Turn(8, V(i)), Next8(D, i + 1))
    BY <1>1, <1>2, <1>3, <2>1, WindowStep
  <2>. HIDE DEF V
  <2>3. V(i) \in Registers /\ (8 * i <= s => V(i) = Window(D, i)) /\ (8 * i > s => V(i) # {})
    BY <1>5
  <2>4. /\ 8 * (i + 1) <= s => Xor(Turn(8, V(i)), Next8(D, i + 1)) = Window(D, i + 1)
        /\ 8 * (i + 1) > s => Xor(Turn(8, V(i)), Next8(D, i + 1)) # {}
    BY <1>3, <2>1, <2>3, BurstStep
  <2>5. Turn(8, V(i)) \in Registers /\ Next8(D, i + 1) \in Registers
    BY <1>3, <2>1, <2>3, TurnFacts, Windows
  <2>6. V(i + 1) \in Registers
    BY <2>2, <2>5, XorFacts
  <2>. QED  BY <2>2, <2>4, <2>6
<1>6. P(end)
  <2>. HIDE DEF P
  <2>1. 0 \in S
    BY <1>4
  <2>2. ASSUME NEW n \in Nat, n \in S PROVE n + 1 \in S
    <3>. SUFFICES ASSUME first + (n + 1) <= end PROVE P(first + (n + 1))
      OBVIOUS
    <3>1. first + n \in first .. end - 1 /\ first + (n + 1) = (first + n) + 1
      OBVIOUS
    <3>. QED  BY <1>5, <2>2, <3>1
  <2>. HIDE DEF S
  <2>3. Nat \subseteq S
    BY <2>1, <2>2, Induction
  <2>4. end - first \in Nat /\ first + (end - first) = end
    OBVIOUS
  <2>5. end - first \in S
    BY <2>3, <2>4
  <2>. QED  BY <2>4, <2>5 DEF S
<1>7. Window(D, end) = {} => 8 * end > s
  <2>. SUFFICES ASSUME 8 * end <= s PROVE Window(D, end) # {}
    OBVIOUS
  <2>1. PICK d \in D : TRUE
    OBVIOUS
  <2>2. d \in 8 * end .. 8 * end + 15
    OBVIOUS
  <2>. QED  BY <2>2 DEF Window
<1>8. V(end) # {}
  <2>. HIDE DEF V
  <2>. QED  BY <1>6, <1>7
<1>. SUFFICES ASSUME VerifyCrc(p, first, end), VerifyCrc(q, first, end) PROVE FALSE
  OBVIOUS
<1>9. Xor(Field16(p, end), Field16(q, end)) = Window(D, end)
  <2>. DEFINE A == Bits(p[end])
              B == Bits(p[end + 1])
              C == Bits(q[end])
              E == Bits(q[end + 1])
              Up(Z) == {x + 8 : x \in Z}
  <2>1. end \in first .. end + 1 /\ end + 1 \in first .. end + 1
    OBVIOUS
  <2>2. /\ p[end] \in Bytes /\ p[end + 1] \in Bytes
        /\ q[end] \in Bytes /\ q[end + 1] \in Bytes
    BY <2>1
  <2>3. Field16(p, end) = A \cup Up(B) /\ Field16(q, end) = C \cup Up(E)
    BY <2>2, BitsOfField DEF Field16
  <2>4. A \subseteq 0 .. 7 /\ B \subseteq 0 .. 7 /\ C \subseteq 0 .. 7 /\ E \subseteq 0 .. 7
    BY <2>2, BitsOfByte
  <2>5. Xor(A, C) = Hit(D, end) /\ Xor(B, E) = Hit(D, end + 1)
    BY <2>1
  <2>. HIDE DEF A, B, C, E
  <2>6. Xor(A \cup Up(B), C \cup Up(E)) = Xor(A, C) \cup Up(Xor(B, E))
    BY <2>4 DEF Xor
  <2>7. \A x : x \in Up(Hit(D, end + 1)) <=>
               \E j \in D : j >= 8 * end + 8 /\ j <= 8 * end + 15 /\ x = j - 8 * end
    <3>1. \A j \in D : (j - 8 * (end + 1)) + 8 = j - 8 * end
      OBVIOUS
    <3>2. \A x : x \in Hit(D, end + 1) <=>
               \E j \in D : j >= 8 * end + 8 /\ j <= 8 * end + 15 /\ x = j - 8 * (end + 1)
      <4>1. 8 * (end + 1) = 8 * end + 8 /\ 8 * (end + 1) + 7 = 8 * end + 15
        OBVIOUS
      <4>. QED  BY <4>1 DEF Hit
    <3>3. \A x : x \in Up(Hit(D, end + 1)) <=> \E y \in Hit(D, end + 1) : x = y + 8
      OBVIOUS
    <3>. DEFINE T == Hit(D, end + 1)
    <3>. HIDE DEF Up, T
    <3>4. \A x : (\E y \in T : x = y + 8) <=>
                 \E j \in D : /\ j >= 8 * end + 8 /\ j <= 8 * end + 15
                             /\ x = (j - 8 * (end + 1)) + 8
      BY <3>2 DEF T
    <3>5. \A x : \A j \in D : x = (j - 8 * (end + 1)) + 8 <=> x = j - 8 * end
      BY <3>1
    <3>6. \A x : (\E y \in T : x = y + 8) <=>
                 \E j \in D : j >= 8 * end + 8 /\ j <= 8 * end + 15 /\ x = j - 8 * end
      BY <3>4, <3>5, Zenon
    <3>. QED  BY <3>3, <3>6, Zenon DEF T
  <2>8. \A x : x \in Hit(D, end) <=>
               \E j \in D : j >= 8 * end /\ j <= 8 * end + 7 /\ x = j - 8 * end
    BY DEF Hit
  <2>9. \A x : x \in Window(D, end) <=>
               \E j \in D : j >= 8 * end /\ j <= 8 * end + 15 /\ x = j - 8 * end
    BY DEF Window
  <2>. HIDE DEF Up
  <2>10. \A x : x \in Window(D, end) <=> x \in Hit(D, end) \cup Up(Hit(D, end + 1))
    BY <2>7, <2>8, <2>9
  <2>11. Window(D, end) = Hit(D, end) \cup Up(Hit(D, end + 1))
    BY <2>10
  <2>. QED  BY <2>3, <2>5, <2>6, <2>11
<1>10. Xor(u[end], v[end]) = Window(D, end)
  BY <1>1, <1>2, <1>9 DEF VerifyCrc
<1>11. V(end) = {}
  BY <1>10 DEF Xor
<1>. QED  BY <1>8, <1>11
=============================================================================
