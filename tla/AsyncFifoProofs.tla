--------------------------- MODULE AsyncFifoProofs ---------------------------
(***************************************************************************)
(* Proofs about the dual-clock FIFO, for any set of depths (every one that *)
(* valid_depth accepts, up to 256) and any number of values.               *)
(*                                                                         *)
(* First the Gray codes: a code determines its pointer, pointers one lap   *)
(* apart have codes that differ in just the bits of wrap_mask, and         *)
(* neighbours differ in one bit.  They follow from what a bit of a number  *)
(* is, a parity of a quotient by a power of two; no code is enumerated.    *)
(* Then the FIFO: each pointer, and each copy of one on its way between    *)
(* the clocks, stands for a count of values, and the counts are ordered    *)
(* and lie within one lap, so comparing codes is comparing counts.         *)
(***************************************************************************)
EXTENDS AsyncFifo, RingArithmetic

(* The powers of two that occur in a pointer of nine bits and its laps.     *)
LEMMA PowerValues ==
    /\ Power(0) = 1 /\ Power(1) = 2 /\ Power(2) = 4 /\ Power(3) = 8
    /\ Power(4) = 16 /\ Power(5) = 32 /\ Power(6) = 64 /\ Power(7) = 128
    /\ Power(8) = 256 /\ Power(9) = 512 /\ Power(10) = 1024
  BY SMT DEF Power

LEMMA UpToTen ==
    ASSUME NEW i \in 0..10
    PROVE  \/ i = 0 \/ i = 1 \/ i = 2 \/ i = 3 \/ i = 4 \/ i = 5
           \/ i = 6 \/ i = 7 \/ i = 8 \/ i = 9 \/ i = 10
  BY SMT

(* A bit of a pointer is a digit of the number it is.                      *)
LEMMA BitFacts ==
    ASSUME NEW v \in Nat, NEW i \in 0..9
    PROVE  /\ Bit(v, i) \in {0, 1}
           /\ Low(v, i) \in 0..(Power(i) - 1)
           /\ Low(v, i + 1) = Power(i) * Bit(v, i) + Low(v, i)
<1>1. Bit(v, i) = Digit(v, i) /\ i \in 0..31
  BY DEF Bit, Digit, Power
<1> QED
  BY <1>1, DigitFacts

LEMMA BitIs ==
    ASSUME NEW i \in 0..9, NEW q \in Nat, NEW r \in 0..(Power(i) - 1)
    PROVE  Bit(Power(i) * q + r, i) = q % 2
<1>1. Bit(Power(i) * q + r, i) = Digit(Power(i) * q + r, i) /\ i \in 0..31
  BY DEF Bit, Digit, Power
<1> QED
  BY <1>1, DigitIs

LEMMA BitZeroOne ==
    ASSUME NEW v \in Nat, NEW i \in 0..9
    PROVE  Bit(v, i) = 0 \/ Bit(v, i) = 1
BY BitFacts

(* A Gray code has a one where two neighbouring bits differ.               *)
LEMMA GrayBit ==
    ASSUME NEW v \in Nat, NEW i \in Bits
    PROVE  bin_to_gray(v)[i] = IF Bit(v, i) = Bit(v, i + 1) THEN 0 ELSE 1
<1>1. i \in 0..9 /\ i + 1 \in 0..9
  BY DEF Bits
<1>2. bin_to_gray(v)[i] = (Bit(v, i) + Bit(v, i + 1)) % 2
  BY DEF bin_to_gray
<1>3. (Bit(v, i) = 0 \/ Bit(v, i) = 1) /\ (Bit(v, i + 1) = 0 \/ Bit(v, i + 1) = 1)
  BY <1>1, BitZeroOne
<1>4. /\ (0 + 0) % 2 = 0 /\ (0 + 1) % 2 = 1 /\ (1 + 0) % 2 = 1
      /\ (1 + 1) % 2 = 0
  BY SMT
<1> QED
  BY <1>2, <1>3, <1>4

LEMMA GrayIsCode ==
    ASSUME NEW v \in Nat
    PROVE  bin_to_gray(v) \in Codes
BY GrayBit DEF bin_to_gray, Codes

(* A Gray code determines the pointer it was made from.                    *)
THEOREM GrayInjective ==
    ASSUME NEW a \in 0..511, NEW b \in 0..511, bin_to_gray(a) = bin_to_gray(b)
    PROVE  a = b
<1> DEFINE S(i) == Bit(a, i) = Bit(b, i)
           T(i) == Low(a, i) = Low(b, i)
<1>1. a \in Nat /\ b \in Nat
  OBVIOUS
<1>2. S(9)
  BY PowerValues, SMT DEF Bit, Power
<1>3. ASSUME NEW i \in 0..8, S(i + 1) PROVE S(i)
  <2>1. bin_to_gray(a)[i] = bin_to_gray(b)[i] /\ i \in Bits
    BY DEF Bits
  <2>2. (Bit(a, i) = Bit(a, i + 1)) <=> (Bit(b, i) = Bit(b, i + 1))
    BY <1>1, <2>1, GrayBit
  <2>3. /\ Bit(a, i) = 0 \/ Bit(a, i) = 1
        /\ Bit(b, i) = 0 \/ Bit(b, i) = 1
        /\ Bit(a, i + 1) = 0 \/ Bit(a, i + 1) = 1
    BY <1>1, BitZeroOne, i \in 0..9, i + 1 \in 0..9
  <2> QED
    BY <1>3, <2>2, <2>3
<1>4. T(0)
  BY <1>1, PowerValues, SMT DEF Low
<1>5. ASSUME NEW i \in 0..8, S(i), T(i) PROVE T(i + 1)
  BY <1>1, <1>5, BitFacts, i \in 0..9
<1>6. Low(a, 9) = a /\ Low(b, 9) = b
  BY PowerValues, SMT DEF Low
<1> HIDE DEF S, T
<1>7. /\ (S(8 + 1) => S(8)) /\ (S(7 + 1) => S(7)) /\ (S(6 + 1) => S(6))
      /\ (S(5 + 1) => S(5)) /\ (S(4 + 1) => S(4)) /\ (S(3 + 1) => S(3))
      /\ (S(2 + 1) => S(2)) /\ (S(1 + 1) => S(1)) /\ (S(0 + 1) => S(0))
  BY <1>3
<1>8. S(8) /\ S(7) /\ S(6) /\ S(5) /\ S(4) /\ S(3) /\ S(2) /\ S(1) /\ S(0)
  BY <1>2, <1>7
<1>9. T(1) /\ T(2) /\ T(3) /\ T(4)
  BY <1>4, <1>5, <1>8
<1>10. T(5) /\ T(6) /\ T(7) /\ T(8) /\ T(9)
  BY <1>9, <1>5, <1>8
<1> QED
  BY <1>6, <1>10 DEF T

(* The bits of a pointer on the first lap (q = 0) or the second (q = 1)    *)
(* of a memory of 2^k: those of the address, then the lap, then zeros.     *)
LEMMA LapBits ==
    ASSUME NEW k \in 1..8, NEW q \in {0, 1}, NEW r \in 0..(Power(k) - 1),
           NEW i \in 0..9
    PROVE  Bit(Power(k) * q + r, i)
               = IF i < k THEN Bit(r, i) ELSE IF i = k THEN q ELSE 0
<1>1. Power(k) \in Nat \ {0} /\ Power(i) \in Nat \ {0}
  BY PowerFacts, k \in 0..10, i \in 0..10
<1>2. CASE i < k
  <2> DEFINE p == Power(i)
             u == r \div p
             w == r % p
  <2>1. i + 1 \in 0..k /\ k \in 0..10 /\ i \in 0..10 /\ i < 10
    BY <1>2
  <2>2. PICK m \in Nat : Power(k) = Power(i + 1) * m
    BY <2>1, PowerMultiple
  <2>3. Power(i + 1) = 2 * p /\ p \in Nat \ {0}
    BY <2>1, PowerFacts
  <2>4. u \in Int /\ w \in 0..(p - 1) /\ r = p * u + w /\ r \in Nat
    <3>1. r \in Nat /\ r \in Int
      BY <1>1
    <3> HIDE DEF p
    <3> QED
      BY <2>3, <3>1, DivisionForm
  <2> HIDE DEF u, w
  <2>5. u >= 0
    <3> HIDE DEF p
    <3> QED
      BY <2>3, <2>4, SMT
  <2>6. Bit(r, i) = u % 2
    BY <2>4, <2>5, BitIs
  <2>7. Power(k) * q + r = p * (u + 2 * (m * q)) + w
    BY <1>1, <2>2, <2>3, <2>4, SMT
  <2>8. u + 2 * (m * q) \in Nat /\ m * q \in Int /\ u \in Int
    BY <2>4, <2>5, <2>2
  <2>9. Bit(Power(k) * q + r, i) = (u + 2 * (m * q)) % 2
    BY <2>4, <2>7, <2>8, BitIs
  <2>10. (u + 2 * (m * q)) % 2 = u % 2
    BY <2>8, LapsVanish, 2 \in Nat \ {0}
  <2> QED
    BY <1>2, <2>6, <2>9, <2>10
<1>3. CASE i = k
  <2>1. Bit(Power(k) * q + r, i) = q % 2
    BY <1>3, BitIs, q \in Nat
  <2>2. q % 2 = q
    BY SMT
  <2> QED
    BY <1>3, <2>1, <2>2
<1>4. CASE i > k
  <2>1. k + 1 \in 0..i /\ i \in 0..10 /\ k \in 0..10 /\ k < 10
    BY <1>4
  <2>2. PICK m \in Nat : Power(i) = Power(k + 1) * m
    BY <2>1, PowerMultiple
  <2>3. Power(k + 1) = 2 * Power(k)
    BY <2>1, PowerFacts
  <2>4. m >= 1 /\ Power(i) >= 2 * Power(k)
    BY <1>1, <2>2, <2>3, SMT
  <2>5. Power(k) * q + r \in 0..(Power(i) - 1)
    BY <1>1, <2>4
  <2>6. Power(k) * q + r = Power(i) * 0 + (Power(k) * q + r)
    BY <1>1
  <2>7. Bit(Power(k) * q + r, i) = 0 % 2
    BY <2>5, <2>6, BitIs, 0 \in Nat
  <2> QED
    BY <1>4, <2>7
<1> QED
  BY <1>2, <1>3, <1>4

------------------------------------------------------------------------------
LEMMA PowerOrder ==
    ASSUME NEW j \in 0..10, NEW i \in 0..(j - 1)
    PROVE  Power(i) < Power(j)
<1>1. j \in 0..10 /\ i + 1 \in 0..j /\ i \in 0..10 /\ i < 10
  OBVIOUS
<1>2. PICK m \in Nat : Power(j) = Power(i + 1) * m
  BY <1>1, PowerMultiple
<1>3. Power(i + 1) = 2 * Power(i) /\ Power(i) \in Nat \ {0} /\ Power(j) \in Nat \ {0}
  BY <1>1, PowerFacts
<1> QED
  BY <1>2, <1>3, SMT

LEMMA ValidDepth ==
    ASSUME NEW d, valid_depth(d)
    PROVE  \E k \in 1..8 : /\ d = Power(k) /\ d \in Nat \ {0} /\ d \in 2..256
                          /\ wrap_mask(d) = {k - 1, k}
<1>1. PICK k \in 1..8 : d = Power(k)
  BY DEF valid_depth, Power
<1>2. d \in Nat \ {0}
  BY <1>1, PowerFacts, k \in 0..10
<1>3. d \in 2..256
  BY <1>1, UpToTen, PowerValues, k \in 0..10
<1>4. ASSUME NEW i \in Bits
      PROVE  (Power(i) <= d /\ d < Power(i + 2)) <=> i \in {k - 1, k}
  <2>1. i \in 0..8 /\ i \in 0..10 /\ i + 2 \in 0..10 /\ k \in 0..10
    BY DEF Bits
  <2>2. Power(i) \in Nat /\ Power(i + 2) \in Nat
    BY <2>1, PowerFacts
  <2>3. CASE i > k
    <3>1. Power(k) < Power(i)
      BY <2>1, <2>3, PowerOrder, k \in 0..(i - 1)
    <3> QED
      BY <1>1, <1>2, <2>1, <2>2, <2>3, <3>1
  <2>4. CASE i < k - 1
    <3>1. i + 2 = k \/ Power(i + 2) < Power(k)
      BY <2>1, <2>4, PowerOrder
    <3> QED
      BY <1>1, <1>2, <2>1, <2>2, <2>4, <3>1
  <2>5. CASE i = k \/ i = k - 1
    <3>1. i = k \/ Power(i) < Power(k)
      BY <2>1, <2>5, PowerOrder
    <3>2. Power(k) < Power(i + 2)
      BY <2>1, <2>5, PowerOrder, k \in 0..((i + 2) - 1)
    <3> QED
      BY <1>1, <1>2, <2>1, <2>2, <2>5, <3>1, <3>2
  <2> QED
    BY <2>1, <2>3, <2>4, <2>5
<1>5. wrap_mask(d) = {i \in Bits : Power(i) <= d /\ d < Power(i + 2)}
  BY DEF wrap_mask, Power
<1>6. k - 1 \in Bits /\ k \in Bits
  BY DEF Bits
<1>7. wrap_mask(d) = {k - 1, k}
  BY <1>4, <1>5, <1>6
<1> QED
  BY <1>1, <1>2, <1>3, <1>7

(* A pointer below 2^(k + 1) is an address and a lap.                      *)
LEMMA LapForm ==
    ASSUME NEW d \in Nat \ {0}, NEW b \in 0..(2 * d - 1)
    PROVE  \E q \in {0, 1}, r \in 0..(d - 1) :
               b = d * q + r /\ (b + d) % (2 * d) = d * (1 - q) + r
<1>1. CASE b < d
  <2>1. b = d * 0 + b /\ b \in 0..(d - 1) /\ d * (1 - 0) + b = b + d
    BY <1>1
  <2>2. (b + d) % (2 * d) = b + d
    <3>1. b + d \in 0..(2 * d - 1) /\ 2 * d \in Nat \ {0}
          /\ (2 * d) * 0 + (b + d) = b + d
      BY <1>1
    <3> QED
      BY <3>1, RemainderUnique, 0 \in Int
  <2> QED
    BY <2>1, <2>2
<1>2. CASE b >= d
  <2>1. b = d * 1 + (b - d) /\ b - d \in 0..(d - 1) /\ d * (1 - 1) + (b - d) = b - d
    BY <1>2
  <2>2. (b + d) % (2 * d) = b - d
    <3>1. b - d \in 0..(2 * d - 1) /\ 2 * d \in Nat \ {0}
          /\ (2 * d) * 1 + (b - d) = b + d
      BY <1>2
    <3> QED
      BY <3>1, RemainderUnique, 1 \in Int
  <2> QED
    BY <2>1, <2>2
<1> QED
  BY <1>1, <1>2

(* One lap further on, the Gray code differs in just the bits of the mask. *)
LEMMA GrayOfLap ==
    ASSUME NEW d, valid_depth(d), NEW b \in 0..(2 * d - 1)
    PROVE  bin_to_gray((b + d) % (2 * d)) = Flip(bin_to_gray(b), wrap_mask(d))
<1>1. PICK k \in 1..8 : d = Power(k) /\ d \in Nat \ {0} /\ wrap_mask(d) = {k - 1, k}
  BY ValidDepth
<1>2. PICK q \in {0, 1}, r \in 0..(d - 1) :
          b = d * q + r /\ (b + d) % (2 * d) = d * (1 - q) + r
  BY <1>1, LapForm
<1> DEFINE c == d * (1 - q) + r
<1>3. b \in Nat /\ c \in Nat /\ r \in Nat /\ 1 - q \in {0, 1}
  <2>1. d \in Nat /\ r \in Nat /\ (q = 0 \/ q = 1)
    BY <1>1
  <2> QED
    BY <2>1, <1>2
<1>4. ASSUME NEW i \in 0..9
      PROVE  /\ Bit(b, i) = IF i < k THEN Bit(r, i) ELSE IF i = k THEN q ELSE 0
             /\ Bit(c, i) = IF i < k THEN Bit(r, i) ELSE IF i = k THEN 1 - q ELSE 0
  <2>1. /\ b = Power(k) * q + r /\ c = Power(k) * (1 - q) + r
        /\ r \in 0..(Power(k) - 1)
    BY <1>1, <1>2
  <2>2. Bit(b, i) = IF i < k THEN Bit(r, i) ELSE IF i = k THEN q ELSE 0
    BY <2>1, LapBits
  <2>3. Bit(c, i) = IF i < k THEN Bit(r, i) ELSE IF i = k THEN 1 - q ELSE 0
    <3>1. Bit(Power(k) * (1 - q) + r, i)
              = IF i < k THEN Bit(r, i) ELSE IF i = k THEN 1 - q ELSE 0
      BY <2>1, <1>3, LapBits
    <3> QED
      BY <2>1, <3>1, Zenon
  <2> QED
    BY <2>2, <2>3
<1> HIDE DEF c
<1>5. ASSUME NEW i \in Bits
      PROVE  bin_to_gray(c)[i] = IF i \in {k - 1, k} THEN 1 - bin_to_gray(b)[i]
                                                      ELSE bin_to_gray(b)[i]
  <2>1. i \in 0..8 /\ i \in 0..9 /\ i + 1 \in 0..9
    BY DEF Bits
  <2>2. /\ bin_to_gray(b)[i] = IF Bit(b, i) = Bit(b, i + 1) THEN 0 ELSE 1
        /\ bin_to_gray(c)[i] = IF Bit(c, i) = Bit(c, i + 1) THEN 0 ELSE 1
    BY <1>3, GrayBit
  <2>3. /\ Bit(r, i) = 0 \/ Bit(r, i) = 1
        /\ Bit(r, i + 1) = 0 \/ Bit(r, i + 1) = 1
    BY <1>3, <2>1, BitZeroOne
  <2>4. q = 0 \/ q = 1
    OBVIOUS
  <2>5. CASE i < k - 1
    BY <1>4, <2>1, <2>2, <2>3, <2>4, <2>5
  <2>6. CASE i = k - 1
    BY <1>4, <2>1, <2>2, <2>3, <2>4, <2>6
  <2>7. CASE i = k
    BY <1>4, <2>1, <2>2, <2>3, <2>4, <2>7
  <2>8. CASE i > k
    BY <1>4, <2>1, <2>2, <2>3, <2>4, <2>8
  <2> QED
    BY <2>1, <2>5, <2>6, <2>7, <2>8
<1>6. bin_to_gray(c) = [i \in Bits |-> bin_to_gray(c)[i]]
  BY DEF bin_to_gray
<1>7. bin_to_gray(c) = Flip(bin_to_gray(b), wrap_mask(d))
  <2>1. bin_to_gray(c) = [i \in Bits |-> IF i \in {k - 1, k}
                                           THEN 1 - bin_to_gray(b)[i]
                                           ELSE bin_to_gray(b)[i]]
    BY <1>5, <1>6
  <2> QED
    BY <1>1, <2>1, Zenon DEF Flip
<1> QED
  BY <1>2, <1>7 DEF c

(* A bit changes in a step from v to v + 1 if all those below it are ones. *)
Carry(v, i) == Low(v, i) = Power(i) - 1

LEMMA BitSucc ==
    ASSUME NEW v \in Nat, NEW i \in 0..9
    PROVE  Bit(v + 1, i) = IF Carry(v, i) THEN 1 - Bit(v, i) ELSE Bit(v, i)
<1> DEFINE p == Power(i)
           q == v \div p
           r == v % p
<1>1. p \in Nat \ {0}
  BY PowerFacts, i \in 0..10
<1> HIDE DEF p
<1>2. q \in Int /\ r \in 0..(p - 1) /\ v = p * q + r
  BY <1>1, DivisionForm, v \in Int
<1>3. Low(v, i) = r
  BY DEF Low, p
<1> HIDE DEF q, r
<1>4. q >= 0
  BY <1>1, <1>2, SMT
<1>5. Bit(v, i) = q % 2
  BY <1>2, <1>4, BitIs DEF p
<1>6. CASE Carry(v, i)
  <2>1. r = p - 1
    BY <1>3, <1>6 DEF Carry, p
  <2>2. v + 1 = p * (q + 1) + 0 /\ 0 \in 0..(p - 1) /\ q + 1 \in Nat
    BY <1>1, <1>2, <1>4, <2>1
  <2>3. Bit(v + 1, i) = (q + 1) % 2
    BY <2>2, BitIs DEF p
  <2>4. (q + 1) % 2 = 1 - (q % 2)
    BY <1>2, SMT
  <2> QED
    BY <1>5, <1>6, <2>3, <2>4
<1>7. CASE ~Carry(v, i)
  <2>1. r # p - 1
    BY <1>3, <1>7 DEF Carry, p
  <2>2. v + 1 = p * q + (r + 1) /\ r + 1 \in 0..(p - 1) /\ q \in Nat
    BY <1>1, <1>2, <1>4, <2>1
  <2>3. Bit(v + 1, i) = q % 2
    BY <2>2, BitIs DEF p
  <2> QED
    BY <1>5, <1>7, <2>3
<1> QED
  BY <1>6, <1>7

LEMMA CarryBelow ==
    ASSUME NEW v \in Nat, NEW j \in 0..9, NEW i \in 0..j, Carry(v, j)
    PROVE  Carry(v, i)
<1>1. j \in 0..10 /\ i \in 0..10
  OBVIOUS
<1>2. PICK m \in Nat : Power(j) = Power(i) * m
  BY <1>1, PowerMultiple
<1> DEFINE p == Power(i)
           s == Power(j)
           q == v \div s
<1>3. p \in Nat \ {0} /\ s \in Nat \ {0} /\ s = p * m
  BY <1>1, <1>2, PowerFacts
<1>4. q \in Int /\ v = s * q + (s - 1)
  <2>1. v % s = s - 1
    BY DEF Carry, Low
  <2> HIDE DEF s
  <2>2. q \in Int /\ v = s * q + (v % s)
    BY <1>3, DivisionForm, v \in Int
  <2> QED
    BY <2>1, <2>2
<1> HIDE DEF p, s, q
<1>5. v = p * (m * q + m - 1) + (p - 1)
  BY <1>3, <1>4, SMT
<1>6. m * q + m - 1 \in Int /\ p - 1 \in 0..(p - 1)
  BY <1>3, <1>4
<1>7. v % p = p - 1
  BY <1>3, <1>5, <1>6, RemainderUnique
<1> QED
  BY <1>7 DEF Carry, Low, p

(* Within the two laps, the next Gray code differs in one bit: the lowest  *)
(* that the carry does not pass.                                           *)
LEMMA GrayOfNext ==
    ASSUME NEW v \in Nat
    PROVE  AtMostOne(DifferingBits(bin_to_gray(v), bin_to_gray(v + 1)))
<1>1. ASSUME NEW i \in DifferingBits(bin_to_gray(v), bin_to_gray(v + 1))
      PROVE  i \in 0..8 /\ Carry(v, i) /\ ~Carry(v, i + 1)
  <2>1. /\ i \in Bits /\ i \in 0..8 /\ i \in 0..9 /\ i + 1 \in 0..9
        /\ bin_to_gray(v)[i] # bin_to_gray(v + 1)[i] /\ v + 1 \in Nat
    BY DEF DifferingBits, Bits
  <2>2. /\ bin_to_gray(v)[i] = IF Bit(v, i) = Bit(v, i + 1) THEN 0 ELSE 1
        /\ bin_to_gray(v + 1)[i]
              = IF Bit(v + 1, i) = Bit(v + 1, i + 1) THEN 0 ELSE 1
    BY <2>1, GrayBit
  <2>3. /\ Bit(v, i) = 0 \/ Bit(v, i) = 1
        /\ Bit(v, i + 1) = 0 \/ Bit(v, i + 1) = 1
    BY <2>1, BitZeroOne
  <2>4. /\ Bit(v + 1, i) = IF Carry(v, i) THEN 1 - Bit(v, i) ELSE Bit(v, i)
        /\ Bit(v + 1, i + 1) = IF Carry(v, i + 1) THEN 1 - Bit(v, i + 1)
                                                 ELSE Bit(v, i + 1)
    BY <2>1, BitSucc
  <2>5. Carry(v, i + 1) => Carry(v, i)
    BY <2>1, CarryBelow, i \in 0..(i + 1)
  <2> QED
    BY <2>1, <2>2, <2>3, <2>4, <2>5
<1>2. ASSUME NEW i \in DifferingBits(bin_to_gray(v), bin_to_gray(v + 1)),
             NEW j \in DifferingBits(bin_to_gray(v), bin_to_gray(v + 1)), i < j
      PROVE  FALSE
  <2>1. i \in 0..8 /\ j \in 0..8 /\ Carry(v, j) /\ ~Carry(v, i + 1)
    BY <1>1
  <2>2. j \in 0..9 /\ i + 1 \in 0..j
    BY <1>2, <2>1
  <2> QED
    BY <2>1, <2>2, CarryBelow
<1>3. ASSUME NEW i \in DifferingBits(bin_to_gray(v), bin_to_gray(v + 1)),
             NEW j \in DifferingBits(bin_to_gray(v), bin_to_gray(v + 1))
      PROVE  i = j
  <2>1. i \in 0..8 /\ j \in 0..8
    BY <1>1
  <2>2. ~(i < j) /\ ~(j < i)
    BY <1>2
  <2> QED
    BY <2>1, <2>2
<1> QED
  BY <1>3 DEF AtMostOne

(* And so does the first of the first lap from the last of the second.     *)
LEMMA GrayOfWrap ==
    ASSUME NEW d, valid_depth(d)
    PROVE  AtMostOne(DifferingBits(bin_to_gray(2 * d - 1), bin_to_gray(0)))
<1>1. PICK k \in 1..8 : d = Power(k) /\ d \in Nat \ {0}
  BY ValidDepth
<1>2. 2 * d - 1 = d * 1 + (d - 1) /\ d - 1 \in 0..(d - 1) /\ 2 * d - 1 \in Nat
  BY <1>1
<1>3. ASSUME NEW i \in 0..9
      PROVE  Bit(2 * d - 1, i) = IF i <= k THEN 1 ELSE 0
  <2>1. Bit(2 * d - 1, i) = IF i < k THEN Bit(d - 1, i) ELSE IF i = k THEN 1 ELSE 0
    BY <1>1, <1>2, LapBits, 1 \in {0, 1}
  <2>2. CASE i < k
    <3>1. i + 1 \in 0..k /\ k \in 0..10 /\ i \in 0..10 /\ i < 10
      BY <2>2
    <3>2. PICK m \in Nat : Power(k) = Power(i + 1) * m
      BY <3>1, PowerMultiple
    <3> DEFINE p == Power(i)
    <3>3. Power(i + 1) = 2 * p /\ p \in Nat \ {0}
      BY <3>1, PowerFacts
    <3> HIDE DEF p
    <3>4. m >= 1
      BY <1>1, <3>2, <3>3, SMT
    <3>5. d - 1 = p * (2 * m - 1) + (p - 1)
      BY <1>1, <3>2, <3>3, SMT
    <3>6. 2 * m - 1 \in Nat /\ p - 1 \in 0..(p - 1)
      BY <3>3, <3>4
    <3>7. Bit(d - 1, i) = (2 * m - 1) % 2
      BY <3>5, <3>6, BitIs DEF p
    <3>8. (2 * m - 1) % 2 = 1
      BY <3>6, SMT
    <3> QED
      BY <2>1, <2>2, <3>7, <3>8
  <2>3. CASE i >= k
    BY <2>1, <2>3
  <2> QED
    BY <2>2, <2>3
<1>4. ASSUME NEW i \in 0..9 PROVE Bit(0, i) = 0
  <2>1. Power(i) \in Nat \ {0} /\ 0 = Power(i) * 0 + 0 /\ 0 \in 0..(Power(i) - 1)
    BY PowerFacts, i \in 0..10
  <2>2. Bit(0, i) = 0 % 2
    BY <2>1, BitIs, 0 \in Nat
  <2> QED
    BY <2>2
<1>5. ASSUME NEW i \in DifferingBits(bin_to_gray(2 * d - 1), bin_to_gray(0))
      PROVE  i = k
  <2>1. /\ i \in Bits /\ i \in 0..9 /\ i + 1 \in 0..9
        /\ bin_to_gray(2 * d - 1)[i] # bin_to_gray(0)[i]
    BY DEF DifferingBits, Bits
  <2>2. /\ bin_to_gray(0)[i] = IF Bit(0, i) = Bit(0, i + 1) THEN 0 ELSE 1
        /\ bin_to_gray(2 * d - 1)[i]
              = IF Bit(2 * d - 1, i) = Bit(2 * d - 1, i + 1) THEN 0 ELSE 1
    BY <1>2, <2>1, GrayBit, 0 \in Nat
  <2>3. Bit(2 * d - 1, i) # Bit(2 * d - 1, i + 1)
    BY <1>4, <2>1, <2>2
  <2> QED
    BY <1>3, <2>1, <2>3
<1> QED
  BY <1>5 DEF AtMostOne

------------------------------------------------------------------------------
(* The pointer that stands for a count of values written, or of values     *)
(* read: counts run on, pointers over two laps of the memory.              *)
Pointer(count) == count % (2 * depth)

(* What each side holds stands for a count, and what a side knows of the   *)
(* other for an earlier one.                                               *)
PointersInv ==
    /\ wptr = Pointer(Len(sent)) /\ rptr = Pointer(Len(received))
    /\ write_sync1 = bin_to_gray(Pointer(writesSeen[1]))
    /\ write_sync2 = bin_to_gray(Pointer(writesSeen[2]))
    /\ read_sync1 = bin_to_gray(Pointer(readsSeen[1]))
    /\ read_sync2 = bin_to_gray(Pointer(readsSeen[2]))

(* The counts known lag, so that each side errs on the safe side, and all  *)
(* of them lie within one lap.                                             *)
OrderInv ==
    /\ readsSeen[2] <= readsSeen[1] /\ readsSeen[1] <= Len(received)
    /\ Len(received) <= writesSeen[2] /\ writesSeen[2] <= writesSeen[1]
    /\ writesSeen[1] <= Len(sent) /\ Len(sent) <= readsSeen[2] + depth

(* What has been written and not been read is in the memory, in order.     *)
PayloadInv ==
    /\ \A k \in 1..Len(sent) : sent[k] = k
    /\ \A k \in 1..Len(received) : received[k] = k
    /\ \A k \in 1..Len(sent) : k > Len(received) => mem[(k - 1) % depth] = k

(* A FIFO of an invalid depth refuses every call.                          *)
Untouched == wptr = 0 /\ rptr = 0 /\ sent = <<>> /\ received = <<>>

IInv ==
    /\ TypeOK
    /\ valid_depth(depth) => PointersInv /\ OrderInv /\ PayloadInv
    /\ ~valid_depth(depth) => Untouched

(* The counts and the depth, as plain numbers.                             *)
LEMMA Counts ==
    ASSUME IInv
    PROVE  /\ Len(sent) \in Nat /\ Len(received) \in Nat
           /\ sent \in Seq(Nat) /\ received \in Seq(Nat)
           /\ readsSeen[1] \in Nat /\ readsSeen[2] \in Nat
           /\ writesSeen[1] \in Nat /\ writesSeen[2] \in Nat
           /\ mem \in [0..255 -> Nat]
<1>1. /\ sent \in Seq(Nat) /\ received \in Seq(Nat)
      /\ writesSeen \in Nat \X Nat /\ readsSeen \in Nat \X Nat
      /\ mem \in [0..255 -> Nat]
  BY Zenon DEF IInv, TypeOK
<1>2. Len(sent) \in Nat /\ Len(received) \in Nat
  <2>1. sent \in Seq(Nat) /\ received \in Seq(Nat)
    BY <1>1
  <2> QED
    BY <2>1
<1>3. /\ readsSeen[1] \in Nat /\ readsSeen[2] \in Nat
      /\ writesSeen[1] \in Nat /\ writesSeen[2] \in Nat
  <2>1. writesSeen \in Nat \X Nat /\ readsSeen \in Nat \X Nat
    BY <1>1
  <2> QED
    BY <2>1
<1> QED
  BY <1>1, <1>2, <1>3, Zenon

LEMMA Depth ==
    ASSUME valid_depth(depth)
    PROVE  /\ depth \in Nat \ {0} /\ 2 * depth \in Nat \ {0}
           /\ depth \in 2..256 /\ (2 * depth) % depth = 0
<1>1. depth \in Nat \ {0} /\ depth \in 2..256
  BY ValidDepth
<1>2. (depth * 2 + 0) % depth = 0
  BY <1>1, RemainderUnique, 2 \in Int, 0 \in 0..(depth - 1)
<1>3. depth * 2 + 0 = 2 * depth /\ 2 * depth \in Nat \ {0}
  BY <1>1
<1> QED
  BY <1>1, <1>2, <1>3

LEMMA PointerFacts ==
    ASSUME valid_depth(depth), NEW n \in Nat
    PROVE  /\ Pointer(n) \in 0..(2 * depth - 1) /\ Pointer(n) \in 0..511
           /\ Pointer(n) \in Nat
           /\ next_pointer(Pointer(n)) = Pointer(n + 1)
           /\ Pointer(n) % depth = n % depth
           /\ n % depth \in 0..255 /\ n % depth \in 0..(depth - 1)
<1>1. n \in Int /\ depth \in Nat \ {0} /\ 2 * depth \in Nat \ {0} /\ depth \in 2..256
      /\ (2 * depth) % depth = 0
  BY Depth
<1>2. Pointer(n) \in 0..(2 * depth - 1)
  BY <1>1, DivisionForm DEF Pointer
<1>3. n % depth \in 0..(depth - 1)
  BY <1>1, DivisionForm
<1>4. next_pointer(Pointer(n)) = Pointer(n + 1)
  BY <1>1, WrappedSucc DEF Pointer, next_pointer
<1>5. Pointer(n) % depth = n % depth
  BY <1>1, SlotOfWrapped DEF Pointer
<1> HIDE DEF Pointer
<1>6. Pointer(n) \in 0..511 /\ Pointer(n) \in Nat
  BY <1>1, <1>2
<1>7. n % depth \in 0..255
  <2> DEFINE m == n % depth
  <2>1. m \in 0..(depth - 1)
    BY <1>3
  <2> HIDE DEF m
  <2>2. m \in 0..255
    BY <1>1, <2>1
  <2> QED
    BY <2>2 DEF m
<1> QED
  BY <1>2, <1>3, <1>4, <1>5, <1>6, <1>7, Zenon

(* Counts less than two laps apart have different pointers.                *)
LEMMA PointersApart ==
    ASSUME valid_depth(depth), NEW a \in Nat, NEW b \in Nat, a <= b,
           b - a < 2 * depth, Pointer(a) = Pointer(b)
    PROVE  a = b
<1> SUFFICES ASSUME a < b PROVE FALSE
  OBVIOUS
<1>1. 2 * depth \in Nat \ {0} /\ a \in Int /\ b \in Int
  BY Depth
<1>2. b >= a + 2 * depth
  BY <1>1, SlotsDistinct DEF Pointer
<1> QED
  BY <1>1, <1>2

LEMMA PointerOfLap ==
    ASSUME valid_depth(depth), NEW n \in Nat
    PROVE  (Pointer(n) + depth) % (2 * depth) = Pointer(n + depth)
<1>1. /\ 2 * depth \in Nat \ {0} /\ depth \in Nat /\ depth \in Int
      /\ n \in Int /\ n + depth \in Int
  BY Depth
<1>2. (2 * depth) % (2 * depth) = 0
  <2> DEFINE w == 2 * depth
  <2>1. w \in Nat \ {0} /\ w * 1 + 0 = w /\ 0 \in 0..(w - 1)
    BY <1>1
  <2> HIDE DEF w
  <2>2. w % w = 0
    BY <2>1, RemainderUnique, 1 \in Int
  <2> QED
    BY <2>2 DEF w
<1> DEFINE w == 2 * depth
<1>3. w \in Nat \ {0} /\ w % w = 0
  BY <1>1, <1>2
<1> HIDE DEF w
<1>4. ((n % w) + depth) % w = ((n + depth) % w) % w
  BY <1>1, <1>3, SlotOfSum, ZenonT(60)
<1>5. ((n + depth) % w) % w = (n + depth) % w
  BY <1>1, <1>3, SlotOfWrapped, Zenon
<1> QED
  BY <1>4, <1>5 DEF Pointer, w

LEMMA Order ==
    ASSUME IInv, valid_depth(depth)
    PROVE  /\ Len(sent) \in Nat /\ Len(received) \in Nat
           /\ readsSeen[1] \in Nat /\ readsSeen[2] \in Nat
           /\ writesSeen[1] \in Nat /\ writesSeen[2] \in Nat
           /\ depth \in Nat \ {0}
           /\ readsSeen[2] <= readsSeen[1] /\ readsSeen[1] <= Len(received)
           /\ Len(received) <= writesSeen[2] /\ writesSeen[2] <= writesSeen[1]
           /\ writesSeen[1] <= Len(sent) /\ Len(sent) <= readsSeen[2] + depth
           /\ readsSeen[2] <= Len(received) /\ writesSeen[2] <= Len(sent)
           /\ Len(sent) - Len(received) <= depth
<1>1. /\ Len(sent) \in Nat /\ Len(received) \in Nat
      /\ readsSeen[1] \in Nat /\ readsSeen[2] \in Nat
      /\ writesSeen[1] \in Nat /\ writesSeen[2] \in Nat
      /\ depth \in Nat \ {0}
      /\ readsSeen[2] <= readsSeen[1] /\ readsSeen[1] <= Len(received)
      /\ Len(received) <= writesSeen[2] /\ writesSeen[2] <= writesSeen[1]
      /\ writesSeen[1] <= Len(sent) /\ Len(sent) <= readsSeen[2] + depth
  BY Counts, Depth, Zenon DEF IInv, OrderInv
<1> QED
  BY <1>1, SMTT(60)

(* The flags compare Gray codes, and answer about counts.                  *)
LEMMA FlagsExact ==
    ASSUME IInv, valid_depth(depth)
    PROVE  /\ fifo_full <=> Len(sent) - readsSeen[2] = depth
           /\ fifo_empty <=> writesSeen[2] = Len(received)
<1> DEFINE s == Len(sent)
           r == Len(received)
           rs == readsSeen[2]
           ws == writesSeen[2]
<1>1. /\ s \in Nat /\ r \in Nat /\ rs \in Nat /\ ws \in Nat /\ depth \in Nat \ {0}
      /\ rs <= r /\ r <= ws /\ ws <= s /\ s <= rs + depth
  BY Order, Zenon
<1>2. /\ wptr = Pointer(s) /\ rptr = Pointer(r)
      /\ write_sync2 = bin_to_gray(Pointer(ws)) /\ read_sync2 = bin_to_gray(Pointer(rs))
  BY Zenon DEF IInv, PointersInv
<1> HIDE DEF s, r, rs, ws
<1>3. fifo_empty <=> ws = r
  <2>1. fifo_empty <=> bin_to_gray(Pointer(ws)) = bin_to_gray(Pointer(r))
    BY <1>2, Zenon DEF fifo_empty
  <2>2. bin_to_gray(Pointer(ws)) = bin_to_gray(Pointer(r)) => Pointer(ws) = Pointer(r)
    BY <1>1, PointerFacts, GrayInjective, ZenonT(60)
  <2>3. Pointer(r) = Pointer(ws) => r = ws
    <3>1. r <= ws /\ ws - r < 2 * depth
      BY <1>1
    <3> QED
      BY <1>1, <3>1, PointersApart
  <2> QED
    BY <2>1, <2>2, <2>3, Zenon
<1>4. fifo_full <=> s - rs = depth
  <2>1. Pointer(rs) \in 0..(2 * depth - 1)
    BY <1>1, PointerFacts
  <2>2. Flip(bin_to_gray(Pointer(rs)), wrap_mask(depth))
           = bin_to_gray(Pointer(rs + depth))
    BY <1>1, <2>1, GrayOfLap, PointerOfLap, Zenon
  <2>3. fifo_full <=> bin_to_gray(Pointer(s)) = bin_to_gray(Pointer(rs + depth))
    BY <1>2, <2>2, Zenon DEF fifo_full
  <2>4. rs + depth \in Nat
    BY <1>1
  <2>5. bin_to_gray(Pointer(s)) = bin_to_gray(Pointer(rs + depth))
           => Pointer(s) = Pointer(rs + depth)
    BY <1>1, <2>4, PointerFacts, GrayInjective, ZenonT(60)
  <2>6. Pointer(s) = Pointer(rs + depth) => s = rs + depth
    <3>1. s <= rs + depth /\ (rs + depth) - s < 2 * depth
      BY <1>1
    <3> QED
      BY <1>1, <2>4, <3>1, PointersApart
  <2>7. fifo_full <=> s = rs + depth
    BY <2>3, <2>5, <2>6, Zenon
  <2> QED
    BY <1>1, <2>7
<1> QED
  BY <1>3, <1>4 DEF s, r, rs, ws

------------------------------------------------------------------------------
LEMMA IInvInit == Init => IInv
<1> SUFFICES ASSUME Init PROVE IInv
  OBVIOUS
<1>1. depth \in Depths /\ mem \in [0..255 -> Nat]
  BY DEF Init
<1>2. bin_to_gray(0) \in Codes
  BY GrayIsCode, 0 \in Nat
<1>3. /\ sent = <<>> /\ received = <<>> /\ wptr = 0 /\ rptr = 0
      /\ writesSeen = <<0, 0>> /\ readsSeen = <<0, 0>>
      /\ write_sync1 = bin_to_gray(0) /\ write_sync2 = bin_to_gray(0)
      /\ read_sync1 = bin_to_gray(0) /\ read_sync2 = bin_to_gray(0)
  BY DEF Init
<1>4. TypeOK
  <2>1. /\ {wptr, rptr} \subseteq {0} \union 0..(2 * depth - 1)
        /\ {write_sync1, write_sync2, read_sync1, read_sync2} \subseteq Codes
    BY <1>2, <1>3, Zenon
  <2>2. /\ sent \in Seq(Nat) /\ received \in Seq(Nat)
        /\ writesSeen \in Nat \X Nat /\ readsSeen \in Nat \X Nat
    BY <1>3
  <2> QED
    BY <1>1, <2>1, <2>2, Zenon DEF TypeOK
<1>5. Untouched
  BY <1>3 DEF Untouched
<1>6. ASSUME valid_depth(depth)
      PROVE  PointersInv /\ OrderInv /\ PayloadInv
  <2>1. depth \in Nat \ {0} /\ 2 * depth \in Nat \ {0}
    BY <1>6, Depth
  <2>2. 0 % (2 * depth) = 0
    <3> DEFINE w == 2 * depth
    <3>1. w \in Nat \ {0} /\ w * 0 + 0 = 0 /\ 0 \in 0..(w - 1)
      BY <2>1
    <3> HIDE DEF w
    <3>2. 0 % w = 0
      BY <3>1, RemainderUnique, 0 \in Int
    <3> QED
      BY <3>2 DEF w
  <2>3. /\ Len(sent) = 0 /\ Len(received) = 0 /\ Pointer(0) = 0
        /\ writesSeen[1] = 0 /\ writesSeen[2] = 0
        /\ readsSeen[1] = 0 /\ readsSeen[2] = 0
    BY <1>3, <2>2 DEF Pointer
  <2>4. PointersInv
    BY <1>3, <2>3, Zenon DEF PointersInv
  <2>5. OrderInv /\ PayloadInv
    BY <2>1, <2>3 DEF OrderInv, PayloadInv
  <2> QED
    BY <2>4, <2>5
<1> QED
  BY <1>4, <1>5, <1>6 DEF IInv

(* A write is accepted when fewer than depth values are inside, as far as  *)
(* the writer knows, and so for certain.                                   *)
LEMMA WriteStep ==
    ASSUME IInv, fifo_write
    PROVE  /\ IInv' /\ depth' = depth /\ received' = received /\ rptr' = rptr
           /\ valid_depth(depth) /\ wptr' = next_pointer(wptr)
           /\ Len(sent) \in 0..(Writes - 1)
           /\ Len(sent) - Len(received) < depth
           /\ sent' = Append(sent, Len(sent) + 1)
<1> DEFINE s == Len(sent)
           r == Len(received)
<1>1. /\ depth' = depth /\ rptr' = rptr /\ received' = received
      /\ read_sync1' = read_sync1 /\ read_sync2' = read_sync2
      /\ write_sync1' = write_sync1 /\ write_sync2' = write_sync2
      /\ readsSeen' = readsSeen /\ writesSeen' = writesSeen
      /\ wptr' = next_pointer(wptr) /\ sent' = Append(sent, s + 1)
      /\ mem' = [mem EXCEPT ![wptr % depth] = s + 1]
      /\ valid_depth(depth) /\ ~fifo_full /\ s < Writes
  BY DEF fifo_write, readSide
<1>2. /\ s \in Nat /\ r \in Nat /\ depth \in Nat \ {0}
      /\ r <= s /\ s + 1 <= readsSeen[2] + depth /\ s - r < depth
      /\ writesSeen[1] <= s + 1
  <2>1. Len(sent) - readsSeen[2] # depth
    BY <1>1, FlagsExact, Zenon
  <2>2. valid_depth(depth)
    BY <1>1
  <2> QED
    BY <2>1, <2>2, Order, SMTT(60)
<1> HIDE DEF r
<1>3. wptr = Pointer(s) /\ wptr % depth = s % depth /\ wptr' = Pointer(s + 1)
      /\ s % depth \in 0..255
  <2>1. wptr = Pointer(s)
    BY <1>1 DEF IInv, PointersInv
  <2> QED
    BY <2>1, <1>1, <1>2, PointerFacts, ZenonT(60)
<1>4. /\ sent' \in Seq(Nat) /\ Len(sent') = s + 1 /\ sent'[s + 1] = s + 1
      /\ \A k \in 1..s : sent'[k] = sent[k]
  <2>1. sent \in Seq(Nat) /\ s + 1 \in Nat
    BY <1>2, Counts, SMTT(60)
  <2> QED
    BY <1>1, <2>1, AppendFacts
<1> HIDE DEF s
<1>5. /\ mem' \in [0..255 -> Nat] /\ mem'[s % depth] = s + 1
      /\ \A a \in 0..255 : a # s % depth => mem'[a] = mem[a]
  <2>1. mem' = [mem EXCEPT ![s % depth] = s + 1] /\ mem \in [0..255 -> Nat]
    BY <1>1, <1>3, Counts, Zenon
  <2>2. s % depth \in 0..255 /\ s + 1 \in Nat
    BY <1>2, <1>3
  <2> QED
    BY <2>1, <2>2, Zenon
<1>6. TypeOK'
  <2>1. wptr' \in 0..(2 * depth - 1)
    BY <1>1, <1>2, <1>3, PointerFacts, s + 1 \in Nat
  <2>2. {wptr', rptr'} \subseteq {0} \union 0..(2 * depth - 1)
    BY <1>1, <2>1 DEF IInv, TypeOK
  <2> QED
    BY <1>1, <1>4, <1>5, <2>2, Zenon DEF IInv, TypeOK
<1>7. PointersInv'
  <2>1. wptr' = Pointer(Len(sent'))
    BY <1>3, <1>4, Zenon
  <2> QED
    BY <1>1, <2>1, Zenon DEF IInv, PointersInv, Pointer
<1>8. OrderInv'
  BY <1>1, <1>2, <1>4, Zenon DEF IInv, OrderInv
<1>9. PayloadInv'
  <2>1. ASSUME NEW k \in 1..(s + 1) PROVE sent'[k] = k
    <3>1. k = s + 1 \/ k \in 1..s
      BY <1>2
    <3> QED
      BY <3>1, <1>1, <1>4, Zenon DEF IInv, PayloadInv, s
  <2>2. ASSUME NEW k \in 1..(s + 1), k > r PROVE mem'[(k - 1) % depth] = k
    <3>1. CASE k = s + 1
      BY <3>1, <1>2, <1>5
    <3>2. CASE k \in 1..s
      <4>1. k - 1 \in Nat /\ k - 1 \in Int /\ s \in Int
        BY <1>2
      <4>2. mem[(k - 1) % depth] = k
        BY <1>1, <2>2, <3>2, Zenon DEF IInv, PayloadInv, s, r
      <4>3. (k - 1) % depth # s % depth
        <5> SUFFICES ASSUME (k - 1) % depth = s % depth PROVE FALSE
          OBVIOUS
        <5>1. k - 1 < s
          BY <1>2, <3>2
        <5>2. s >= (k - 1) + depth
          BY <1>2, <4>1, <5>1, SlotsDistinct
        <5> QED
          BY <1>2, <2>2, <3>2, <5>2
      <4>4. (k - 1) % depth \in 0..255
        BY <1>1, <4>1, PointerFacts
      <4> QED
        BY <1>5, <4>2, <4>3, <4>4, Zenon
    <3> QED
      BY <1>2, <3>1, <3>2, SMTT(60)
  <2>3. \A k \in 1..Len(received') : received'[k] = k
    BY <1>1, Zenon DEF IInv, PayloadInv
  <2> QED
    BY <1>1, <1>4, <2>1, <2>2, <2>3, Zenon DEF PayloadInv, r
<1>10. IInv'
  BY <1>1, <1>6, <1>7, <1>8, <1>9, Zenon DEF IInv, valid_depth
<1>11. s \in 0..(Writes - 1)
  BY <1>1, <1>2, AsyncFifoAssumption DEF s
<1> QED
  BY <1>1, <1>2, <1>10, <1>11 DEF s, r

(* A read is granted when a value has been seen to arrive, and hands out   *)
(* the oldest inside.                                                      *)
LEMMA ReadStep ==
    ASSUME IInv, fifo_read
    PROVE  /\ IInv' /\ depth' = depth /\ sent' = sent /\ wptr' = wptr
           /\ valid_depth(depth) /\ rptr' = next_pointer(rptr)
           /\ Len(received) < Len(sent)
           /\ received' = Append(received, sent[Len(received) + 1])
<1> DEFINE s == Len(sent)
           r == Len(received)
<1>1. /\ depth' = depth /\ wptr' = wptr /\ sent' = sent /\ mem' = mem
      /\ read_sync1' = read_sync1 /\ read_sync2' = read_sync2
      /\ write_sync1' = write_sync1 /\ write_sync2' = write_sync2
      /\ readsSeen' = readsSeen /\ writesSeen' = writesSeen
      /\ rptr' = next_pointer(rptr) /\ received' = Append(received, mem[rptr % depth])
      /\ valid_depth(depth) /\ ~fifo_empty
  BY DEF fifo_read, writeSide
<1>2. /\ s \in Nat /\ r \in Nat /\ depth \in Nat \ {0}
      /\ r + 1 <= writesSeen[2] /\ r < s /\ readsSeen[1] <= r + 1
  <2>1. writesSeen[2] # Len(received)
    BY <1>1, FlagsExact, Zenon
  <2>2. valid_depth(depth)
    BY <1>1
  <2> QED
    BY <2>1, <2>2, Order
<1>3. rptr = Pointer(r) /\ rptr % depth = r % depth /\ rptr' = Pointer(r + 1)
  <2>1. rptr = Pointer(r)
    BY <1>1 DEF IInv, PointersInv
  <2> QED
    BY <2>1, <1>1, <1>2, PointerFacts
<1>4. mem[rptr % depth] = r + 1 /\ sent[r + 1] = r + 1
  <2>1. r + 1 \in 1..s /\ r + 1 > r /\ (r + 1) - 1 = r
    BY <1>2
  <2>2. mem[((r + 1) - 1) % depth] = r + 1 /\ sent[r + 1] = r + 1
    BY <1>1, <2>1, Zenon DEF IInv, PayloadInv
  <2> QED
    BY <1>3, <2>1, <2>2, Zenon
<1>5. received' = Append(received, r + 1)
  BY <1>1, <1>4, Zenon
<1>6. /\ received' \in Seq(Nat) /\ Len(received') = r + 1 /\ received'[r + 1] = r + 1
      /\ \A k \in 1..r : received'[k] = received[k]
  <2>1. received \in Seq(Nat) /\ r + 1 \in Nat
    BY <1>2, Counts, SMTT(60)
  <2> QED
    BY <1>5, <2>1, AppendFacts
<1> HIDE DEF s, r
<1>7. TypeOK'
  <2>1. rptr' \in 0..(2 * depth - 1)
    BY <1>1, <1>2, <1>3, PointerFacts, r + 1 \in Nat
  <2>2. {wptr', rptr'} \subseteq {0} \union 0..(2 * depth - 1)
    BY <1>1, <2>1 DEF IInv, TypeOK
  <2> QED
    BY <1>1, <1>6, <2>2, Zenon DEF IInv, TypeOK
<1>8. PointersInv'
  <2>1. rptr' = Pointer(Len(received'))
    BY <1>3, <1>6, Zenon
  <2> QED
    BY <1>1, <2>1, Zenon DEF IInv, PointersInv, Pointer
<1>9. OrderInv'
  BY <1>1, <1>2, <1>6, Zenon DEF IInv, OrderInv
<1>10. PayloadInv'
  <2>1. ASSUME NEW k \in 1..(r + 1) PROVE received'[k] = k
    <3>1. k = r + 1 \/ k \in 1..r
      BY <1>2
    <3> QED
      BY <3>1, <1>1, <1>6, Zenon DEF IInv, PayloadInv, r
  <2>2. ASSUME NEW k \in 1..s, k > r + 1 PROVE mem[(k - 1) % depth] = k
    <3>1. k > r
      BY <1>2, <2>2
    <3> QED
      BY <1>1, <3>1, Zenon DEF IInv, PayloadInv, s, r
  <2>3. \A k \in 1..s : sent[k] = k
    BY <1>1, Zenon DEF IInv, PayloadInv, s
  <2> QED
    BY <1>1, <1>6, <2>1, <2>2, <2>3, Zenon DEF PayloadInv, s
<1>11. IInv'
  BY <1>1, <1>7, <1>8, <1>9, <1>10, Zenon DEF IInv, valid_depth
<1> QED
  BY <1>1, <1>2, <1>4, <1>5, <1>11, Zenon DEF s, r

LEMMA WriteClockStep ==
    ASSUME IInv, write_clock
    PROVE  IInv'
<1>1. /\ depth' = depth /\ mem' = mem /\ wptr' = wptr /\ rptr' = rptr
      /\ sent' = sent /\ received' = received
      /\ write_sync1' = write_sync1 /\ write_sync2' = write_sync2
      /\ writesSeen' = writesSeen
      /\ read_sync2' = read_sync1 /\ read_sync1' = bin_to_gray(rptr)
      /\ readsSeen' = <<Len(received), readsSeen[1]>>
  BY DEF write_clock, readSide, history
<1>2. /\ readsSeen' \in Nat \X Nat
      /\ readsSeen'[1] = Len(received) /\ readsSeen'[2] = readsSeen[1]
  BY <1>1, Counts
<1>3. rptr \in Nat
  <2>1. depth \in Int /\ rptr \in {0} \union 0..(2 * depth - 1)
    BY AsyncFifoAssumption DEF IInv, TypeOK
  <2> QED
    BY <2>1
<1>4. read_sync1' \in Codes /\ read_sync2' \in Codes
  BY <1>1, <1>3, GrayIsCode DEF IInv, TypeOK
<1>5. TypeOK'
  <2>1. {write_sync1', write_sync2', read_sync1', read_sync2'} \subseteq Codes
    BY <1>1, <1>4 DEF IInv, TypeOK
  <2> QED
    BY <1>1, <1>2, <2>1, Zenon DEF IInv, TypeOK
<1>6. ASSUME valid_depth(depth)
      PROVE  PointersInv' /\ OrderInv' /\ PayloadInv'
  <2>1. PointersInv'
    BY <1>1, <1>2, <1>6, Zenon DEF IInv, PointersInv, Pointer
  <2>2. OrderInv'
    <3>1. /\ readsSeen'[2] <= readsSeen'[1] /\ readsSeen'[1] <= Len(received)
          /\ Len(sent) <= readsSeen'[2] + depth
      BY <1>2, <1>6, Order
    <3> QED
      BY <1>1, <1>6, <3>1, Zenon DEF IInv, OrderInv
  <2>3. PayloadInv'
    BY <1>1, <1>6, Zenon DEF IInv, PayloadInv
  <2> QED
    BY <2>1, <2>2, <2>3
<1>7. ~valid_depth(depth) => Untouched'
  BY <1>1, Zenon DEF IInv, Untouched
<1> QED
  BY <1>1, <1>5, <1>6, <1>7, Zenon DEF IInv, valid_depth

LEMMA ReadClockStep ==
    ASSUME IInv, read_clock
    PROVE  IInv'
<1>1. /\ depth' = depth /\ mem' = mem /\ wptr' = wptr /\ rptr' = rptr
      /\ sent' = sent /\ received' = received
      /\ read_sync1' = read_sync1 /\ read_sync2' = read_sync2
      /\ readsSeen' = readsSeen
      /\ write_sync2' = write_sync1 /\ write_sync1' = bin_to_gray(wptr)
      /\ writesSeen' = <<Len(sent), writesSeen[1]>>
  BY DEF read_clock, writeSide, history
<1>2. /\ writesSeen' \in Nat \X Nat
      /\ writesSeen'[1] = Len(sent) /\ writesSeen'[2] = writesSeen[1]
  BY <1>1, Counts
<1>3. wptr \in Nat
  <2>1. depth \in Int /\ wptr \in {0} \union 0..(2 * depth - 1)
    BY AsyncFifoAssumption DEF IInv, TypeOK
  <2> QED
    BY <2>1
<1>4. write_sync1' \in Codes /\ write_sync2' \in Codes
  BY <1>1, <1>3, GrayIsCode DEF IInv, TypeOK
<1>5. TypeOK'
  <2>1. {write_sync1', write_sync2', read_sync1', read_sync2'} \subseteq Codes
    BY <1>1, <1>4 DEF IInv, TypeOK
  <2> QED
    BY <1>1, <1>2, <2>1, Zenon DEF IInv, TypeOK
<1>6. ASSUME valid_depth(depth)
      PROVE  PointersInv' /\ OrderInv' /\ PayloadInv'
  <2>1. PointersInv'
    BY <1>1, <1>2, <1>6, Zenon DEF IInv, PointersInv, Pointer
  <2>2. OrderInv'
    <3>1. /\ Len(received) <= writesSeen'[2] /\ writesSeen'[2] <= writesSeen'[1]
          /\ writesSeen'[1] <= Len(sent)
      BY <1>2, <1>6, Order
    <3> QED
      BY <1>1, <1>6, <3>1, Zenon DEF IInv, OrderInv
  <2>3. PayloadInv'
    BY <1>1, <1>6, Zenon DEF IInv, PayloadInv
  <2> QED
    BY <2>1, <2>2, <2>3
<1>7. ~valid_depth(depth) => Untouched'
  BY <1>1, Zenon DEF IInv, Untouched
<1> QED
  BY <1>1, <1>5, <1>6, <1>7, Zenon DEF IInv, valid_depth

LEMMA IInvNext == IInv /\ [Next]_vars => IInv'
<1> SUFFICES ASSUME IInv, [Next]_vars PROVE IInv'
  OBVIOUS
<1>1. CASE UNCHANGED vars
  <2>1. UNCHANGED <<depth, mem, wptr, rptr, write_sync1, write_sync2, read_sync1,
                    read_sync2, sent, received, writesSeen, readsSeen>>
    BY <1>1 DEF vars, writeSide, readSide, history
  <2> QED
    BY <2>1 DEF IInv, TypeOK, PointersInv, OrderInv, PayloadInv, Untouched,
                Pointer
<1> QED
  BY <1>1, WriteStep, ReadStep, WriteClockStep, ReadClockStep DEF Next

------------------------------------------------------------------------------
(* The invariant holds throughout, for any depths and any order of calls   *)
(* and clock edges.                                                        *)
THEOREM Invariance == Spec => []IInv
BY IInvInit, IInvNext, PTL DEF Spec

(* Both pointers stay within the two laps, and what is on its way between  *)
(* the clocks is a Gray code.                                              *)
THEOREM TypeCorrect == Spec => []TypeOK
<1>1. IInv => TypeOK
  BY DEF IInv
<1> QED
  BY <1>1, Invariance, PTL

(* fifo_full and fifo_empty lag by their two clock edges and are otherwise *)
(* exact, at every depth valid_depth accepts.                              *)
THEOREM FlagsLag == Spec => []FlagsLagExactly
<1>1. IInv => FlagsLagExactly
  BY FlagsExact DEF FlagsLagExactly
<1> QED
  BY <1>1, Invariance, PTL

LEMMA PointerSteps ==
    ASSUME valid_depth(depth), NEW p \in 0..(2 * depth - 1)
    PROVE  AtMostOne(DifferingBits(bin_to_gray(p), bin_to_gray(next_pointer(p))))
<1>1. depth \in Nat \ {0} /\ 2 * depth \in Nat \ {0} /\ p \in Nat
  BY Depth
<1>2. CASE p = 2 * depth - 1
  <2>1. next_pointer(p) = 0
    <3> DEFINE w == 2 * depth
    <3>1. w \in Nat \ {0} /\ w * 1 + 0 = p + 1 /\ 0 \in 0..(w - 1)
      BY <1>1, <1>2
    <3> HIDE DEF w
    <3>2. (p + 1) % w = 0
      BY <3>1, RemainderUnique, 1 \in Int
    <3> QED
      BY <3>2 DEF w, next_pointer
  <2> QED
    BY <1>2, <2>1, GrayOfWrap
<1>3. CASE p # 2 * depth - 1
  <2>1. next_pointer(p) = p + 1
    <3> DEFINE w == 2 * depth
    <3>1. w \in Nat \ {0} /\ w * 0 + (p + 1) = p + 1 /\ p + 1 \in 0..(w - 1)
      BY <1>1, <1>3
    <3> HIDE DEF w
    <3>2. (p + 1) % w = p + 1
      BY <3>1, RemainderUnique, 0 \in Int
    <3> QED
      BY <3>2 DEF w, next_pointer
  <2> QED
    BY <1>1, <2>1, GrayOfNext
<1> QED
  BY <1>2, <1>3

LEMMA NoStepNoBit == \A code : AtMostOne(DifferingBits(code, code))
BY DEF AtMostOne, DifferingBits

(* Every step of a pointer changes at most one bit of what crosses, the    *)
(* wrap from its second lap to its first included.                         *)
THEOREM OneBit == Spec => OneBitSteps
<1> DEFINE A == /\ AtMostOne(DifferingBits(bin_to_gray(wptr), bin_to_gray(wptr')))
                /\ AtMostOne(DifferingBits(bin_to_gray(rptr), bin_to_gray(rptr')))
<1>1. IInv /\ [Next]_vars => [A]_vars
  <2> SUFFICES ASSUME IInv, Next PROVE A
    OBVIOUS
  <2>1. CASE fifo_write
    <3>1. wptr \in 0..(2 * depth - 1)
      BY <2>1, WriteStep, Counts, PointerFacts, ZenonT(60) DEF IInv, PointersInv
    <3> QED
      BY <2>1, <3>1, WriteStep, PointerSteps, NoStepNoBit
  <2>2. CASE fifo_read
    <3>1. rptr \in 0..(2 * depth - 1)
      BY <2>2, ReadStep, Counts, PointerFacts, ZenonT(60) DEF IInv, PointersInv
    <3> QED
      BY <2>2, <3>1, ReadStep, PointerSteps, NoStepNoBit
  <2>3. CASE write_clock
    BY <2>3, NoStepNoBit DEF write_clock, readSide
  <2>4. CASE read_clock
    BY <2>4, NoStepNoBit DEF read_clock, writeSide
  <2> QED
    BY <2>1, <2>2, <2>3, <2>4 DEF Next
<1> QED
  BY <1>1, Invariance, PTL DEF Spec, OneBitSteps

(* The dual-clock FIFO is a queue that holds at most depth values: nothing *)
(* is lost, duplicated, reordered or overwritten (the safety part of       *)
(* ImplementsFifo; that values do come out is checked by TLC).             *)
THEOREM RefinesFifo == Spec => Fifo!Spec
<1>1. Init => Fifo!Init
  BY AsyncFifoAssumption DEF Init, Fifo!Init
<1>2. IInv /\ [Next]_vars => [Fifo!Next]_(Fifo!vars)
  <2> SUFFICES ASSUME IInv, Next
               PROVE  Fifo!Next \/ UNCHANGED <<depth, sent, received>>
    BY DEF vars, history, Fifo!vars
  <2>1. CASE fifo_write
    <3>1. Len(sent) + 1 \in 1..Writes
      BY <2>1, WriteStep, AsyncFifoAssumption
    <3> QED
      BY <2>1, <3>1, WriteStep DEF Fifo!Next, Fifo!Put
  <2>2. CASE fifo_read
    BY <2>2, ReadStep DEF Fifo!Next, Fifo!Get
  <2>3. CASE write_clock \/ read_clock
    BY <2>3 DEF write_clock, read_clock, history
  <2> QED
    BY <2>1, <2>2, <2>3 DEF Next
<1> QED
  BY <1>1, <1>2, Invariance, PTL DEF Spec, Fifo!Spec
==============================================================================
