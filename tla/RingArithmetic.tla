--------------------------- MODULE RingArithmetic ---------------------------
(***************************************************************************)
(* Facts about free-running indices that the rings of the repository rest  *)
(* on: an index counts modulo w, a slot is an index modulo r, and w is a   *)
(* whole number of laps (2^32 slots of 8 or of 16); what appending to a    *)
(* history does; that naturals have a least; and what the binary digits of *)
(* a number are.                                                           *)
(***************************************************************************)
EXTENDS Integers, Sequences, WellFoundedInduction, TLAPS

(* Euclidean division, in the form the other proofs cite.                  *)
LEMMA DivisionForm ==
    ASSUME NEW n \in Nat \ {0}, NEW a \in Int
    PROVE  /\ a \div n \in Int
           /\ a % n \in 0..(n - 1)
           /\ a = n * (a \div n) + (a % n)
  BY SMT

(* Quotient and remainder are the only ones.                               *)
LEMMA RemainderUnique ==
    ASSUME NEW n \in Nat \ {0}, NEW q \in Int, NEW r \in 0..(n - 1)
    PROVE  (n * q + r) % n = r
  BY SMT

(* Whole laps do not change a remainder.                                   *)
LEMMA LapsVanish ==
    ASSUME NEW n \in Nat \ {0}, NEW a \in Int, NEW t \in Int
    PROVE  (a + n * t) % n = a % n
<1> DEFINE q == a \div n
           r == a % n
<1>1. q \in Int /\ r \in 0..(n - 1) /\ a = n * q + r
  BY DivisionForm
<1> HIDE DEF q, r
<1>2. a + n * t = n * (q + t) + r
  BY <1>1, SMT
<1>3. (n * (q + t) + r) % n = r
  BY <1>1, RemainderUnique, q + t \in Int
<1> QED
  BY <1>1, <1>2, <1>3 DEF r

(* Unsigned subtraction of two indices gives the true distance, however    *)
(* often both have wrapped, as long as it is less than w: what the full    *)
(* tests `tail - head == R` and `tail - head >= SQ_SIZE` rely on.          *)
THEOREM WrappedDistance ==
    ASSUME NEW w \in Nat \ {0}, NEW a \in Int, NEW b \in Int, a - b \in 0..(w - 1)
    PROVE  ((a % w) - (b % w)) % w = a - b
<1> DEFINE qa == a \div w
           ra == a % w
           qb == b \div w
           rb == b % w
<1>1. qa \in Int /\ ra \in 0..(w - 1) /\ a = w * qa + ra
  BY DivisionForm
<1>2. qb \in Int /\ rb \in 0..(w - 1) /\ b = w * qb + rb
  BY DivisionForm
<1> HIDE DEF qa, ra, qb, rb
<1>3. ra - rb = (a - b) + w * (qb - qa)
  BY <1>1, <1>2, SMT
<1>4. ((a - b) + w * (qb - qa)) % w = (a - b) % w
  BY <1>1, <1>2, LapsVanish, a - b \in Int, qb - qa \in Int
<1>5. (a - b) % w = a - b
  BY w * 0 + (a - b) = a - b, RemainderUnique
<1> QED
  BY <1>3, <1>4, <1>5 DEF ra, rb

(* The next index, wrapped, is the wrapped next count.                     *)
LEMMA WrappedSucc ==
    ASSUME NEW w \in Nat \ {0}, NEW a \in Int
    PROVE  ((a % w) + 1) % w = (a + 1) % w
<1> DEFINE q == a \div w
           r == a % w
<1>1. q \in Int /\ r \in 0..(w - 1) /\ a = w * q + r
  BY DivisionForm
<1> HIDE DEF q, r
<1>2. a + 1 = (r + 1) + w * q
  BY <1>1, SMT
<1>3. ((r + 1) + w * q) % w = (r + 1) % w
  BY <1>1, LapsVanish, r + 1 \in Int
<1> QED
  BY <1>2, <1>3 DEF r

(* Where w is a whole number of laps, wrapping an index keeps its slot.    *)
LEMMA SlotOfWrapped ==
    ASSUME NEW r \in Nat \ {0}, NEW w \in Nat \ {0}, w % r = 0, NEW a \in Int
    PROVE  (a % w) % r = a % r
<1> DEFINE q == a \div w
           m == a % w
           l == w \div r
<1>1. q \in Int /\ m \in 0..(w - 1) /\ a = w * q + m
  BY DivisionForm
<1>2. l \in Int /\ w = r * l
  BY DivisionForm
<1> HIDE DEF q, m, l
<1>3. a = m + r * (l * q)
  BY <1>1, <1>2, SMT
<1>4. m \in Int /\ l * q \in Int
  BY <1>1, <1>2
<1>5. (m + r * (l * q)) % r = m % r
  BY <1>4, LapsVanish
<1> QED
  BY <1>3, <1>5 DEF m

(* The slot reached from a wrapped index by some further steps.            *)
LEMMA SlotOfSum ==
    ASSUME NEW r \in Nat \ {0}, NEW w \in Nat \ {0}, w % r = 0,
           NEW a \in Int, NEW j \in Int
    PROVE  ((a % w) + j) % r = ((a + j) % w) % r
<1> DEFINE q == a \div w
           m == a % w
           l == w \div r
<1>1. q \in Int /\ m \in 0..(w - 1) /\ a = w * q + m
  BY DivisionForm
<1>2. l \in Int /\ w = r * l
  BY DivisionForm
<1> HIDE DEF q, m, l
<1>3. a + j = (m + j) + r * (l * q)
  BY <1>1, <1>2, SMT
<1>4. m + j \in Int /\ l * q \in Int
  BY <1>1, <1>2
<1>5. ((m + j) + r * (l * q)) % r = (m + j) % r
  BY <1>4, LapsVanish
<1>6. ((a + j) % w) % r = (a + j) % r
  BY SlotOfWrapped, a + j \in Int
<1> QED
  BY <1>3, <1>5, <1>6 DEF m

(* Two counts less than a lap apart never share a slot: the reason a       *)
(* bounded ring does not overwrite what has not been consumed.             *)
THEOREM SlotsDistinct ==
    ASSUME NEW r \in Nat \ {0}, NEW a \in Int, NEW b \in Int,
           a < b, a % r = b % r
    PROVE  b >= a + r
<1> DEFINE qa == a \div r
           qb == b \div r
           m  == a % r
<1>1. qa \in Int /\ m \in 0..(r - 1) /\ a = r * qa + m
  BY DivisionForm
<1>2. qb \in Int /\ b = r * qb + m
  BY DivisionForm
<1> HIDE DEF qa, qb, m
<1>3. b - a = r * (qb - qa)
  BY <1>1, <1>2, SMT
<1>4. qb - qa >= 1
  BY <1>1, <1>2, <1>3, SMT
<1>5. r * (qb - qa) >= r
  BY <1>1, <1>2, <1>4, SMT
<1> QED
  BY <1>3, <1>5, SMT

(* What Append does to a sequence.                                         *)
LEMMA AppendFacts ==
    ASSUME NEW S, NEW q \in Seq(S), NEW e \in S
    PROVE  /\ Append(q, e) \in Seq(S) /\ Append(q, e) # <<>>
           /\ Len(Append(q, e)) = Len(q) + 1
           /\ Append(q, e)[Len(q) + 1] = e
           /\ \A k \in 1..Len(q) : Append(q, e)[k] = q[k]
           /\ Len(q) \in Nat
  OBVIOUS

(* Every set of naturals that is not empty has a least element.            *)
LEMMA LeastNatural ==
    ASSUME NEW S \in SUBSET Nat, S # {}
    PROVE  \E x \in S : \A y \in S : x <= y
<1> DEFINE R == {ss \in Nat \X Nat : ss[1] < ss[2]}
<1>1. IsWellFoundedOn(R, Nat)
  BY NatLessThanWellFounded DEF OpToRel
<1>2. \A x, y \in Nat : y < x => <<y, x>> \in R
  OBVIOUS
<1> HIDE DEF R
<1>3. PICK x \in S : \A y \in S : ~(<<y, x>> \in R)
  BY <1>1, WFMin
<1>4. \A y \in S : ~(y < x)
  BY <1>2, <1>3
<1> QED
  BY <1>4

(* A power of two, kept folded so that its exponent may be a variable; the *)
(* exponents are those of the program's words.                             *)
Power(i) == 2^i

LEMMA PowerFacts ==
    ASSUME NEW i \in 0..32
    PROVE  /\ Power(i) \in Nat \ {0}
           /\ i < 32 => Power(i + 1) = 2 * Power(i)
<1>1. /\ Power(0) = 1 /\ Power(1) = 2 /\ Power(2) = 4 /\ Power(3) = 8
      /\ Power(4) = 16 /\ Power(5) = 32 /\ Power(6) = 64 /\ Power(7) = 128
      /\ Power(8) = 256 /\ Power(9) = 512 /\ Power(10) = 1024 /\ Power(11) = 2048
      /\ Power(12) = 4096 /\ Power(13) = 8192 /\ Power(14) = 16384
      /\ Power(15) = 32768 /\ Power(16) = 65536
  BY SMT DEF Power
<1>2. /\ Power(17) = 131072 /\ Power(18) = 262144 /\ Power(19) = 524288
      /\ Power(20) = 1048576 /\ Power(21) = 2097152 /\ Power(22) = 4194304
      /\ Power(23) = 8388608 /\ Power(24) = 16777216 /\ Power(25) = 33554432
      /\ Power(26) = 67108864 /\ Power(27) = 134217728 /\ Power(28) = 268435456
      /\ Power(29) = 536870912 /\ Power(30) = 1073741824
      /\ Power(31) = 2147483648 /\ Power(32) = 4294967296
  BY SMT DEF Power
<1>3. \/ i = 0 \/ i = 1 \/ i = 2 \/ i = 3 \/ i = 4 \/ i = 5 \/ i = 6 \/ i = 7
      \/ i = 8 \/ i = 9 \/ i = 10 \/ i = 11 \/ i = 12 \/ i = 13 \/ i = 14
      \/ i = 15 \/ i = 16 \/ i = 17 \/ i = 18 \/ i = 19 \/ i = 20 \/ i = 21
      \/ i = 22 \/ i = 23 \/ i = 24 \/ i = 25 \/ i = 26 \/ i = 27 \/ i = 28
      \/ i = 29 \/ i = 30 \/ i = 31 \/ i = 32
  BY SMT
<1> QED
  BY <1>1, <1>2, <1>3

(* A power of two is a multiple of every smaller one.                      *)
LEMMA PowerMultiple ==
    ASSUME NEW k \in 0..32, NEW i \in 0..k
    PROVE  \E m \in Nat : Power(k) = Power(i) * m
<1> DEFINE P(j) == \E m \in Nat : Power(j) = Power(i) * m
           bad == {j \in i..k : ~P(j)}
<1>1. SUFFICES bad = {}
  BY k \in i..k
<1>2. P(i)
  <2>1. Power(i) = Power(i) * 1
    BY PowerFacts, i \in 0..32
  <2> QED
    BY <2>1, 1 \in Nat
<1>3. ASSUME bad # {} PROVE FALSE
  <2>1. bad \in SUBSET Nat
    OBVIOUS
  <2>2. PICK j \in bad : \A l \in bad : j <= l
    BY <1>3, <2>1, LeastNatural
  <2>3. j \in i..k /\ ~P(j) /\ j # i
    BY <1>2
  <2> HIDE DEF P
  <2>4. j - 1 \in i..k /\ j - 1 \in 0..32 /\ ~(j <= j - 1) /\ (j - 1) + 1 = j /\ j - 1 < 32
    BY <2>3
  <2>5. P(j - 1)
    BY <2>2, <2>4
  <2>6. PICK m \in Nat : Power(j - 1) = Power(i) * m
    BY <2>5 DEF P
  <2>7. Power(j) = 2 * Power(j - 1) /\ Power(i) \in Nat
    BY <2>4, PowerFacts, i \in 0..32
  <2>8. Power(j) = Power(i) * (2 * m) /\ 2 * m \in Nat
    BY <2>6, <2>7, SMT
  <2> QED
    BY <2>3, <2>8 DEF P
<1> QED
  BY <1>3

(* The binary digits of a number, and what is below a digit.               *)
Digit(v, i) == (v \div Power(i)) % 2
Low(v, i) == v % Power(i)

LEMMA DigitFacts ==
    ASSUME NEW v \in Nat, NEW i \in 0..31
    PROVE  /\ Digit(v, i) \in {0, 1}
           /\ Low(v, i) \in 0..(Power(i) - 1)
           /\ Low(v, i + 1) = Power(i) * Digit(v, i) + Low(v, i)
<1> DEFINE p == Power(i)
           q == v \div p
           r == v % p
           h == q \div 2
           b == q % 2
<1>1. p \in Nat \ {0} /\ Power(i + 1) = 2 * p
  BY PowerFacts, i \in 0..32
<1>2. q \in Int /\ r \in 0..(p - 1) /\ v = p * q + r
  BY <1>1, DivisionForm, v \in Int
<1>3. h \in Int /\ b \in 0..1 /\ q = 2 * h + b
  <2>1. q \in Int
    BY <1>2
  <2> HIDE DEF q
  <2> QED
    BY <2>1, SMT
<1>4. Digit(v, i) = b /\ Low(v, i) = r /\ Low(v, i + 1) = v % (2 * p)
  BY <1>1 DEF Digit, Low
<1> HIDE DEF p, q, r, h, b
<1>5. v = (2 * p) * h + (p * b + r)
  BY <1>1, <1>2, <1>3, SMT
<1>6. p * b + r \in 0..(2 * p - 1)
  <2>1. b = 0 \/ b = 1
    BY <1>3
  <2> QED
    BY <2>1, <1>1, <1>2
<1>7. v % (2 * p) = p * b + r
  BY <1>1, <1>3, <1>5, <1>6, RemainderUnique, 2 * p \in Nat \ {0}
<1>8. Power(i) = p
  BY DEF p
<1> QED
  BY <1>2, <1>3, <1>4, <1>7, <1>8

(* A number, as the digits of a quotient and a remainder.                  *)
LEMMA DigitIs ==
    ASSUME NEW i \in 0..31, NEW q \in Nat, NEW r \in 0..(Power(i) - 1)
    PROVE  Digit(Power(i) * q + r, i) = q % 2
<1>1. Power(i) \in Nat \ {0}
  BY PowerFacts, i \in 0..32
<1>2. (Power(i) * q + r) \div Power(i) = q
  BY <1>1, SMT
<1> QED
  BY <1>2 DEF Digit
=============================================================================
