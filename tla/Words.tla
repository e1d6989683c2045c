-------------------------------- MODULE Words --------------------------------
(***************************************************************************)
(* The bit functions of src/solutions/s01_bitops.c, the macros of          *)
(* src/macros.h, the field write of d00_mmio.c, and the address arithmetic *)
(* of s07, s10 and s11.  A word of 32 or 64 bits is the set of the bits    *)
(* that are 1, so that the width is the code's; what a function does to it *)
(* is written as in the code.                                              *)
(***************************************************************************)
EXTENDS Integers, FiniteSets

CONSTANTS MaxOnes,  (* bound: bits of the first argument that differ from  *)
                    (* all 0 or from all 1                                 *)
          Seconds,  (* second arguments                                    *)
          Places    (* positions, widths and amounts passed as numbers     *)

Bits(width) == 0..(width - 1)
W32 == Bits(32)
One == {0}
Ones(low, high) == low..high

ASSUME WordsAssumption ==
    MaxOnes \in Nat /\ Seconds \subseteq SUBSET W32 /\ Places \subseteq Nat

VARIABLES operand, second   (* the arguments of a call                     *)

wordVars == <<operand, second>>

Shl(word, k, width) == {b + k : b \in word} \intersect Bits(width)
Shr(word, k) == {b - k : b \in {c \in word : c >= k}}
Not(word, width) == Bits(width) \ word
Xor(a, b) == (a \ b) \union (b \ a)

(* A carry arises at some lower bit and is not stopped on its way.         *)
Carried(from, stop, width) ==
    {b \in Bits(width) : \E j \in from :
        j < b /\ ~\E k \in stop : j < k /\ k < b}
Add(a, b, width) ==
    Xor(Xor(a, b), Carried(a \intersect b, Bits(width) \ (a \union b), width))
Sub(a, b, width) == Xor(Xor(a, b), Carried(b \ a, a \ b, width))
Above(a, b) == \E k \in a \ b : \A c \in Xor(a, b) : c <= k   (* a > b     *)

------------------------------------------------------------------------------
(* Powers of two.                                                          *)
is_pow2(word) == word # {} /\ word \intersect Sub(word, One, 32) = {}
POW2(word) == word # {} /\ ~(word \intersect Sub(word, One, 32) # {})

Smear(word, k) == word \union Shr(word, k)
four_steps(word) == Smear(Smear(Smear(Smear(word, 1), 2), 4), 8) (* mutated *)
smears(word) == Smear(four_steps(word), 16)
floor_pow2(word) ==
    IF word = {} THEN {} ELSE Sub(smears(word), Shr(smears(word), 1), 32)

ceil_pow2(word) ==
    IF word \subseteq One THEN One
    ELSE IF Above(word, {31}) THEN {}
    ELSE Shl(floor_pow2(Sub(word, One, 32)), 1, 32)

(* A count of bits, all at once: in pairs, in fours, in bytes.             *)
Lower(k) == {b \in W32 : b % (2 * k) < k}     (* 0x5555..., 0x3333..., ... *)
Pairs(word) == Sub(word, Shr(word, 1) \intersect Lower(1), 32)
Fours(pairs) == Add(pairs \intersect Lower(2), Shr(pairs, 2) \intersect Lower(2), 32)
Bytes(fours) == Add(fours, Shr(fours, 4), 32) \intersect Lower(4)
Total(bytes) == Add(Add(bytes, Shl(bytes, 8, 32), 32),        (* * 0x0101..*)
                    Add(Shl(bytes, 16, 32), Shl(bytes, 24, 32), 32), 32)
popcount_swar(word) == Shr(Total(Bytes(Fours(Pairs(word)))), 24)

(* Fields.                                                                 *)
NoField(low, width) == width = 0 \/ low >= 32 \/ width > 32 - low
Field(width) == IF width = 32 THEN W32 ELSE Sub(Shl(One, width, 32), One, 32)
get_field(value, low, width) ==
    IF NoField(low, width) THEN {} ELSE Shr(value, low) \intersect Field(width)
put_field(reg, low, width, value) ==
    LET mask == Shl(Field(width), low, 32)
    IN  IF NoField(low, width) THEN reg
        ELSE (reg \intersect Not(mask, 32))
                 \union Shl(value \intersect Field(width), low, 32)

MASK(msb, lsb) == Shl(Shr(W32, 31 - (msb - lsb)), lsb, 32)
FIELD_GET(reg, msb, lsb) == Shr(reg \intersect MASK(msb, lsb), lsb)
FIELD_PREP(val, msb, lsb) == MASK(msb, lsb) \intersect Shl(val, lsb, 32)
FIELD_RESET(reg, msb, lsb) == reg \intersect Not(MASK(msb, lsb), 32)
FIELD_WRITE(reg, val, msb, lsb) ==
    FIELD_PREP(val, msb, lsb) \union FIELD_RESET(reg, msb, lsb)
reg_rmw_field(csr, msb, lsb, val) == FIELD_WRITE(csr, val, msb, lsb)
field_mask(msb, lsb) ==
    IF msb >= 32 \/ lsb > msb THEN {}
    ELSE IF msb - lsb + 1 = 32 THEN W32
    ELSE Shl(Sub(Shl(One, msb - lsb + 1, 32), One, 32), lsb, 32)
reg_field_write(reg, msb, lsb, value) ==
    IF msb >= 32 \/ lsb > msb THEN reg
    ELSE (reg \intersect Not(field_mask(msb, lsb), 32))
             \union (Shl(value, lsb, 32) \intersect field_mask(msb, lsb))

(* Rearranging.                                                            *)
rol32(word, k) ==
    IF k % 32 = 0 THEN word
    ELSE Shl(word, k % 32, 32) \union Shr(word, 32 - (k % 32))
ror32(word, k) ==
    IF k % 32 = 0 THEN word
    ELSE Shr(word, k % 32) \union Shl(word, 32 - (k % 32), 32)
bswap32(word) ==
    Shl(word \intersect Ones(0, 7), 24, 32)
        \union Shl(word \intersect Ones(8, 15), 8, 32)
        \union Shr(word \intersect Ones(16, 23), 8)
        \union Shr(word \intersect Ones(24, 31), 24)
combine64(high, low) == Shl(high, 32, 64) \union low

(* Addresses; alignments are powers of two, {k} for 2^k.                   *)
ALIGN_UP(word, a) ==
    Add(word, Sub(a, One, 64), 64) \intersect Not(Sub(a, One, 64), 64)
ALIGN_DOWN(word, a) == word \intersect Not(Sub(a, One, 64), 64)
IS_ALIGNED(word, a) == word \intersect Sub(a, One, 64) = {}

bar_size(readback) == Add(Not(readback \ Ones(0, 3), 32), One, 32)
never_refused(mem_base) == FALSE                     (* mutated Refused    *)
Refused(mem_base) == Above(mem_base, Not(Ones(0, 19), 64))
program_bridge_window(window_base, mem_base) ==
    IF Refused(mem_base) THEN window_base
    ELSE Add(mem_base, Ones(0, 19), 64) \intersect Not(Ones(0, 19), 64)

------------------------------------------------------------------------------
WordsInit == operand \in {{}, W32} /\ second \in Seconds

(* Some other call.                                                        *)
Another(bit, other) ==
    LET word == Xor(operand, {bit})
    IN  /\ Cardinality(word) \in 0..MaxOnes \union (32 - MaxOnes)..32
        /\ operand' = word /\ second' = other

WordsNext == \E bit \in W32, other \in Seconds : Another(bit, other)

WordsSpec == WordsInit /\ [][WordsNext]_wordVars

------------------------------------------------------------------------------
Highest(word) == CHOOSE b \in word : \A c \in word : c <= b
Lowest(word)  == CHOOSE b \in word : \A c \in word : b <= c
Numeral(i) == {b \in 0..30 : (i \div 2^b) % 2 = 1}       (* i, as a word   *)

PowersExact ==
    /\ is_pow2(operand) <=> Cardinality(operand) = 1
    /\ POW2(operand) <=> Cardinality(operand) = 1
    /\ floor_pow2(operand) = IF operand = {} THEN {} ELSE {Highest(operand)}
    /\ ceil_pow2(operand) = IF operand = {} THEN One
                            ELSE IF Cardinality(operand) = 1 THEN operand
                            ELSE {Highest(operand) + 1} \intersect W32

CountExact == popcount_swar(operand) = Numeral(Cardinality(operand))

(* A field written into a register is still there once another is written, *)
(* first the lower or first the upper.                                     *)
KeepsOther(csr, msb, lsb, val, msb2, lsb2, val2) ==
    /\ FIELD_GET(reg_rmw_field(reg_rmw_field(csr, msb, lsb, val), msb2, lsb2, val2),
                 msb, lsb) = val \intersect Ones(0, msb - lsb)
    /\ FIELD_GET(reg_rmw_field(reg_rmw_field(csr, msb2, lsb2, val2), msb, lsb, val),
                 msb2, lsb2) = val2 \intersect Ones(0, msb2 - lsb2)

FieldsExact ==
    /\ \A low \in Places, width \in Places :
          LET field == IF low + width <= 32 THEN Ones(low, low + width - 1) ELSE {}
          IN  /\ get_field(operand, low, width) = Shr(operand \intersect field, low)
              /\ put_field(operand, low, width, second) =
                     (operand \ field)
                         \union ({b + low : b \in second} \intersect field)
    /\ \A lsb \in Places, msb \in Places :
          /\ field_mask(msb, lsb) = IF msb < 32 THEN Ones(lsb, msb) ELSE {}
          /\ reg_field_write(operand, msb, lsb, second) =
                 IF lsb <= msb /\ msb < 32
                   THEN put_field(operand, lsb, msb - lsb + 1, second) ELSE operand
          /\ lsb <= msb /\ msb < 32 =>
                /\ FIELD_GET(operand, msb, lsb)
                        = get_field(operand, lsb, msb - lsb + 1)
                /\ FIELD_WRITE(operand, second, msb, lsb)
                        = put_field(operand, lsb, msb - lsb + 1, second)
                /\ \A other \in Places, last \in Places :
                      msb < other /\ other <= last /\ last < 32 =>
                         KeepsOther(operand, msb, lsb, second, last, other, operand)

OrderExact ==
    /\ \A k \in Places :
          /\ rol32(operand, k) = {(b + k) % 32 : b \in operand}
          /\ ror32(rol32(operand, k), k) = operand
    /\ bswap32(operand) = {8 * (3 - b \div 8) + (b % 8) : b \in operand}

(* A window begins at the first megabyte not below the base; a bridge whose *)
(* base has none above it keeps the window it had.                         *)
WindowExact(old, base) ==
    LET window == program_bridge_window(old, base)
    IN  IF Ones(20, 63) \subseteq base /\ base \intersect Ones(0, 19) # {}
          THEN window = old
          ELSE /\ window \intersect Ones(0, 19) = {} /\ ~Above(base, window)
               /\ ~Above(window, Add(base, Ones(0, 19), 64))

AddressesExact ==
    LET base == combine64(second, operand)
    IN  /\ \A k \in Places \intersect Bits(64) :
              /\ ALIGN_DOWN(base, {k}) = base \ Ones(0, k - 1)
              /\ IS_ALIGNED(base, {k}) <=> ALIGN_DOWN(base, {k}) = base
              /\ ALIGN_UP(base, {k}) = IF IS_ALIGNED(base, {k}) THEN base
                     ELSE Add(ALIGN_DOWN(base, {k}), {k}, 64)
        /\ \A k \in 4..31 :
              bar_size(Ones(k, 31) \union (operand \intersect Ones(0, 3))) = {k}
        /\ \A old \in Seconds : WindowExact(old, base)

(* Each function gives what its name says, at the boundaries too: 0, all   *)
(* ones, the top bit, fields that reach bit 31 or past it, the last window *)
(* below 2^64.  (s01_bitops.c lines 5-116, macros.h, d00_mmio.c 20-25,     *)
(* s07 lines 7-11 and 16-21, s10 lines 34-37, s11 lines 25-28 and 40-43)  *)
WordOpsExact ==
    PowersExact /\ CountExact /\ FieldsExact /\ OrderExact /\ AddressesExact
==============================================================================
