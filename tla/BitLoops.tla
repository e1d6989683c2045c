------------------------------ MODULE BitLoops ------------------------------
(***************************************************************************)
(* The functions of src/solutions/s01_bitops.c that loop, one action for   *)
(* a turn of each loop: counts of bits and of zeros, a word turned round,  *)
(* and the exclusive or of many words.                                     *)
(***************************************************************************)
EXTENDS Words, Sequences

CONSTANTS Arguments,    (* the words passed                                *)
          Values,       (* what an array may hold                          *)
          MaxSize       (* bound: n; INT_MAX would never end a `i <= n`    *)

ASSUME LoopsAssumption ==
    /\ Arguments \subseteq SUBSET W32 /\ Values \subseteq SUBSET W32
    /\ MaxSize \in Nat /\ MaxSize < 2^30 + (2^30 - 1)              (* INT_MAX *)

VARIABLES
    loop, argument,     (* the function called and its word                *)
    left,               (* that word as shifted, or clz32's mask           *)
    count,              (* bits, zeros or turns counted                    *)
    size, fed,          (* n, and the words taken into `result` so far     *)
    result

loopVars == <<loop, argument, left, count, size, fed, result>>

Loops == {"popcount_kern", "ffs32", "ctz32", "clz32", "reverse32",
          "xor_unique", "xor_missing"}

(* An argument of 0 is answered before the loop, which then takes no turn; *)
(* ffs32 counts the bits from 1.                                           *)
ffs32_start(word) == IF word = {} THEN 0 ELSE 1
ctz32_start(word) == IF word = {} THEN 32 ELSE 0
clz32_start(word) == IF word = {} THEN 32 ELSE 0

(* -1 is any n below 0, and NULL.                                          *)
LoopInit ==
    /\ loop \in Loops /\ argument \in Arguments /\ size \in -1..MaxSize
    /\ left = IF loop = "clz32" THEN {31} ELSE argument
    /\ count = CASE loop = "ffs32" -> ffs32_start(argument)
                 [] loop = "ctz32" -> ctz32_start(argument)
                 [] loop = "clz32" -> clz32_start(argument)
                 [] OTHER -> 0
    /\ fed = <<>> /\ result = {}

popcount_kern ==
    /\ loop = "popcount_kern" /\ left # {}
    /\ left' = left \intersect Sub(left, One, 32)
    /\ count' = count + 1
    /\ UNCHANGED <<loop, argument, size, fed, result>>

ZerosBelow == argument # {} /\ left \intersect One = {}
NextPlace ==
    /\ left' = Shr(left, 1)
    /\ count' = count + 1
    /\ UNCHANGED <<loop, argument, size, fed, result>>
ffs32 == loop = "ffs32" /\ ZerosBelow /\ NextPlace
ctz32 == loop = "ctz32" /\ ZerosBelow /\ NextPlace

ZerosAbove == argument # {} /\ left \intersect argument = {}
clz32 == loop = "clz32" /\ ZerosAbove /\ NextPlace

reverse32 ==
    /\ loop = "reverse32" /\ count < 32
    /\ result' = Shl(result, 1, 32) \union (left \intersect One)
    /\ left' = Shr(left, 1)
    /\ count' = count + 1
    /\ UNCHANGED <<loop, argument, size, fed>>

Take(word) ==
    /\ result' = Xor(result, word)
    /\ fed' = Append(fed, word)
    /\ UNCHANGED <<loop, argument, left, count, size>>

xor_unique == loop = "xor_unique" /\ Len(fed) < size
                  /\ \E value \in Values : Take(value)

(* First the numbers 0 to n, then the array.                               *)
xor_missing ==
    /\ loop = "xor_missing"
    /\ \/ Len(fed) <= size /\ Take(Numeral(Len(fed)))
       \/ Len(fed) > size /\ Len(fed) <= 2 * size /\ \E value \in Values : Take(value)

LoopNext == popcount_kern \/ ffs32 \/ ctz32 \/ clz32 \/ reverse32
                \/ xor_unique \/ xor_missing

LoopSpec == LoopInit /\ [][LoopNext]_loopVars

------------------------------------------------------------------------------
ZeroCountsExact ==
    /\ loop = "ffs32" /\ ~ZerosBelow =>
          count = IF argument = {} THEN 0 ELSE Lowest(argument) + 1
    /\ loop = "ctz32" /\ ~ZerosBelow =>
          count = IF argument = {} THEN 32 ELSE Lowest(argument)
    /\ loop = "clz32" /\ ~ZerosAbove =>
          count = IF argument = {} THEN 32 ELSE 31 - Highest(argument)

Times(word) == Cardinality({i \in DOMAIN fed : fed[i] = word})
OddWords == {word \in {fed[i] : i \in DOMAIN fed} : Times(word) % 2 = 1}
Array == {fed[i] : i \in (size + 2)..(2 * size + 1)}

(* Every loop ends within 32 turns with the number of bits, the place of   *)
(* the lowest or of the highest (0 or 32 of a word that has none), the     *)
(* word turned round.  What remains of an *)
(* exclusive or is the only word that occurred an odd number of times, and *)
(* of 0 to n and all of them but one, that one.  (s01_bitops.c lines       *)
(* 25-32, 64-83, 90-112)                                                   *)
LoopsExact ==
    /\ count <= 32
    /\ loop = "popcount_kern" /\ left = {} => count = Cardinality(argument)
    /\ ZeroCountsExact
    /\ loop = "reverse32" /\ count = 32 => result = {31 - b : b \in argument}
    /\ \A word \in OddWords : OddWords = {word} => result = word
    /\ loop = "xor_missing" /\ Len(fed) = 2 * size + 1 =>
          \A m \in 0..size :
             Array = {Numeral(i) : i \in (0..size) \ {m}} => result = Numeral(m)

(* The bit toolkit as a whole: its expressions and its loops.              *)
ToolkitExact == WordOpsExact /\ LoopsExact
=============================================================================
