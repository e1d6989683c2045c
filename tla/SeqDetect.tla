------------------------------ MODULE SeqDetect ------------------------------
(***************************************************************************)
(* src/solutions/s02_fsm_detect.c: two detectors of a bit pattern, and a   *)
(* state machine that recovers from illegal states.  The detectors are     *)
(* called with a whole array but only ever look back, so the bits are fed  *)
(* one at a time here and out[] is the set of places marked so far, from   *)
(* 1.  seq_detect is kept for both values of its argument overlapping.     *)
(***************************************************************************)
EXTENDS Integers, Sequences

CONSTANTS MaxPlen,      (* bound: bits of a pattern                        *)
          MaxBits,      (* bound: bits of a stream                         *)
          ExtraBits     (* bits a pattern may have beyond plen             *)

ASSUME SeqAssumption ==
    MaxPlen \in 1..32 /\ MaxBits \in Nat /\ ExtraBits \in Nat

VARIABLES
    plen, pattern, bits,        (* the arguments                           *)
    detected, disjoint, end,    (* seq_detect: out, overlapping or not,    *)
                                (* and the next end to look at if not      *)
    window, matched,            (* win_match                               *)
    fsm,                        (* safe_fsm: state                         *)
    struck, since               (* for the properties: was the register    *)
                                (* upset since the last step; the inputs   *)
                                (* since the last fault, two at most       *)

seqVars    == <<plen, pattern, bits, detected, disjoint, end, window, matched>>
safeFsmVars == <<fsm, struck, since>>

SeqInit ==
    /\ plen \in 1..MaxPlen /\ pattern \in 0..(2^(plen + ExtraBits) - 1)
    /\ bits = <<>> /\ detected = {} /\ disjoint = {} /\ end = plen
    /\ window = 0 /\ matched = {}

PatternBit(bit) == (pattern \div 2^(plen - 1 - bit)) % 2

MatchesAt(stream, last) ==
    /\ last >= plen
    /\ \A bit \in 0..(plen - 1) : stream[last - plen + 1 + bit] = PatternBit(bit)

one_short(last) == last + plen - 1                     (* mutated resume   *)
resume(last) == last + plen

seq_detect(stream, last) ==
    /\ detected' = IF MatchesAt(stream, last) THEN detected \union {last}
                                              ELSE detected
    /\ IF last >= end /\ MatchesAt(stream, last)
         THEN disjoint' = disjoint \union {last} /\ end' = resume(last)
         ELSE UNCHANGED <<disjoint, end>>

win_match(bit, last) ==
    /\ window' = (2 * window + bit) % 2^plen
    /\ matched' = IF last >= plen /\ window' = pattern THEN matched \union {last}
                                                       ELSE matched

Feed(bit) ==
    /\ Len(bits) < MaxBits
    /\ bits' = Append(bits, bit)
    /\ seq_detect(bits', Len(bits'))
    /\ win_match(bit, Len(bits'))
    /\ UNCHANGED <<plen, pattern>>

SeqNext == \E bit \in {0, 1} : Feed(bit)
SeqSpec == SeqInit /\ [][SeqNext]_seqVars

Word == [k \in 1..plen |-> PatternBit(k - 1)]
Occurrences == {e \in plen..Len(bits) : SubSeq(bits, e - plen + 1, e) = Word}

(* The oracle main compares with agrees at every place.  (win_match 26-37) *)
AgreesWithOracle == matched = detected

(* On every stream both detectors mark the ends of all occurrences; not    *)
(* overlapping, those marked are disjoint, and an occurrence is passed     *)
(* over only if it shares bits with one marked earlier.                    *)
(* (seq_detect, lines 5-24)                                                *)
DetectsExactly ==
    /\ detected = Occurrences /\ AgreesWithOracle
    /\ disjoint \subseteq Occurrences
    /\ \A a, b \in disjoint : a < b => b - a >= plen
    /\ \A e \in Occurrences : \E d \in disjoint : d <= e /\ e - d < plen

------------------------------------------------------------------------------
SafeFsmInit == fsm = 0 /\ struck = FALSE /\ since = <<>>

only_above(state) == state > 2                         (* mutated illegal  *)
illegal(state) == state < 0 \/ state > 2

LastTwo(s) == IF Len(s) <= 2 THEN s ELSE SubSeq(s, Len(s) - 1, Len(s))

safe_fsm_step(in, inject_illegal) ==
    /\ fsm' = IF inject_illegal \/ illegal(fsm) THEN 0
              ELSE IF in = 1 THEN 1
              ELSE IF fsm = 1 THEN 2 ELSE 0
    /\ since' = IF inject_illegal \/ struck THEN <<>> ELSE LastTwo(Append(since, in))
    /\ struck' = FALSE

(* An upset of the state register (external), as main's state 99.          *)
Upset(state) == fsm' = state /\ struck' = TRUE /\ since' = <<>>

SafeFsmNext ==
    \/ \E in \in {0, 1}, inject_illegal \in BOOLEAN :
            safe_fsm_step(in, inject_illegal)
    \/ \E state \in {-1, 3, 99} : Upset(state)
SafeFsmSpec == SafeFsmInit /\ [][SafeFsmNext]_safeFsmVars

(* The step after a fault leads to 0 whatever its input, and from there on *)
(* the state is that of a machine which started anew: faults are recorded  *)
(* as they strike, not as the code finds them.  (safe_fsm_step, lines      *)
(* 39-44; main, lines 61-62)                                               *)
RecoversAfresh ==
    ~struck => fsm = IF since = <<>> THEN 0
                     ELSE IF since[Len(since)] = 1 THEN 1
                     ELSE IF since = <<1, 0>> THEN 2 ELSE 0

DetectorsSound == DetectsExactly /\ RecoversAfresh
==============================================================================
