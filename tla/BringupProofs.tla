---------------------------- MODULE BringupProofs ----------------------------
(***************************************************************************)
(* Proofs about the bring-up programs: the ladder for any number of stages *)
(* and any budget, the clock functions for any even divisor, the reset     *)
(* order for any number of domains, the link for walks of any length, the  *)
(* poll for any budgets of reads, the sequence detectors for any patterns  *)
(* of up to 32 bits and any input, the safe state machine for any upset,   *)
(* and the bit toolkit for any words.                                      *)
(***************************************************************************)
EXTENDS ClockReset, BringupLadder, RegisterPoll, Ltssm, SeqDetect, BitLoops,
        RingArithmetic, FiniteSetTheorems

------------------------------------------------------------------------------
(* The ladder.  A stage has been answered "retry" once per failure until   *)
(* its budget was spent, and never after.                                  *)
LadderType ==
    /\ ready \in [Stages -> BOOLEAN] /\ retries \in [Stages -> Nat]
    /\ current \in -1..(STG_NUM - 1) /\ max_retries \in Nat
    /\ allowed_retries \in [Stages -> Nat]

AnsweredExactly ==
    \A s \in Stages :
        allowed_retries[s] = IF retries[s] <= max_retries THEN retries[s]
                                                          ELSE max_retries

LadderInv == LadderType /\ StagesInOrder /\ AnsweredExactly

LEMMA LadderInitially == LadderInit => LadderInv
  BY LadderAssumption
     DEF LadderInit, LadderInv, LadderType, StagesInOrder, AnsweredExactly, Stages

LEMMA LadderInductive == LadderInv /\ [LadderNext]_ladderVars => LadderInv'
<1> SUFFICES ASSUME LadderInv, [LadderNext]_ladderVars PROVE LadderInv'
  OBVIOUS
<1> USE LadderAssumption DEF LadderInv, LadderType
<1>1. ASSUME NEW next \in -1..STG_NUM, advance(next) PROVE LadderInv'
  <2>1. LadderType'
    BY <1>1 DEF advance, follows, Stages
  <2>2. StagesInOrder'
    <3>1. ready' = [ready EXCEPT ![next] = TRUE] /\ current' = current + 1
          /\ next = current + 1 /\ next \in Stages
      BY <1>1 DEF advance, follows
    <3>2. \A s \in Stages : ready'[s] <=> s \in 0..current \/ s = next
      BY <3>1 DEF StagesInOrder
    <3>3. \A s \in Stages : s \in 0..current \/ s = next <=> s \in 0..current'
      BY <3>1 DEF Stages
    <3>4. 0..current' \subseteq Stages
      BY <3>1 DEF Stages
    <3>5. {s \in Stages : ready'[s]} = 0..current'
      BY <3>2, <3>3, <3>4
    <3> QED
      BY <3>5 DEF StagesInOrder, Stages
  <2>3. AnsweredExactly'
    BY <1>1 DEF advance, AnsweredExactly
  <2> QED
    BY <2>1, <2>2, <2>3
<1>2. ASSUME NEW stage \in Stages, inject_fail(stage) PROVE LadderInv'
  <2>1. LadderType'
    BY <1>2 DEF inject_fail
  <2>2. StagesInOrder'
    BY <1>2 DEF inject_fail, StagesInOrder
  <2>3. AnsweredExactly'
    BY <1>2 DEF inject_fail, may_retry, AnsweredExactly
  <2> QED
    BY <2>1, <2>2, <2>3
<1>3. CASE UNCHANGED ladderVars
  BY <1>3 DEF ladderVars, StagesInOrder, AnsweredExactly
<1> QED
  BY <1>1, <1>2, <1>3 DEF LadderNext

(* For every number of stages, budget and mixture of calls: stages come up *)
(* in order, and each gets its budget of retries and no more.              *)
THEOREM LadderIsSound == LadderSpec => []LadderSound
<1>1. LadderInv => LadderSound
  BY DEF LadderInv, LadderType, LadderSound, WithinBudget, AnsweredExactly
<1> QED
  BY <1>1, LadderInitially, LadderInductive, PTL DEF LadderSpec

------------------------------------------------------------------------------
(* The link.                                                               *)
LinkInv == st \in LinkStates /\ configured \in BOOLEAN /\ ConfiguredBeforeUse

(* On walks of any length the link is not used before it is configured.    *)
THEOREM LinkConfigured == LtssmSpec => []ConfiguredBeforeUse
<1> USE DEF LinkStates, Training, LowPower
<1>1. LtssmInit => LinkInv
  BY DEF LtssmInit, LinkInv, ConfiguredBeforeUse
<1>2. LinkInv /\ [LtssmNext]_ltssmVars => LinkInv'
  <2> SUFFICES ASSUME LinkInv, [LtssmNext]_ltssmVars PROVE LinkInv'
    OBVIOUS
  <2>1. ASSUME NEW to \in LinkStates, go(to) PROVE LinkInv'
    <3>1. /\ st' = to /\ allowed(st, to)
          /\ configured' = (to = "CONFIG" \/ (configured /\ to \notin Training))
      BY <2>1 DEF go, may_go
    <3>2. CASE st \in {"DETECT", "POLLING"}
      <4>1. to \in {"DETECT", "POLLING", "CONFIG"}
        BY <3>1, <3>2 DEF allowed
      <4> QED
        BY <3>1, <4>1 DEF LinkInv, ConfiguredBeforeUse
    <3>3. CASE st \notin {"DETECT", "POLLING"}
      <4>1. configured
        BY <3>3 DEF LinkInv, ConfiguredBeforeUse
      <4> QED
        BY <3>1, <4>1 DEF LinkInv, ConfiguredBeforeUse
    <3> QED
      BY <3>2, <3>3
  <2>2. CASE UNCHANGED ltssmVars
    BY <2>2 DEF ltssmVars, LinkInv, ConfiguredBeforeUse
  <2> QED
    BY <2>1, <2>2 DEF LtssmNext
<1>3. LinkInv => ConfiguredBeforeUse
  BY DEF LinkInv
<1> QED
  BY <1>1, <1>2, <1>3, PTL DEF LtssmSpec

------------------------------------------------------------------------------
(* The multiplexer: its output is the clock in force, a level of 0 or 1.   *)
MuxInv ==
    /\ clk_a \in {0, 1} /\ clk_b \in {0, 1} /\ selected \in {0, 1}
    /\ out = IF selected = 1 THEN clk_b ELSE clk_a

(* No order of selections and edges makes a runt.                          *)
THEOREM MuxHasNoRunt == MuxSpec => NoRunt
<1>1. MuxInit => MuxInv
  BY DEF MuxInit, MuxInv
<1>2. ASSUME MuxInv, [MuxNext]_muxVars
      PROVE  /\ MuxInv'
             /\ [out' # out => IF selected = 1 THEN clk_b' # clk_b
                                               ELSE clk_a' # clk_a]_muxVars
  <2>1. ASSUME NEW sel \in -1..2, NEW a \in {0, 1}, NEW b \in {0, 1},
               clk_mux_step(sel, a, b)
        PROVE  /\ MuxInv'
               /\ out' # out => IF selected = 1 THEN clk_b' # clk_b
                                                ELSE clk_a' # clk_a
    <3>1. CASE may_switch(sel, a, b)
      BY <1>2, <2>1, <3>1 DEF clk_mux_step, may_switch, MuxInv
    <3>2. CASE ~may_switch(sel, a, b)
      BY <1>2, <2>1, <3>2 DEF clk_mux_step, MuxInv
    <3> QED
      BY <3>1, <3>2
  <2>2. CASE UNCHANGED muxVars
    BY <1>2, <2>2 DEF muxVars, MuxInv
  <2> QED
    BY <1>2, <2>1, <2>2 DEF MuxNext
<1> QED
  BY <1>1, <1>2, PTL DEF MuxSpec, NoRunt

------------------------------------------------------------------------------
(* The divider: rising edges seen are N/2 times the output, and the count. *)
LEMMA QuotientUnique ==
    ASSUME NEW d \in Nat \ {0}, NEW q \in Int, NEW r \in 0..(d - 1)
    PROVE  (d * q + r) \div d = q
  BY SMT

Half == n \div 2
DividerInv ==
    /\ n \in Nat /\ Half \in Nat \ {0} /\ n = 2 * Half
    /\ divider \in [count : 0..(Half - 1), previous_clock : {0, 1},
                    output : {0, 1}]
    /\ edges = Half * divider.output + divider.count

LEMMA DividerInitially == DividerInit => DividerInv
<1> SUFFICES ASSUME DividerInit PROVE DividerInv
  OBVIOUS
<1>1. n \in Nat /\ n >= 2 /\ n % 2 = 0
  BY ClockAssumption DEF DividerInit
<1>2. Half \in Int /\ n = 2 * Half
  BY <1>1, DivisionForm DEF Half
<1> QED
  BY <1>1, <1>2 DEF DividerInit, DividerInv

LEMMA DividerInductive == DividerInv /\ [DividerNext]_dividerVars => DividerInv'
<1> SUFFICES ASSUME DividerInv, [DividerNext]_dividerVars PROVE DividerInv'
  OBVIOUS
<1>1. ASSUME NEW clk_in \in {0, 1}, div_n(clk_in) PROVE DividerInv'
  <2> DEFINE h == Half
             o == divider.output
             c == divider.count
  <2>1. /\ h \in Nat \ {0} /\ n = 2 * h /\ n \in Nat \ {0} /\ o \in {0, 1}
        /\ c \in 0..(h - 1) /\ edges = h * o + c
    BY DEF DividerInv
  <2>2. n' = n /\ Half' = h
    BY <1>1 DEF div_n, Half
  <2>3. CASE ~rising(clk_in)
    <3>1. ~(clk_in > divider.previous_clock)
      BY <2>3 DEF rising, DividerInv
    <3>2. divider' = [count |-> c, previous_clock |-> clk_in, output |-> o]
      BY <1>1, <2>1, <2>3 DEF div_n
    <3>3. edges' = edges
      BY <1>1, <3>1 DEF div_n
    <3> QED
      BY <2>1, <2>2, <3>2, <3>3 DEF DividerInv
  <2>4. CASE rising(clk_in) /\ c + 1 < h
    <3>1. divider' = [count |-> c + 1, previous_clock |-> clk_in, output |-> o]
      BY <1>1, <2>1, <2>4 DEF div_n, Half
    <3>2. edges' = (edges + 1) % n
      BY <1>1, <2>4 DEF div_n, rising
    <3>3. edges + 1 \in 0..(n - 1) /\ edges + 1 = n * 0 + (edges + 1)
      BY <2>1, <2>4
    <3>4. (n * 0 + (edges + 1)) % n = edges + 1
      BY <2>1, <3>3, RemainderUnique, 0 \in Int
    <3>5. edges' = edges + 1
      BY <3>2, <3>3, <3>4
    <3> QED
      BY <2>1, <2>2, <2>4, <3>1, <3>5 DEF DividerInv
  <2>5. CASE rising(clk_in) /\ ~(c + 1 < h)
    <3>1. divider' = [count |-> 0, previous_clock |-> clk_in, output |-> 1 - o]
      BY <1>1, <2>1, <2>5 DEF div_n, Half
    <3>2. edges' = (edges + 1) % n
      BY <1>1, <2>5 DEF div_n, rising
    <3>3. edges' = h * (1 - o)
      <4>1. CASE o = 0
        <5>1. edges + 1 = n * 0 + h /\ h \in 0..(n - 1)
          BY <2>1, <2>5, <4>1
        <5>2. (n * 0 + h) % n = h
          BY <2>1, <5>1, RemainderUnique, 0 \in Int
        <5> QED
          BY <2>1, <3>2, <4>1, <5>1, <5>2
      <4>2. CASE o = 1
        <5>1. edges + 1 = n * 1 + 0 /\ 0 \in 0..(n - 1)
          BY <2>1, <2>5, <4>2
        <5>2. (n * 1 + 0) % n = 0
          BY <2>1, <5>1, RemainderUnique, 1 \in Int
        <5> QED
          BY <2>1, <3>2, <4>2, <5>1, <5>2
      <4> QED
        BY <2>1, <4>1, <4>2
    <3> QED
      BY <2>1, <2>2, <3>1, <3>3 DEF DividerInv
  <2> QED
    BY <2>3, <2>4, <2>5
<1>2. CASE UNCHANGED dividerVars
  BY <1>2 DEF dividerVars, DividerInv, Half
<1> QED
  BY <1>1, <1>2 DEF DividerNext

(* Every even divisor divides exactly, however levels are sampled.         *)
THEOREM DividerExact == DividerSpec => []DividesByN
<1>1. DividerInv => DividesByN
  <2> SUFFICES ASSUME DividerInv PROVE DividesByN
    OBVIOUS
  <2>1. /\ Half \in Nat \ {0} /\ divider.output \in Int
        /\ divider.count \in 0..(Half - 1)
        /\ edges = Half * divider.output + divider.count
    BY DEF DividerInv
  <2>2. (Half * divider.output + divider.count) \div Half = divider.output
    BY <2>1, QuotientUnique
  <2> QED
    BY <2>1, <2>2 DEF DividesByN, Half
<1> QED
  BY <1>1, DividerInitially, DividerInductive, PTL DEF DividerSpec

------------------------------------------------------------------------------
(* Reset release.                                                          *)
ResetInv ==
    /\ order \in [Domains -> Int]
    /\ dom_rst \in [Domains -> {0, 1}]
    /\ ReleasedInOrder

(* An order without a bad entry names every domain: n different numbers    *)
(* below n are all of them.                                                *)
LEMMA GoodOrderIsOnto ==
    ASSUME order \in [Domains -> Int], ~bad_order
    PROVE  EachOnce
<1>1. order \in [Domains -> Domains]
  BY DEF bad_order
<1>2. \A i, j \in Domains : order[i] = order[j] => i = j
  BY ClockAssumption DEF bad_order, Domains
<1>3. order \in Injection(Domains, Domains)
  BY <1>1, <1>2 DEF Injection, IsInjective
<1>4. IsFiniteSet(Domains)
  BY ClockAssumption, FS_Interval DEF Domains
<1>5. order \in Surjection(Domains, Domains)
  BY <1>3, <1>4, FS_Injection
<1> QED
  BY <1>1, <1>5 DEF Surjection, EachOnce

LEMMA ResetInductive == ResetInv /\ [ResetNext]_resetVars => ResetInv'
<1> SUFFICES ASSUME ResetInv, [ResetNext]_resetVars PROVE ResetInv'
  OBVIOUS
<1>1. ASSUME NEW step \in Domains, reset_seq(step) PROVE ResetInv'
  <2>1. /\ order' = order /\ ~bad_order
        /\ dom_rst' = [dom_rst EXCEPT ![order[step]] = 0]
        /\ \A prior \in Domains : prior < step => dom_rst[order[prior]] = 0
    BY <1>1 DEF reset_seq
  <2>2. EachOnce /\ EachOnce' /\ order[step] \in Domains
    BY <2>1, GoodOrderIsOnto DEF ResetInv, EachOnce, bad_order
  <2>3. dom_rst' \in [Domains -> {0, 1}]
    BY <2>1 DEF ResetInv
  <2>4. PICK k \in 0..NDomains :
            {d \in Domains : dom_rst[d] = 0} = {order[i] : i \in 0..(k - 1)}
    BY DEF ResetInv, ReleasedInOrder
  <2>5. {d \in Domains : dom_rst'[d] = 0}
            = {d \in Domains : dom_rst[d] = 0} \union {order[step]}
    BY <2>1, <2>2 DEF ResetInv
  <2>6. CASE step < k
    <3>1. {d \in Domains : dom_rst'[d] = 0} = {order[i] : i \in 0..(k - 1)}
      BY <2>4, <2>5, <2>6 DEF Domains
    <3> QED
      BY <2>1, <2>2, <2>3, <3>1 DEF ResetInv, ReleasedInOrder
  <2>7. CASE ~(step < k)
    <3>1. step = k
      <4>1. SUFFICES ASSUME k < step PROVE FALSE
        BY <2>7 DEF Domains
      <4>2. k \in Domains /\ dom_rst[order[k]] = 0 /\ order[k] \in Domains
        BY <2>1, <4>1, ClockAssumption DEF Domains, bad_order
      <4>3. PICK i \in 0..(k - 1) : order[k] = order[i]
        BY <2>4, <4>2
      <4> QED
        BY <2>1, <4>2, <4>3, ClockAssumption DEF Domains, bad_order
    <3>2. {order[i] : i \in 0..k} = {order[i] : i \in 0..(k - 1)} \union {order[k]}
      OBVIOUS
    <3>3. {d \in Domains : dom_rst'[d] = 0} = {order[i] : i \in 0..((k + 1) - 1)}
      BY <2>4, <2>5, <3>1, <3>2
    <3>4. k + 1 \in 0..NDomains
      BY <3>1, ClockAssumption DEF Domains
    <3> QED
      BY <2>1, <2>2, <2>3, <3>3, <3>4 DEF ResetInv, ReleasedInOrder
  <2> QED
    BY <2>6, <2>7
<1>2. CASE UNCHANGED resetVars
  BY <1>2 DEF resetVars, ResetInv, ReleasedInOrder, EachOnce
<1> QED
  BY <1>1, <1>2 DEF ResetNext

(* For any number of domains and any array given as their order, resets    *)
(* are released in that order or not at all.                               *)
THEOREM ResetsReleasedInOrder == ResetSpec => []ReleasedInOrder
<1>1. ResetInit => ResetInv
  <2> SUFFICES ASSUME ResetInit PROVE ResetInv
    OBVIOUS
  <2>1. {d \in Domains : dom_rst[d] = 0} = {order[i] : i \in 0..(0 - 1)}
    BY DEF ResetInit
  <2>2. 0 \in 0..NDomains
    BY ClockAssumption
  <2> QED
    BY <2>1, <2>2, ClockAssumption DEF ResetInit, ResetInv, ReleasedInOrder
<1>2. ResetInv => ReleasedInOrder
  BY DEF ResetInv
<1> QED
  BY <1>1, <1>2, ResetInductive, PTL DEF ResetSpec

------------------------------------------------------------------------------
(* The poll.  While it goes on every read was too early, so neither turn   *)
(* in which the loop itself plays the device is more than just past.       *)
PollInv ==
    /\ program.tries \in Nat /\ program.before \in Nat /\ program.after \in Nat
    /\ reads \in Nat /\ misses \in Nat /\ reads <= program.tries
    /\ verdict \in {"polling", "ready", "timeout"}
    /\ verdict = "polling" =>
          /\ reads <= program.before /\ reads <= program.after + 1
          /\ reads = program.after + 1 => program.mask \subseteq status
    /\ PollVerdictExact

LEMMA PollInitially == PollInit => PollInv
<1> SUFFICES ASSUME PollInit PROVE PollInv
  OBVIOUS
<1>1. program.tries \in Nat /\ program.before \in Nat /\ program.after \in Nat
  <2> DEFINE Fit(p) == p.tries \in Nat /\ p.before \in Nat /\ p.after \in Nat
  <2>1. Fit(csr_init) /\ Fit(csr_init_draft)
    BY DEF csr_init, csr_init_draft, Program, Never
  <2>2. ASSUME NEW t \in Tries
        PROVE  /\ Fit(poll_ready(t)) /\ Fit(wait_for_bits_set(t))
               /\ Fit(wait_for_bit_set(t))
    BY PollAssumption DEF poll_ready, wait_for_bits_set, wait_for_bit_set,
                          Program, Never
  <2> HIDE DEF Fit
  <2>3. Fit(program)
    BY <2>1, <2>2 DEF PollInit, Programs
  <2> QED
    BY <2>3 DEF Fit
<1> QED
  BY <1>1 DEF PollInit, PollInv, PollVerdictExact

LEMMA PollInductive == PollInv /\ [PollNext]_pollVars => PollInv'
<1> SUFFICES ASSUME PollInv, [PollNext]_pollVars PROVE PollInv'
  OBVIOUS
<1> USE DEF PollInv, PollVerdictExact
<1>1. CASE FieldWrite
  BY <1>1 DEF FieldWrite
<1>2. CASE Turn
  <2> DEFINE seen == IF reads = program.before THEN status \union program.mask
                                               ELSE status
  <2>1. /\ verdict = "polling" /\ reads < program.tries /\ reads' = reads + 1
        /\ verdict' = (IF is_ready(seen) THEN "ready" ELSE "polling")
        /\ status' = (IF ~is_ready(seen) /\ reads = program.after
                        THEN seen \union program.mask ELSE seen)
        /\ misses' = (IF program.mask \subseteq seen THEN misses ELSE misses + 1)
        /\ program' = program
    BY <1>2 DEF Turn
  <2>2. CASE program.mask \subseteq seen
    BY <2>1, <2>2 DEF is_ready
  <2>3. CASE ~(program.mask \subseteq seen)
    <3>1. reads # program.before /\ reads # program.after + 1
      BY <2>1, <2>3
    <3>2. reads' <= program.before /\ reads' <= program.after + 1
      BY <2>1, <3>1
    <3>3. reads' = program.after + 1 => program.mask \subseteq status'
      BY <2>1, <2>3 DEF is_ready
    <3> QED
      BY <2>1, <2>3, <3>2, <3>3 DEF is_ready
  <2> QED
    BY <2>2, <2>3
<1>3. CASE GiveUp
  BY <1>3 DEF GiveUp
<1>4. ASSUME NEW bit \in program.mask, DeviceRaises(bit) PROVE PollInv'
  BY <1>4 DEF DeviceRaises
<1>5. CASE UNCHANGED pollVars
  BY <1>5 DEF pollVars
<1> QED
  BY <1>1, <1>2, <1>3, <1>4, <1>5 DEF PollNext

(* For any budgets of reads, and a device that raises its bits whenever it *)
(* likes, the verdict of the poll is exact.                                *)
THEOREM VerdictExact == PollSpec => []PollVerdictExact
<1>1. PollInv => PollVerdictExact
  BY DEF PollInv
<1> QED
  BY <1>1, PollInitially, PollInductive, PTL DEF PollSpec

------------------------------------------------------------------------------
(* The control register.  What has been written to it so far is a prefix of *)
(* the function's masked writes, before and after the poll.                *)
MaskedWrites == (SUBSET AllBits) \X (SUBSET AllBits)

ControlInv ==
    /\ program.setup \in Seq(MaskedWrites) /\ program.wrapup \in Seq(MaskedWrites)
    /\ written \in 0..Len(Writes)
    /\ ControlAsWritten

LEMMA ControlInitially == PollInit => ControlInv
<1> SUFFICES ASSUME PollInit PROVE ControlInv
  OBVIOUS
<1> DEFINE Typed(p) == /\ p.setup \in Seq(MaskedWrites)
                       /\ p.wrapup \in Seq(MaskedWrites)
<1>1. /\ AllBits \in SUBSET AllBits /\ {} \in SUBSET AllBits
      /\ EN \in SUBSET AllBits /\ START \in SUBSET AllBits
      /\ RESET \in SUBSET AllBits /\ MODE \in SUBSET AllBits
      /\ MODE_INIT \in SUBSET AllBits
  BY DEF AllBits, EN, START, RESET, MODE, MODE_INIT
<1>6. \A a, b \in SUBSET AllBits : <<a, b>> \in MaskedWrites
  BY DEF MaskedWrites
<1>7. <<>> \in Seq(MaskedWrites)
      /\ \A v, w \in MaskedWrites : <<v, w>> \in Seq(MaskedWrites)
  OBVIOUS
<1>8. /\ {<<EN, EN>>, <<MODE, MODE_INIT>>, <<EN, {}>>} \subseteq MaskedWrites
      /\ {<<AllBits, RESET>>, <<AllBits, {}>>, <<START, START>>}
             \subseteq MaskedWrites
  BY <1>1, <1>6
<1>2. Typed(csr_init) /\ Typed(csr_init_draft)
  BY <1>7, <1>8 DEF csr_init, csr_init_draft, Program
<1>3. ASSUME NEW t \in Tries
      PROVE  /\ Typed(poll_ready(t)) /\ Typed(wait_for_bits_set(t))
             /\ Typed(wait_for_bit_set(t))
  BY <1>7, <1>8 DEF poll_ready, wait_for_bits_set, wait_for_bit_set, Program
<1>4. Typed(program)
  <2> HIDE DEF Typed
  <2> QED
    BY <1>2, <1>3 DEF PollInit, Programs
<1>5. /\ written = 0 /\ ctrl0 = ctrl /\ Writes = program.setup
      /\ \A bit \in AllBits : WrittenTo(bit) = {}
  BY DEF PollInit, Writes, WrittenTo
<1> QED
  BY <1>4, <1>5 DEF ControlInv, ControlAsWritten

LEMMA WritesTyped ==
    ASSUME ControlInv
    PROVE  Writes \in Seq(MaskedWrites) /\ Len(Writes) \in Nat
<1>1. program.setup \in Seq(MaskedWrites) /\ program.wrapup \in Seq(MaskedWrites)
  BY DEF ControlInv
<1>2. program.setup \o program.wrapup \in Seq(MaskedWrites)
  BY <1>1
<1>3. Writes \in Seq(MaskedWrites)
  BY <1>1, <1>2 DEF Writes
<1> QED
  BY <1>3

(* A step that writes nothing keeps the invariant, if the writes made so   *)
(* far stay what they were.                                                *)
LEMMA NothingWritten ==
    ASSUME ControlInv, UNCHANGED <<program, written, ctrl, ctrl0>>,
           Len(Writes) <= Len(Writes'), Writes' \in Seq(MaskedWrites),
           \A k \in 1..written : Writes'[k] = Writes[k]
    PROVE  ControlInv'
<1>1. \A bit \in AllBits : WrittenTo(bit)' = WrittenTo(bit)
  BY DEF WrittenTo
<1>2. \A bit \in AllBits : \A k \in WrittenTo(bit) : Writes'[k] = Writes[k]
  BY DEF WrittenTo
<1>3. ControlAsWritten'
  BY <1>1, <1>2 DEF ControlInv, ControlAsWritten
<1>4. Len(Writes) \in Nat /\ Len(Writes') \in Nat
  BY WritesTyped
<1>5. written' \in 0..Len(Writes')
  BY <1>4 DEF ControlInv
<1> QED
  BY <1>3, <1>5 DEF ControlInv

LEMMA ControlInductive == ControlInv /\ [PollNext]_pollVars => ControlInv'
<1> SUFFICES ASSUME ControlInv, [PollNext]_pollVars PROVE ControlInv'
  OBVIOUS
<1> USE DEF ControlInv
<1>1. Writes \in Seq(MaskedWrites) /\ Len(Writes) \in Nat
  BY WritesTyped
<1>2. CASE FieldWrite
  <2> DEFINE k == written + 1
             mask == Writes[k][1]
             value == Writes[k][2]
  <2>1. /\ k \in 1..Len(Writes) /\ written' = k /\ Writes' = Writes
        /\ ctrl' = (ctrl \ mask) \union (value \intersect mask)
        /\ program' = program /\ ctrl0' = ctrl0
    <3>1. written \in 0..Len(Writes) /\ written < Len(Writes) /\ written' = k
      BY <1>2 DEF FieldWrite, ControlInv
    <3>2. ctrl' = reg_rmw(ctrl, mask, value) /\ program' = program
          /\ ctrl0' = ctrl0 /\ verdict' = verdict
      BY <1>2 DEF FieldWrite
    <3>3. Writes' = Writes
      BY <3>2 DEF Writes
    <3> QED
      BY <1>1, <3>1, <3>2, <3>3 DEF reg_rmw
  <2>2. ASSUME NEW bit \in AllBits
        PROVE  WrittenTo(bit)' = WrittenTo(bit)
                                   \union (IF bit \in mask THEN {k} ELSE {})
    BY <2>1 DEF WrittenTo
  <2>3. ASSUME NEW bit \in AllBits
        PROVE  bit \in ctrl' <=>
                 \/ WrittenTo(bit)' = {} /\ bit \in ctrl0'
                 \/ \E i \in WrittenTo(bit)' :
                       /\ bit \in Writes'[i][2]
                       /\ \A j \in WrittenTo(bit)' : j <= i
    <3>1. \A j \in WrittenTo(bit) : j \in Int /\ j < k
      BY <2>1 DEF WrittenTo
    <3>2. CASE bit \in mask
      <4>1. WrittenTo(bit)' = WrittenTo(bit) \union {k}
        BY <2>2, <3>2
      <4>2. \A i \in WrittenTo(bit)' :
               (\A j \in WrittenTo(bit)' : j <= i) <=> i = k
        <5>1. k \in Int
          BY <2>1
        <5> DEFINE before == WrittenTo(bit)
                   now == WrittenTo(bit)'
        <5>2. (\A j \in before : j \in Int /\ j < k) /\ now = before \union {k}
          BY <3>1, <4>1
        <5> HIDE DEF k, before, now
        <5>3. \A i \in now : (\A j \in now : j <= i) <=> i = k
          <6>1. ASSUME NEW i \in now, \A j \in now : j <= i PROVE i = k
            <7>1. k <= i
              BY <5>2, <6>1
            <7> QED
              BY <5>1, <5>2, <7>1
          <6>2. \A j \in now : j <= k
            BY <5>1, <5>2
          <6> QED
            BY <6>1, <6>2
        <5> QED
          BY <5>3 DEF now
      <4>3. bit \in ctrl' <=> bit \in value
        BY <2>1, <3>2
      <4> HIDE DEF k
      <4> QED
        BY <2>1, <4>1, <4>2, <4>3
    <3>3. CASE bit \notin mask
      <4>1. WrittenTo(bit)' = WrittenTo(bit)
        BY <2>2, <3>3
      <4>2. bit \in ctrl' <=> bit \in ctrl
        BY <2>1, <3>3
      <4> QED
        BY <2>1, <4>1, <4>2 DEF ControlAsWritten
    <3> QED
      BY <3>2, <3>3
  <2> QED
    BY <2>1, <2>3 DEF ControlAsWritten
<1>3. CASE Turn
  <2>1. /\ verdict = "polling" /\ verdict' \in {"ready", "polling"}
        /\ written = Len(Writes)
        /\ UNCHANGED <<program, written, ctrl, ctrl0>>
    BY <1>3 DEF Turn
  <2>2. Writes = program.setup
        /\ Writes' \in {program.setup, program.setup \o program.wrapup}
    BY <2>1 DEF Writes
  <2>3. /\ Len(Writes) <= Len(Writes') /\ Writes' \in Seq(MaskedWrites)
        /\ \A k \in 1..written : Writes'[k] = Writes[k]
    <3> DEFINE setup == program.setup
               wrapup == program.wrapup
    <3>1. setup \in Seq(MaskedWrites) /\ wrapup \in Seq(MaskedWrites)
      BY DEF ControlInv
    <3>2. written = Len(setup) /\ Writes = setup /\ Writes' \in {setup, setup \o wrapup}
      BY <2>1, <2>2
    <3> HIDE DEF setup, wrapup
    <3>3. /\ Len(setup) <= Len(setup \o wrapup)
          /\ setup \o wrapup \in Seq(MaskedWrites)
          /\ \A k \in 1..Len(setup) : (setup \o wrapup)[k] = setup[k]
          /\ Len(setup) <= Len(setup)
      BY <3>1
    <3> QED
      BY <3>1, <3>2, <3>3
  <2> QED
    BY <2>1, <2>3, NothingWritten
<1>4. CASE GiveUp
  <2>1. UNCHANGED <<program, written, ctrl, ctrl0>> /\ Writes' = Writes
    BY <1>4 DEF GiveUp, Writes
  <2> QED
    BY <1>1, <2>1, NothingWritten
<1>5. ASSUME NEW bit \in program.mask, DeviceRaises(bit) PROVE ControlInv'
  <2>1. UNCHANGED <<program, written, ctrl, ctrl0>> /\ Writes' = Writes
    BY <1>5 DEF DeviceRaises, Writes
  <2> QED
    BY <1>1, <2>1, NothingWritten
<1>6. CASE UNCHANGED pollVars
  <2>1. UNCHANGED <<program, written, ctrl, ctrl0>> /\ Writes' = Writes
    BY <1>6 DEF pollVars, Writes
  <2> QED
    BY <1>1, <2>1, NothingWritten
<1> QED
  BY <1>2, <1>3, <1>4, <1>5, <1>6 DEF PollNext

(* Whatever the device does, and whatever the verdict, the control         *)
(* register holds the last value written to every field.                   *)
THEOREM ControlKept == PollSpec => []ControlAsWritten
<1>1. ControlInv => ControlAsWritten
  BY DEF ControlInv
<1> QED
  BY <1>1, ControlInitially, ControlInductive, PTL DEF PollSpec

------------------------------------------------------------------------------
(* Shifting a bit in below moves every digit up by one.                    *)
LEMMA ShiftedDigits ==
    ASSUME NEW v \in Nat, NEW e \in {0, 1}, NEW p \in 1..32
    PROVE  /\ (2 * v + e) % Power(p) \in 0..(Power(p) - 1)
           /\ Digit((2 * v + e) % Power(p), 0) = e
           /\ \A i \in 0..31 : i + 1 < p =>
                 Digit((2 * v + e) % Power(p), i + 1) = Digit(v, i)
<1> DEFINE x == 2 * v + e
           t == x \div Power(p)
           y == x % Power(p)
<1>1. x \in Nat /\ Power(p) \in Nat \ {0}
  BY PowerFacts, p \in 0..32
<1>2. t \in Int /\ y \in 0..(Power(p) - 1) /\ x = Power(p) * t + y
  BY <1>1, DivisionForm, x \in Int
<1>3. y \in Nat
  BY <1>1, <1>2
<1> HIDE DEF t, y
<1>4. Digit(y, 0) = e
  <2>1. PICK m \in Nat : Power(p) = Power(1) * m
    BY PowerMultiple, p \in 0..32, 1 \in 0..p
  <2>2. Power(0) = 1 /\ Power(1) = 2
    BY SMT DEF Power
  <2> DEFINE u == m * t
  <2>3. u \in Int /\ Power(p) * t = 2 * u
    BY <1>2, <2>1, <2>2
  <2> HIDE DEF u
  <2>4. y % 2 = e
    <3>1. y = 2 * (v - u) + e /\ v - u \in Int
      BY <1>2, <1>3, <2>3
    <3> QED
      BY <3>1, SMT
  <2>5. y \div 1 = y
    BY <1>3
  <2> QED
    BY <2>2, <2>4, <2>5 DEF Digit
<1>5. ASSUME NEW i \in 0..31, i + 1 < p PROVE Digit(y, i + 1) = Digit(v, i)
  <2> DEFINE q == v \div Power(i)
             r == v % Power(i)
  <2>1. /\ i \in 0..32 /\ i + 1 \in 0..31 /\ i < 32 /\ i + 2 \in 0..32 /\ i + 2 <= p
        /\ i + 1 \in 0..32 /\ i + 1 < 32 /\ (i + 1) + 1 = i + 2 /\ p \in 0..32
        /\ i + 2 \in 0..p
    BY <1>5
  <2>2. Power(i) \in Nat \ {0} /\ Power(i + 1) = 2 * Power(i)
    BY <2>1, PowerFacts
  <2>3. q \in Int /\ r \in 0..(Power(i) - 1) /\ v = Power(i) * q + r
    BY <2>2, DivisionForm, v \in Int
  <2>4. Power(i + 2) = 2 * Power(i + 1)
    BY <2>1, PowerFacts
  <2>5. PICK m \in Nat : Power(p) = Power(i + 2) * m
    BY <2>1, PowerMultiple
  <2> HIDE DEF q, r
  <2> DEFINE w == Power(i + 1)
             z == q - 2 * (m * t)
             s == 2 * r + e
  <2>6. w \in Nat \ {0} /\ s \in 0..(w - 1) /\ z \in Int
    BY <2>2, <2>3, <1>2
  <2>7. y = w * z + s
    <3>1. 2 * v + e = w * q + s
      BY <2>2, <2>3
    <3>2. Power(p) * t = w * (2 * (m * t))
      BY <2>4, <2>5, <2>6, <1>2
    <3>3. w * (q - 2 * (m * t)) = w * q - w * (2 * (m * t))
      BY <2>6, <2>3, <1>2
    <3> DEFINE g == w * q
               h == w * (2 * (m * t))
    <3>4. g \in Int /\ h \in Int /\ s \in Int
      BY <2>6, <2>3, <1>2
    <3>5. 2 * v + e = g + s /\ Power(p) * t = h /\ w * z = g - h
      BY <3>1, <3>2, <3>3
    <3>6. 2 * v + e = Power(p) * t + y
      BY <1>2
    <3> HIDE DEF g, h, s, z, w
    <3>7. g + s = h + y
      BY <3>5, <3>6
    <3>8. y = (g - h) + s
      BY <3>4, <3>7, <1>3
    <3> QED
      BY <3>5, <3>8
  <2> HIDE DEF w, s
  <2>8. z % 2 = q % 2
    BY <2>3, <1>2, SMT
  <2> HIDE DEF z
  <2>9. y \div w = z
    BY <2>6, <2>7, SMT
  <2> QED
    BY <2>8, <2>9 DEF Digit, w, q
<1> QED
  BY <1>2, <1>4, <1>5 DEF y

(* A word is determined by its digits.                                     *)
LEMMA SameDigits ==
    ASSUME NEW p \in 1..32, NEW a \in 0..(Power(p) - 1), NEW b \in 0..(Power(p) - 1),
           \A i \in 0..(p - 1) : Digit(a, i) = Digit(b, i)
    PROVE  a = b
<1> DEFINE bad == {i \in 0..p : Low(a, i) # Low(b, i)}
<1>1. Power(p) \in Nat \ {0} /\ a \in Nat /\ b \in Nat
  BY PowerFacts, p \in 0..32
<1>2. Low(a, 0) = 0 /\ Low(b, 0) = 0
  <2>1. Power(0) = 1
    BY SMT DEF Power
  <2> QED
    BY <2>1, <1>1 DEF Low
<1>3. ASSUME bad # {} PROVE FALSE
  <2>1. bad \in SUBSET Nat
    OBVIOUS
  <2>2. PICK j \in bad : \A l \in bad : j <= l
    BY <1>3, <2>1, LeastNatural
  <2>3. j \in 0..p /\ Low(a, j) # Low(b, j) /\ j # 0
    BY <1>2
  <2>4. /\ j - 1 \in 0..(p - 1) /\ j - 1 \in 0..p /\ j - 1 \in 0..31
        /\ ~(j <= j - 1) /\ (j - 1) + 1 = j
    BY <2>3
  <2>5. Low(a, j - 1) = Low(b, j - 1)
    BY <2>2, <2>4
  <2>6. Digit(a, j - 1) = Digit(b, j - 1)
    BY <2>4
  <2> HIDE DEF bad
  <2>7. /\ Low(a, j) = Power(j - 1) * Digit(a, j - 1) + Low(a, j - 1)
        /\ Low(b, j) = Power(j - 1) * Digit(b, j - 1) + Low(b, j - 1)
    BY <1>1, <2>4, DigitFacts
  <2> QED
    BY <2>3, <2>5, <2>6, <2>7
<1>4. Low(a, p) = Low(b, p)
  BY <1>3, p \in 0..p
<1>5. Low(a, p) = a /\ Low(b, p) = b
  BY <1>1, SMT DEF Low
<1> QED
  BY <1>4, <1>5

------------------------------------------------------------------------------
(* The window holds the last bits, the newest lowest, zeros before the     *)
(* first; `end` is behind the last place marked without overlap, and no    *)
(* place marked is a pattern's length before it or later.                  *)
WindowTrue ==
    /\ window \in 0..(Power(plen) - 1)
    /\ \A i \in 0..(plen - 1) :
          Digit(window, i) = IF i < Len(bits) THEN bits[Len(bits) - i] ELSE 0

MarkedTrue ==
    /\ detected = {e \in plen..Len(bits) : MatchesAt(bits, e)}
    /\ matched = detected

DisjointTrue ==
    /\ end \in Nat /\ disjoint \subseteq detected
    /\ \A d \in disjoint : d <= end - plen
    /\ end - plen \in disjoint \/ (end = plen /\ disjoint = {})
    /\ \A a, b \in disjoint : a < b => b - a >= plen
    /\ \A e \in detected : \E d \in disjoint : d <= e /\ e - d < plen

SeqTypes ==
    plen \in 1..32 /\ pattern \in 0..(Power(plen) - 1) /\ bits \in Seq({0, 1})

SeqInv == SeqTypes /\ WindowTrue /\ MarkedTrue /\ DisjointTrue

LEMMA SeqInitially ==
    ASSUME ExtraBits = 0
    PROVE  SeqInit => SeqInv
<1> SUFFICES ASSUME SeqInit PROVE SeqInv
  OBVIOUS
<1>1. /\ plen \in 1..32 /\ pattern \in 0..(2^(plen + ExtraBits) - 1) /\ bits = <<>>
      /\ detected = {} /\ disjoint = {} /\ end = plen /\ window = 0 /\ matched = {}
  BY SeqAssumption DEF SeqInit
<1>2. bits \in Seq({0, 1}) /\ Len(bits) = 0
  BY <1>1
<1>3. SeqTypes
  <2>1. plen + ExtraBits = plen
    BY <1>1
  <2> QED
    BY <1>1, <1>2, <2>1 DEF SeqTypes, Power
<1>4. Power(plen) \in Nat \ {0}
  BY <1>1, PowerFacts, plen \in 0..32
<1>5. WindowTrue
  <2>1. ASSUME NEW i \in 0..(plen - 1) PROVE Digit(window, i) = 0
    <3>0. i \in 0..32
      BY <1>1
    <3>1. Power(i) \in Nat \ {0}
      BY <3>0, PowerFacts
    <3>2. 0 \div Power(i) = 0
      BY <3>1, SMT
    <3> QED
      BY <3>2, <1>1 DEF Digit
  <2>2. \A i \in 0..(plen - 1) : ~(i < Len(bits))
    BY <1>1, <1>2
  <2>3. window \in 0..(Power(plen) - 1)
    BY <1>1, <1>4
  <2> QED
    BY <2>1, <2>2, <2>3 DEF WindowTrue
<1>6. MarkedTrue
  BY <1>1, <1>2 DEF MarkedTrue
<1>7. DisjointTrue
  BY <1>1 DEF DisjointTrue
<1> QED
  BY <1>3, <1>5, <1>6, <1>7 DEF SeqInv

(* A pattern's bits, in the order of the stream, are its digits downwards. *)
LEMMA MatchIsDigits ==
    ASSUME plen \in 1..32, NEW q, NEW e \in Nat, e >= plen
    PROVE  MatchesAt(q, e) <=> \A i \in 0..(plen - 1) : q[e - i] = Digit(pattern, i)
<1>1. \A bit \in 0..(plen - 1) : PatternBit(bit) = Digit(pattern, plen - 1 - bit)
  BY DEF PatternBit, Digit, Power
<1>2. ASSUME MatchesAt(q, e), NEW i \in 0..(plen - 1)
      PROVE  q[e - i] = Digit(pattern, i)
  <2>1. /\ plen - 1 - i \in 0..(plen - 1) /\ plen - 1 - (plen - 1 - i) = i
        /\ e - plen + 1 + (plen - 1 - i) = e - i
    OBVIOUS
  <2> QED
    BY <1>1, <1>2, <2>1 DEF MatchesAt
<1>3. ASSUME \A i \in 0..(plen - 1) : q[e - i] = Digit(pattern, i)
      PROVE  MatchesAt(q, e)
  <2>1. ASSUME NEW bit \in 0..(plen - 1)
        PROVE  q[e - plen + 1 + bit] = PatternBit(bit)
    <3>1. plen - 1 - bit \in 0..(plen - 1) /\ e - (plen - 1 - bit) = e - plen + 1 + bit
      OBVIOUS
    <3> QED
      BY <1>1, <1>3, <3>1
  <2> QED
    BY <2>1 DEF MatchesAt
<1> QED
  BY <1>2, <1>3

(* Whether a word ends at a place is settled when its last bit arrives.    *)
LEMMA MatchIsSettled ==
    ASSUME plen \in 1..32, bits \in Seq({0, 1}), NEW b \in {0, 1},
           NEW e \in plen..Len(bits)
    PROVE  MatchesAt(Append(bits, b), e) <=> MatchesAt(bits, e)
<1>1. \A k \in 1..Len(bits) : Append(bits, b)[k] = bits[k]
  BY AppendFacts
<1>2. \A bit \in 0..(plen - 1) : e - plen + 1 + bit \in 1..Len(bits)
  BY Len(bits) \in Nat
<1> QED
  BY <1>1, <1>2 DEF MatchesAt, PatternBit

(* The digits of the window after a bit.                                   *)
LEMMA WindowStep ==
    ASSUME SeqTypes, WindowTrue, NEW bit \in {0, 1}, Feed(bit)
    PROVE  WindowTrue'
<1>1. /\ plen' = plen /\ bits' = Append(bits, bit)
      /\ window' = (2 * window + bit) % Power(plen)
  BY DEF Feed, win_match, Power
<1>2. plen \in 1..32 /\ bits \in Seq({0, 1}) /\ Power(plen) \in Nat \ {0}
      /\ window \in Nat
  <2>1. plen \in 1..32 /\ plen \in 0..32
    BY DEF SeqTypes
  <2>2. Power(plen) \in Nat \ {0}
    BY <2>1, PowerFacts
  <2> QED
    BY <2>1, <2>2 DEF SeqTypes, WindowTrue
<1>3. PICK len \in Nat : len = Len(bits)
  BY <1>2
<1>4. /\ Len(bits') = len + 1 /\ bits'[len + 1] = bit
      /\ \A k \in 1..len : bits'[k] = bits[k]
  BY <1>1, <1>2, <1>3, AppendFacts
<1>5. /\ window' \in 0..(Power(plen) - 1) /\ Digit(window', 0) = bit
      /\ \A i \in 0..31 : i + 1 < plen => Digit(window', i + 1) = Digit(window, i)
  BY <1>1, <1>2, ShiftedDigits, ZenonT(60)
<1>6. ASSUME NEW i \in 0..(plen - 1)
      PROVE  Digit(window', i) = IF i < len + 1 THEN bits'[len + 1 - i] ELSE 0
  <2>1. CASE i = 0
    BY <2>1, <1>3, <1>4, <1>5
  <2>2. CASE i # 0
    <3>1. /\ i - 1 \in 0..31 /\ i - 1 \in 0..(plen - 1) /\ (i - 1) + 1 = i /\ i < plen
          /\ len + 1 - i = len - (i - 1) /\ (i - 1 < len <=> i < len + 1)
      BY <2>2, <1>2
    <3>2. Digit(window', i) = Digit(window, i - 1)
      BY <1>5, <3>1
    <3>3. Digit(window, i - 1) = IF i - 1 < len THEN bits[len - (i - 1)] ELSE 0
      BY <1>3, <3>1 DEF WindowTrue
    <3>4. CASE i - 1 < len
      <4>1. len - (i - 1) \in 1..len
        BY <3>1, <3>4
      <4>2. bits'[len - (i - 1)] = bits[len - (i - 1)]
        BY <4>1, <1>4
      <4> QED
        BY <4>2, <3>1, <3>2, <3>3, <3>4
    <3>5. CASE ~(i - 1 < len)
      BY <3>5, <3>1, <3>2, <3>3
    <3> QED
      BY <3>4, <3>5
  <2> QED
    BY <2>1, <2>2
<1>7. \A i \in 0..(plen - 1) :
          Digit(window', i) = IF i < Len(bits') THEN bits'[Len(bits') - i] ELSE 0
  BY <1>4, <1>6
<1> QED
  BY <1>1, <1>5, <1>7 DEF WindowTrue, Power, Digit

LEMMA SeqInductive == SeqInv /\ [SeqNext]_seqVars => SeqInv'
<1> SUFFICES ASSUME SeqInv, [SeqNext]_seqVars PROVE SeqInv'
  OBVIOUS
<1>1. CASE UNCHANGED seqVars
  BY <1>1 DEF SeqInv, SeqTypes, WindowTrue, MarkedTrue, DisjointTrue, MatchesAt,
     PatternBit, seqVars
<1>2. ASSUME NEW bit \in {0, 1}, Feed(bit) PROVE SeqInv'
  <2>1. /\ plen \in 1..32 /\ pattern \in 0..(Power(plen) - 1) /\ bits \in Seq({0, 1})
        /\ plen \in Nat
    BY DEF SeqInv, SeqTypes
  <2>2. plen' = plen /\ pattern' = pattern /\ bits' = Append(bits, bit)
    BY <1>2 DEF Feed
  <2>3. PICK len \in Nat : len = Len(bits)
    BY <2>1
  <2> DEFINE last == len + 1
  <2>5. bits' \in Seq({0, 1}) /\ Len(bits') = last
    BY <2>1, <2>2, <2>3, AppendFacts
  <2>6. SeqTypes'
    BY <2>1, <2>2, <2>5 DEF SeqTypes
  <2>7. WindowTrue'
    BY <1>2, WindowStep DEF SeqInv
  <2> DEFINE match == MatchesAt(bits', last)
  <2>8. \A e : MatchesAt(bits, e)' <=> MatchesAt(bits', e)
    BY <2>2 DEF MatchesAt, PatternBit
  <2>9. \A e \in plen..len : MatchesAt(bits', e) <=> MatchesAt(bits, e)
    BY <2>1, <2>2, <2>3, MatchIsSettled
  <2>10. match => last >= plen
    BY DEF MatchesAt
  <2>11. detected' = IF match THEN detected \cup {last} ELSE detected
    BY <1>2, <2>5 DEF Feed, seq_detect
  <2>12. MarkedTrue'
    <3>1. detected = {e \in plen..len : MatchesAt(bits, e)} /\ matched = detected
      BY <2>3 DEF SeqInv, MarkedTrue
    <3>2. \A e : e \in plen..last <=> e \in plen..len \/ (e = last /\ last >= plen)
      BY <2>1
    <3>3. detected' = {e \in plen..last : MatchesAt(bits', e)}
      <4> HIDE DEF last
      <4> QED
        BY <3>1, <3>2, <2>9, <2>10, <2>11
    <3>4. detected' = {e \in plen'..Len(bits') : MatchesAt(bits, e)'}
      BY <3>3, <2>2, <2>5, <2>8
    <3>5. matched' = IF last >= plen /\ window' = pattern THEN matched \cup {last}
                                                         ELSE matched
      BY <1>2, <2>5 DEF Feed, win_match
    <3>6. ASSUME last >= plen PROVE window' = pattern <=> match
      <4>1. match <=> \A i \in 0..(plen - 1) : bits'[last - i] = Digit(pattern, i)
        BY <3>6, <2>1, MatchIsDigits, last \in Nat
      <4>2. /\ window' \in 0..(Power(plen) - 1)
            /\ \A i \in 0..(plen - 1) :
                  Digit(window', i) = IF i < last THEN bits'[last - i] ELSE 0
        BY <2>2, <2>5, <2>7 DEF WindowTrue, Power, Digit
      <4>3. \A i \in 0..(plen - 1) : i < last
        BY <3>6, <2>1
      <4>4. \A i \in 0..(plen - 1) : Digit(window', i) = bits'[last - i]
        BY <4>2, <4>3
      <4>5. ASSUME match PROVE window' = pattern
        <5>1. \A i \in 0..(plen - 1) : Digit(window', i) = Digit(pattern, i)
          BY <4>1, <4>4, <4>5
        <5> QED
          BY <5>1, <4>2, <2>1, SameDigits
      <4>6. ASSUME window' = pattern PROVE match
        BY <4>1, <4>4, <4>6
      <4> QED
        BY <4>5, <4>6
    <3>7. matched' = detected'
      BY <3>1, <3>5, <3>6, <2>10, <2>11
    <3> QED
      BY <3>4, <3>7 DEF MarkedTrue
  <2>13. DisjointTrue'
    <3>1. /\ end \in Nat /\ disjoint \subseteq detected
          /\ \A d \in disjoint : d <= end - plen
          /\ end - plen \in disjoint \/ (end = plen /\ disjoint = {})
          /\ \A a, b \in disjoint : a < b => b - a >= plen
          /\ \A e \in detected : \E d \in disjoint : d <= e /\ e - d < plen
      BY DEF SeqInv, DisjointTrue
    <3>2. \A d \in disjoint : d \in Nat /\ d <= len
      BY <3>1, <2>1, <2>3 DEF SeqInv, MarkedTrue
    <3>3. CASE last >= end /\ match
      <4>1. disjoint' = disjoint \cup {last} /\ end' = last + plen
        BY <1>2, <3>3, <2>5 DEF Feed, seq_detect, resume
      <4>2. detected' = detected \cup {last}
        BY <2>11, <3>3
      <4>3. \A d \in disjoint : d < last /\ last - d >= plen /\ d <= end' - plen
        BY <3>1, <3>2, <3>3, <4>1, <2>1, SMTT(60)
      <4>4. end' - plen = last /\ end' \in Nat
        BY <4>1, <2>1
      <4>5. \A a, b \in disjoint' : a < b => b - a >= plen
        BY <3>1, <3>2, <4>1, <4>3
      <4>6. \A e \in detected' : \E d \in disjoint' : d <= e /\ e - d < plen
        <5>1. last <= last /\ last - last < plen
          BY <2>1
        <5> HIDE DEF last
        <5> QED
          BY <5>1, <3>1, <4>1, <4>2
      <4>7. \A d \in disjoint' : d <= end' - plen
        BY <4>1, <4>3, <4>4
      <4> QED
        BY <3>1, <4>1, <4>2, <4>4, <4>5, <4>6, <4>7, <2>2 DEF DisjointTrue
    <3>4. CASE ~(last >= end /\ match)
      <4>1. disjoint' = disjoint /\ end' = end
        BY <1>2, <3>4, <2>5 DEF Feed, seq_detect
      <4>2. \A e \in detected' : \E d \in disjoint : d <= e /\ e - d < plen
        <5>1. CASE ~match
          BY <5>1, <2>11, <3>1
        <5>2. CASE match
          <6>1. last < end /\ last >= plen
            BY <5>2, <3>4, <2>10, <3>1
          <6>2. end - plen \in disjoint
            BY <6>1, <3>1
          <6>3. end - plen <= last /\ last - (end - plen) < plen
            BY <6>1, <6>2, <3>1, <3>2, <2>1
          <6> HIDE DEF last
          <6> QED
            BY <6>2, <6>3, <5>2, <2>11, <3>1
        <5> QED
          BY <5>1, <5>2
      <4>3. disjoint \subseteq detected'
        BY <3>1, <2>11
      <4> QED
        BY <3>1, <4>1, <4>2, <4>3, <2>2 DEF DisjointTrue
    <3> QED
      BY <3>3, <3>4
  <2> QED
    BY <2>6, <2>7, <2>12, <2>13 DEF SeqInv
<1> QED
  BY <1>1, <1>2 DEF SeqNext

(* The state is that of a machine started at the last fault; between an    *)
(* upset and the next step, and only there, it is illegal.                 *)
Histories == {<<>>, <<0>>, <<1>>, <<0, 0>>, <<0, 1>>, <<1, 0>>, <<1, 1>>}
SafeFsmInv ==
    /\ struck \in BOOLEAN
    /\ struck => illegal(fsm) /\ since = <<>>
    /\ since \in Histories /\ RecoversAfresh

(* The last two of a short history and the input after it.                 *)
LEMMA AfterOne ==
    ASSUME NEW a \in {0, 1}, NEW c \in {0, 1}, NEW s, s = <<a>>
    PROVE  LastTwo(Append(s, c)) = <<a, c>>
<1>1. s \in Seq({0, 1}) /\ Len(s) = 1 /\ s[1] = a
  OBVIOUS
<1>2. /\ Append(s, c) \in Seq({0, 1}) /\ Len(Append(s, c)) = 2
      /\ Append(s, c)[1] = a /\ Append(s, c)[2] = c
  BY <1>1
<1>3. \A q \in Seq({0, 1}) : Len(q) = 2 /\ q[1] = a /\ q[2] = c => q = <<a, c>>
  OBVIOUS
<1>4. Append(s, c) = <<a, c>>
  BY <1>2, <1>3
<1>5. Len(Append(s, c)) <= 2
  BY <1>2
<1> QED
  BY <1>4, <1>5 DEF LastTwo

LEMMA AfterTwo ==
    ASSUME NEW a \in {0, 1}, NEW b \in {0, 1}, NEW c \in {0, 1},
           NEW s, s = <<a, b>>
    PROVE  LastTwo(Append(s, c)) = <<b, c>>
<1> DEFINE t == Append(s, c)
           q == SubSeq(t, 2, 3)
<1>1. s \in Seq({0, 1}) /\ Len(s) = 2 /\ s[1] = a /\ s[2] = b
  OBVIOUS
<1>2. t \in Seq({0, 1}) /\ Len(t) = 3 /\ t[2] = b /\ t[3] = c
  BY <1>1
<1> HIDE DEF t
<1>3. LastTwo(t) = q
  BY <1>2 DEF LastTwo
<1>4. q \in Seq({0, 1}) /\ Len(q) = 2 /\ q[1] = b /\ q[2] = c
  BY <1>2
<1> HIDE DEF q
<1>5. q = <<b, c>>
  BY <1>4
<1> QED
  BY <1>3, <1>5 DEF t

LEMMA SafeFsmInductive == SafeFsmInv /\ [SafeFsmNext]_safeFsmVars => SafeFsmInv'
<1> SUFFICES ASSUME SafeFsmInv, [SafeFsmNext]_safeFsmVars PROVE SafeFsmInv'
  OBVIOUS
<1>1. CASE UNCHANGED safeFsmVars
  BY <1>1 DEF SafeFsmInv, RecoversAfresh, safeFsmVars, illegal
<1>2. ASSUME NEW state \in {-1, 3, 99}, Upset(state) PROVE SafeFsmInv'
  BY <1>2 DEF SafeFsmInv, RecoversAfresh, Upset, illegal, Histories
<1>3. ASSUME NEW in \in {0, 1}, NEW inject_illegal \in BOOLEAN,
             safe_fsm_step(in, inject_illegal)
      PROVE  SafeFsmInv'
  <2> DEFINE start == IF since = <<>> THEN 0
                      ELSE IF since[Len(since)] = 1 THEN 1
                      ELSE IF since = <<1, 0>> THEN 2 ELSE 0
  <2>1. ~struck => fsm = start
    BY DEF SafeFsmInv, RecoversAfresh
  <2>2. since \in Histories /\ (illegal(fsm) <=> struck)
    BY <2>1 DEF SafeFsmInv, illegal
  <2>3. struck' = FALSE
    BY <1>3 DEF safe_fsm_step
  <2>4. ASSUME since' \in Histories, fsm' = start' PROVE SafeFsmInv'
    BY <2>3, <2>4 DEF SafeFsmInv, RecoversAfresh
  <2>5. CASE inject_illegal \/ illegal(fsm)
    <3>1. fsm' = 0 /\ since' = <<>>
      BY <1>3, <2>2, <2>5 DEF safe_fsm_step
    <3> QED
      BY <2>4, <3>1 DEF Histories
  <2>6. CASE ~(inject_illegal \/ illegal(fsm))
    <3>1. /\ fsm' = IF in = 1 THEN 1 ELSE IF fsm = 1 THEN 2 ELSE 0
          /\ since' = LastTwo(Append(since, in)) /\ fsm = start
      BY <1>3, <2>1, <2>2, <2>6 DEF safe_fsm_step
    <3>2. CASE since = <<>>
      <4>1. LastTwo(Append(since, in)) = <<in>>
        BY <3>2 DEF LastTwo
      <4> QED
        BY <2>4, <4>1, <3>1, <3>2 DEF Histories
    <3>3. ASSUME NEW a \in {0, 1}, since = <<a>> PROVE SafeFsmInv'
      <4>1. LastTwo(Append(since, in)) = <<a, in>>
        BY <3>3, AfterOne
      <4>2. fsm = a
        BY <3>1, <3>3
      <4> QED
        BY <2>4, <4>1, <4>2, <3>1 DEF Histories
    <3>4. ASSUME NEW a \in {0, 1}, NEW b \in {0, 1}, since = <<a, b>> PROVE SafeFsmInv'
      <4>1. LastTwo(Append(since, in)) = <<b, in>>
        BY <3>4, AfterTwo
      <4>2. fsm = 1 <=> b = 1
        BY <3>1, <3>4
      <4> QED
        BY <2>4, <4>1, <4>2, <3>1 DEF Histories
    <3> QED
      BY <2>2, <3>2, <3>3, <3>4 DEF Histories
  <2> QED
    BY <2>5, <2>6
<1> QED
  BY <1>1, <1>2, <1>3 DEF SafeFsmNext

(* For any pattern of up to 32 bits that has no bit beyond them, both      *)
(* detectors mark the ends of all occurrences, however long the stream;    *)
(* not overlapping, those marked are disjoint and none is passed over that *)
(* shares no bit with one marked.  And the safe machine's step after any   *)
(* fault leads to 0, from where it goes on as if started anew.             *)
THEOREM DetectorsAreSound ==
    ASSUME ExtraBits = 0
    PROVE  SeqSpec /\ SafeFsmSpec => []DetectorsSound
<1>1. SeqInv => DetectsExactly
  <2> SUFFICES ASSUME SeqInv PROVE DetectsExactly
    OBVIOUS
  <2>1. plen \in 1..32 /\ bits \in Seq({0, 1}) /\ Len(bits) \in Nat
    BY DEF SeqInv, SeqTypes
  <2>2. ASSUME NEW e \in plen..Len(bits)
        PROVE  SubSeq(bits, e - plen + 1, e) = Word <=> MatchesAt(bits, e)
    <3> DEFINE sub == SubSeq(bits, e - plen + 1, e)
    <3>1. sub = [i \in 1..plen |-> bits[e - plen + i]]
      BY <2>1
    <3>2. ASSUME sub = Word PROVE MatchesAt(bits, e)
      <4>1. ASSUME NEW bit \in 0..(plen - 1)
            PROVE  bits[e - plen + 1 + bit] = PatternBit(bit)
        <5>1. /\ bit + 1 \in 1..plen /\ (bit + 1) - 1 = bit
              /\ e - plen + (bit + 1) = e - plen + 1 + bit
          BY <2>1
        <5>2. sub[bit + 1] = bits[e - plen + 1 + bit]
          BY <3>1, <5>1
        <5>3. Word[bit + 1] = PatternBit(bit)
          BY <5>1 DEF Word
        <5> QED
          BY <3>2, <5>2, <5>3
      <4> QED
        BY <4>1, <2>1 DEF MatchesAt
    <3>3. ASSUME MatchesAt(bits, e) PROVE sub = Word
      <4>1. ASSUME NEW i \in 1..plen PROVE bits[e - plen + i] = PatternBit(i - 1)
        <5>1. i - 1 \in 0..(plen - 1) /\ e - plen + 1 + (i - 1) = e - plen + i
          BY <2>1
        <5> QED
          BY <3>3, <5>1 DEF MatchesAt
      <4> QED
        BY <3>1, <4>1 DEF Word
    <3> QED
      BY <3>2, <3>3
  <2>3. detected = Occurrences
    BY <2>2 DEF SeqInv, MarkedTrue, Occurrences
  <2> QED
    BY <2>3 DEF SeqInv, MarkedTrue, DisjointTrue, DetectsExactly, AgreesWithOracle
<1>2. SafeFsmInv => RecoversAfresh
  BY DEF SafeFsmInv
<1>3. SafeFsmInit => SafeFsmInv
  BY DEF SafeFsmInit, SafeFsmInv, RecoversAfresh, Histories
<1>4. SeqSpec => []DetectsExactly
  BY <1>1, SeqInitially, SeqInductive, PTL DEF SeqSpec
<1>5. SafeFsmSpec => []RecoversAfresh
  BY <1>2, <1>3, SafeFsmInductive, PTL DEF SafeFsmSpec
<1>6. DetectsExactly /\ RecoversAfresh => DetectorsSound
  BY DEF DetectorsSound
<1> QED
  BY <1>4, <1>5, <1>6, PTL

------------------------------------------------------------------------------
(* The bits of a shifted word, and of a sum or a difference.               *)
LEMMA ShiftedIn ==
    ASSUME NEW width \in Nat, NEW word \in SUBSET Bits(width), NEW k \in Nat, NEW b
    PROVE  /\ b \in Shl(word, k, width) <=> b \in Bits(width) /\ b - k \in word
           /\ b \in Shr(word, k) <=> b \in Bits(width) /\ b + k \in word
           /\ Shl(word, k, width) \in SUBSET Bits(width)
           /\ Shr(word, k) \in SUBSET Bits(width)
<1>1. Shl(word, k, width) \in SUBSET Bits(width)
  BY DEF Shl
<1>2. b \in Shl(word, k, width) <=> b \in Bits(width) /\ b - k \in word
  <2>1. ASSUME b \in Shl(word, k, width) PROVE b \in Bits(width) /\ b - k \in word
    <3>1. PICK c \in word : b = c + k
      BY <2>1 DEF Shl
    <3>2. c \in Int /\ b - k = c
      BY <3>1 DEF Bits
    <3> QED
      BY <2>1, <3>2 DEF Shl
  <2>2. ASSUME b \in Bits(width), b - k \in word PROVE b \in Shl(word, k, width)
    <3>1. b = (b - k) + k
      BY <2>2 DEF Bits
    <3> QED
      BY <2>2, <3>1 DEF Shl
  <2> QED
    BY <2>1, <2>2
<1>3. ASSUME b \in Shr(word, k) PROVE b \in Bits(width) /\ b + k \in word
  <2>1. PICK c \in word : c >= k /\ b = c - k
    BY <1>3 DEF Shr
  <2>2. c \in 0..(width - 1)
    BY DEF Bits
  <2>3. b + k = c /\ b \in 0..(width - 1)
    BY <2>1, <2>2
  <2> QED
    BY <2>3 DEF Bits
<1>4. ASSUME b \in Bits(width), b + k \in word PROVE b \in Shr(word, k)
  <2>1. b = (b + k) - k /\ b + k >= k
    BY <1>4 DEF Bits
  <2> QED
    BY <1>4, <2>1 DEF Shr
<1>5. Shr(word, k) \in SUBSET Bits(width)
  <2>1. ASSUME NEW c \in word, c >= k PROVE c - k \in 0..(width - 1)
    BY <2>1 DEF Bits
  <2> QED
    BY <2>1 DEF Shr, Bits
<1> QED
  BY <1>1, <1>2, <1>3, <1>4, <1>5

LEMMA ShrIn ==
    ASSUME NEW word \in SUBSET Bits(32), NEW k \in Nat, NEW b
    PROVE  b \in Shr(word, k) <=> b \in Bits(32) /\ b + k \in word
  BY ShiftedIn, 32 \in Nat

LEMMA XorIn ==
    ASSUME NEW a, NEW c, NEW b
    PROVE  b \in Xor(a, c) <=> ~(b \in a <=> b \in c)
  BY DEF Xor

LEMMA CarriedIn ==
    ASSUME NEW from, NEW stop, NEW width, NEW b
    PROVE  b \in Carried(from, stop, width) <=>
              b \in Bits(width) /\ \E j \in from :
                  j < b /\ ~\E k \in stop : j < k /\ k < b
  BY DEF Carried

(* The lowest and the highest bit of a word.                               *)
LEMMA LowestIs ==
    ASSUME NEW width \in Nat, NEW word \in SUBSET Bits(width), word # {}
    PROVE  /\ Lowest(word) \in word /\ Lowest(word) \in Bits(width)
           /\ \A c \in word : Lowest(word) <= c
<1>1. word \in SUBSET Nat
  BY DEF Bits
<1>2. \E b \in word : \A c \in word : b <= c
  BY <1>1, LeastNatural
<1> QED
  BY <1>2 DEF Lowest

LEMMA HighestIs ==
    ASSUME NEW width \in Nat, NEW word \in SUBSET Bits(width), word # {}
    PROVE  /\ Highest(word) \in word /\ Highest(word) \in Bits(width)
           /\ \A c \in word : c <= Highest(word)
<1> DEFINE above == {a \in Nat : \A c \in word : c <= a}
<1>1. width - 1 \in above
  <2>1. PICK c \in word : TRUE
    OBVIOUS
  <2>2. c \in 0..(width - 1) /\ \A d \in word : d \in 0..(width - 1)
    BY DEF Bits
  <2> QED
    BY <2>2
<1>2. PICK h \in above : \A a \in above : h <= a
  BY <1>1, LeastNatural
<1>3. h \in Nat /\ \A c \in word : c <= h /\ c \in Nat
  BY <1>2 DEF Bits
<1>4. h \in word
  <2>1. SUFFICES ASSUME h \notin word PROVE FALSE
    OBVIOUS
  <2>2. \A c \in word : c <= h - 1
    BY <1>3, <2>1
  <2>3. h - 1 \in above
    BY <1>3, <2>2
  <2>4. h <= h - 1
    BY <1>2, <2>3
  <2> QED
    BY <1>3, <2>4
<1>5. \E b \in word : \A c \in word : c <= b
  BY <1>3, <1>4
<1> QED
  BY <1>5 DEF Highest

LEMMA LowestOf ==
    ASSUME NEW width \in Nat, NEW word \in SUBSET Bits(width), NEW b \in word,
           \A c \in word : b <= c
    PROVE  Lowest(word) = b
<1>1. /\ Lowest(word) \in word /\ \A c \in word : Lowest(word) <= c
  BY LowestIs
<1>2. Lowest(word) <= b /\ b <= Lowest(word)
  BY <1>1
<1>3. b \in 0..(width - 1) /\ Lowest(word) \in 0..(width - 1)
  BY <1>1 DEF Bits
<1> QED
  BY <1>2, <1>3

LEMMA HighestOf ==
    ASSUME NEW width \in Nat, NEW word \in SUBSET Bits(width), NEW b \in word,
           \A c \in word : c <= b
    PROVE  Highest(word) = b
<1>1. /\ Highest(word) \in word /\ \A c \in word : c <= Highest(word)
  BY HighestIs
<1>2. Highest(word) <= b /\ b <= Highest(word)
  BY <1>1
<1>3. b \in 0..(width - 1) /\ Highest(word) \in 0..(width - 1)
  BY <1>1 DEF Bits
<1> QED
  BY <1>2, <1>3

(* One less: the lowest bit goes, those below it come.                     *)
LEMMA OneLess ==
    ASSUME NEW width \in Nat, NEW word \in SUBSET Bits(width), NEW low \in word,
           \A c \in word : low <= c
    PROVE  /\ Sub(word, One, width) = (word \ {low}) \union 0..(low - 1)
           /\ Sub(word, One, width) \in SUBSET Bits(width)
<1>1. low \in 0..(width - 1) /\ \A c \in word : c \in 0..(width - 1)
  BY DEF Bits
<1> DEFINE borrow == Carried(One \ word, word \ One, width)
<1>2. ASSUME NEW b PROVE b \in borrow <=> b \in 1..low
  <2>1. b \in borrow <=> b \in Bits(width) /\ 0 \notin word /\ 0 < b
                           /\ ~\E k \in word \ One : 0 < k /\ k < b
    BY CarriedIn DEF One
  <2>2. ASSUME b \in borrow PROVE b \in 1..low
    <3>1. b \in 0..(width - 1) /\ 0 \notin word /\ 0 < b
          /\ ~\E k \in word \ One : 0 < k /\ k < b
      BY <2>1, <2>2 DEF Bits
    <3>2. low \in word \ One /\ 0 < low
      BY <1>1, <3>1 DEF One
    <3>3. ~(low < b)
      BY <3>1, <3>2
    <3> QED
      BY <1>1, <3>1, <3>3
  <2>3. ASSUME b \in 1..low PROVE b \in borrow
    <3>1. b \in Bits(width) /\ 0 < b /\ low > 0
      BY <2>3, <1>1 DEF Bits
    <3>2. 0 \notin word
      BY <1>1, <3>1
    <3>3. \A k \in word : ~(k < b)
      BY <2>3, <1>1
    <3> QED
      BY <2>1, <3>1, <3>2, <3>3
  <2> QED
    BY <2>2, <2>3
<1>3. ASSUME NEW b
      PROVE  b \in Sub(word, One, width) <=> b \in (word \ {low}) \union 0..(low - 1)
  <2> HIDE DEF borrow
  <2>1. b \in Sub(word, One, width) <=> ~(b \in Xor(word, One) <=> b \in borrow)
    BY XorIn DEF Sub, borrow
  <2>2. b \in Xor(word, One) <=> ~(b \in word <=> b = 0)
    BY XorIn DEF One
  <2>3. b \in word => b \in 0..(width - 1) /\ low <= b
    BY <1>1
  <2> QED
    BY <1>1, <1>2, <2>1, <2>2, <2>3
<1>4. (word \ {low}) \union 0..(low - 1) \in SUBSET Bits(width)
  BY <1>1 DEF Bits
<1> QED
  BY <1>3, <1>4

LEMMA PowerLess ==
    ASSUME NEW width \in Nat, NEW k \in Bits(width)
    PROVE  Sub({k}, One, width) = 0..(k - 1)
<1>1. {k} \in SUBSET Bits(width) /\ \A c \in {k} : k <= c
  BY DEF Bits
<1>2. Sub({k}, One, width) = ({k} \ {k}) \union 0..(k - 1)
  BY <1>1, OneLess
<1> QED
  BY <1>2
------------------------------------------------------------------------------
LEMMA WordBits ==
    /\ W32 = Bits(32) /\ Bits(32) = 0..31 /\ Bits(64) = 0..63
    /\ 32 \in Nat /\ 64 \in Nat
  BY DEF W32, Bits

LEMMA WordFinite ==
    ASSUME NEW word \in SUBSET W32
    PROVE  /\ IsFiniteSet(word) /\ Cardinality(word) \in Nat
           /\ Cardinality(word) = 1 <=> \E b \in word : word = {b}
           /\ Cardinality(word) = 0 <=> word = {}
<1>1. IsFiniteSet(0..31)
  BY FS_Interval, 0 \in Int, 31 \in Int
<1>2. IsFiniteSet(word)
  BY <1>1, FS_Subset, WordBits
<1> QED
  BY <1>2, FS_CardinalityType, FS_Singleton, FS_EmptySet

LEMMA IsPow2 ==
    ASSUME NEW word \in SUBSET W32
    PROVE  is_pow2(word) <=> Cardinality(word) = 1
<1>1. CASE word = {}
  BY <1>1, WordFinite DEF is_pow2
<1>2. CASE word # {}
  <2>1. word \in SUBSET Bits(32) /\ 32 \in Nat
    BY WordBits
  <2>2. PICK low \in word : \A c \in word : low <= c
    BY <1>2, <2>1, LowestIs
  <2>3. Sub(word, One, 32) = (word \ {low}) \union 0..(low - 1)
    BY <2>1, <2>2, OneLess
  <2>4. low \in 0..31 /\ \A c \in word : c \in 0..31 /\ c \notin 0..(low - 1)
    BY <2>2, WordBits
  <2>5. word \intersect Sub(word, One, 32) = word \ {low}
    BY <2>3, <2>4
  <2>6. is_pow2(word) <=> word = {low}
    BY <1>2, <2>2, <2>5 DEF is_pow2
  <2>7. word = {low} <=> \E b \in word : word = {b}
    BY <2>2
  <2> QED
    BY <2>6, <2>7, WordFinite
<1> QED
  BY <1>1, <1>2

(* Each step of the smear doubles how far down every bit has spread.       *)
SpreadBy(word, k) == {b \in W32 : \E d \in 0..(k - 1) : b + d \in word}

LEMMA SmearDoubles ==
    ASSUME NEW word \in SUBSET W32, NEW k \in Nat
    PROVE  Smear(SpreadBy(word, k), k) = SpreadBy(word, 2 * k)
<1> DEFINE s == SpreadBy(word, k)
<1>1. s \in SUBSET Bits(32)
  BY WordBits DEF SpreadBy
<1>2. ASSUME NEW b PROVE b \in Smear(s, k) <=> b \in s \/ (b \in W32 /\ b + k \in s)
  BY <1>1, ShiftedIn, WordBits DEF Smear
<1>3. ASSUME NEW b \in W32 PROVE b \in s <=> \E d \in 0..(k - 1) : b + d \in word
  BY DEF SpreadBy
<1>4. ASSUME NEW b \in W32
      PROVE  b + k \in s <=> \E d \in k..(2 * k - 1) : b + d \in word
  <2>1. ASSUME b + k \in s PROVE \E d \in k..(2 * k - 1) : b + d \in word
    <3>1. PICK d \in 0..(k - 1) : (b + k) + d \in word
      BY <2>1 DEF SpreadBy
    <3>2. (b + k) + d = b + (k + d) /\ k + d \in k..(2 * k - 1)
      BY WordBits
    <3> QED
      BY <3>1, <3>2
  <2>2. ASSUME NEW d \in k..(2 * k - 1), b + d \in word PROVE b + k \in s
    <3>1. (b + k) + (d - k) = b + d /\ d - k \in 0..(k - 1)
      BY WordBits
    <3>2. b + d \in 0..31
      BY <2>2, WordBits
    <3>3. b + k \in W32
      BY <3>1, <3>2, WordBits
    <3> QED
      BY <2>2, <3>1, <3>3 DEF SpreadBy
  <2> QED
    BY <2>1, <2>2
<1>5. \A d : d \in 0..(2 * k - 1) <=> d \in 0..(k - 1) \/ d \in k..(2 * k - 1)
  OBVIOUS
<1>6. ASSUME NEW b PROVE b \in Smear(s, k) <=> b \in SpreadBy(word, 2 * k)
  <2>1. b \in s => b \in W32
    BY <1>1, WordBits
  <2>2. b \in SpreadBy(word, 2 * k)
            <=> b \in W32 /\ \E d \in 0..(2 * k - 1) : b + d \in word
    BY DEF SpreadBy
  <2> QED
    BY <1>2, <1>3, <1>4, <1>5, <2>1, <2>2
<1> QED
  BY <1>6

LEMMA SmearsFill ==
    ASSUME NEW word \in SUBSET W32, NEW most \in word, \A c \in word : c <= most
    PROVE  smears(word) = 0..most
<1>1. word = SpreadBy(word, 1)
  <2>1. \A b \in W32 : b + 0 = b
    BY WordBits
  <2> QED
    BY <2>1 DEF SpreadBy
<1>2. four_steps(word) = SpreadBy(word, 16)
  <2>1. Smear(word, 1) = SpreadBy(word, 2)
    BY <1>1, SmearDoubles, 2 * 1 = 2
  <2>2. Smear(SpreadBy(word, 2), 2) = SpreadBy(word, 4)
    BY SmearDoubles, 2 * 2 = 4
  <2>3. Smear(SpreadBy(word, 4), 4) = SpreadBy(word, 8)
    BY SmearDoubles, 2 * 4 = 8
  <2>4. Smear(SpreadBy(word, 8), 8) = SpreadBy(word, 16)
    BY SmearDoubles, 2 * 8 = 16
  <2> QED
    BY <2>1, <2>2, <2>3, <2>4 DEF four_steps
<1>3. smears(word) = SpreadBy(word, 32)
  BY <1>2, SmearDoubles, 2 * 16 = 32 DEF smears
<1>4. most \in 0..31
  BY WordBits
<1>5. ASSUME NEW b PROVE b \in SpreadBy(word, 32) <=> b \in 0..most
  <2>1. ASSUME b \in SpreadBy(word, 32) PROVE b \in 0..most
    <3>1. PICK d \in 0..31 : b \in 0..31 /\ b + d \in word
      BY <2>1, WordBits DEF SpreadBy
    <3> QED
      BY <3>1, <1>4
  <2>2. ASSUME b \in 0..most PROVE b \in SpreadBy(word, 32)
    <3>1. b \in W32 /\ most - b \in 0..(32 - 1) /\ b + (most - b) = most
      BY <2>2, <1>4, WordBits
    <3> QED
      BY <3>1 DEF SpreadBy
  <2> QED
    BY <2>1, <2>2
<1> QED
  BY <1>3, <1>5

LEMMA FloorIs ==
    ASSUME NEW word \in SUBSET W32, NEW most \in word, \A c \in word : c <= most
    PROVE  floor_pow2(word) = {most}
<1> DEFINE full == 0..most
           down == Shr(full, 1)
<1>0. most \in 0..31
  BY WordBits
<1>1. smears(word) = full
  BY SmearsFill
<1>2. full \in SUBSET Bits(32)
  BY <1>0, WordBits
<1>3. ASSUME NEW b PROVE b \in down <=> b \in 0..(most - 1)
  <2>1. b \in down <=> b \in Bits(32) /\ b + 1 \in full
    BY <1>2, ShiftedIn, WordBits
  <2>2. b \in Bits(32) <=> b \in 0..31
    BY WordBits
  <2> HIDE DEF down
  <2>3. ASSUME b \in down PROVE b \in 0..(most - 1)
    BY <1>0, <2>1, <2>2, <2>3
  <2>4. ASSUME b \in 0..(most - 1) PROVE b \in down
    BY <1>0, <2>1, <2>2, <2>4
  <2> QED
    BY <2>3, <2>4
<1> HIDE DEF down
<1>4. down \ full = {}
  BY <1>0, <1>3
<1>5. Carried(down \ full, full \ down, 32) = {}
  BY <1>4 DEF Carried
<1>6. ASSUME NEW b PROVE b \in Sub(full, down, 32) <=> b \in full /\ b \notin down
  <2>1. b \in Sub(full, down, 32) <=> b \in Xor(full, down)
    BY <1>5, XorIn, ZenonT(60) DEF Sub
  <2>2. b \in down => b \in full
    BY <1>4
  <2>3. b \in Xor(full, down) <=> ~(b \in full <=> b \in down)
    BY XorIn, ZenonT(60)
  <2> QED
    BY <2>1, <2>2, <2>3
<1>7. ASSUME NEW b PROVE b \in full /\ b \notin down <=> b = most
  BY <1>0, <1>3
<1>8. Sub(full, down, 32) = {most}
  BY <1>6, <1>7
<1>9. word # {} /\ down = Shr(smears(word), 1)
  BY <1>1 DEF down
<1> QED
  BY <1>1, <1>8, <1>9 DEF floor_pow2

LEMMA CeilIs ==
    ASSUME NEW word \in SUBSET W32
    PROVE  ceil_pow2(word) = IF word = {} THEN One
                             ELSE IF Cardinality(word) = 1 THEN word
                             ELSE {Highest(word) + 1} \intersect W32
<1>0. word \in SUBSET Bits(32) /\ 32 \in Nat
  BY WordBits
<1>1. CASE word = {}
  BY <1>1 DEF ceil_pow2
<1>2. CASE word = One
  <2>1. Cardinality(word) = 1 /\ word # {}
    BY <1>2, WordFinite DEF One
  <2> QED
    BY <1>2, <2>1 DEF ceil_pow2
<1>3. CASE word # {} /\ word # One
  <2>1. ~(word \subseteq One)
    BY <1>3 DEF One
  <2>2. PICK most \in word : (\A c \in word : c <= most) /\ Highest(word) = most
    BY <1>0, <1>3, HighestIs
  <2>3. PICK low \in word : \A c \in word : low <= c
    BY <1>0, <1>3, LowestIs
  <2>4. /\ low \in 0..31 /\ most \in 0..31 /\ low <= most
        /\ \A c \in word : c \in 0..31 /\ low <= c /\ c <= most
    BY <2>2, <2>3, WordBits
  <2>5. Cardinality(word) = 1 <=> low = most
    <3>1. ASSUME low = most PROVE word = {low}
      <4>1. \A c \in word : c = low
        BY <2>4, <3>1
      <4> QED
        BY <4>1, Zenon
    <3> QED
      BY <3>1, <2>2, <2>3, WordFinite
  <2>6. Above(word, {31}) <=> most = 31 /\ low # most
    <3>1. ASSUME Above(word, {31}) PROVE most = 31 /\ low # most
      <4>1. PICK k \in word \ {31} : \A c \in Xor(word, {31}) : c <= k
        BY <3>1 DEF Above
      <4>2. k \in 0..30
        BY <4>1, WordBits
      <4>3. 31 \in word
        BY <4>1, <4>2, XorIn
      <4> QED
        BY <2>2, <2>4, <4>1, <4>2, <4>3
    <3>2. ASSUME most = 31, low # most PROVE Above(word, {31})
      <4> DEFINE rest == word \ {31}
      <4>1. rest \in SUBSET Bits(32) /\ low \in rest
        BY <1>0, <2>3, <3>2
      <4>2. PICK k \in rest : \A c \in rest : c <= k
        BY <4>1, <1>0, HighestIs
      <4>3. \A c \in Xor(word, {31}) : c \in rest
        BY <3>2, <2>2, XorIn
      <4> QED
        BY <4>2, <4>3 DEF Above
    <3> QED
      BY <3>1, <3>2
  <2> DEFINE less == Sub(word, One, 32)
             top == IF low = most THEN most - 1 ELSE most
  <2>7. less = (word \ {low}) \union 0..(low - 1) /\ less \in SUBSET W32
    BY <1>0, <2>3, OneLess, WordBits
  <2>8. low = most => low > 0 /\ word = {low}
    <3>1. ASSUME low = most PROVE word = {low}
      <4>1. \A c \in word : c = low
        BY <2>4, <3>1
      <4> QED
        BY <4>1, Zenon
    <3>2. ASSUME word = {low}, low = 0 PROVE FALSE
      BY <3>2, <1>3 DEF One
    <3> QED
      BY <3>1, <3>2, <2>4
  <2>9. top \in less /\ \A c \in less : c <= top
    <3>1. \A c : c \in less <=> (c \in word /\ c # low) \/ c \in 0..(low - 1)
      BY <2>7
    <3>2. CASE low = most
      <4>1. top = low - 1 /\ low \in 1..31 /\ \A c \in word : c = low
        BY <2>4, <2>8, <3>2
      <4>2. \A c \in 0..(low - 1) : c <= low - 1
        BY <4>1
      <4>3. top \in less
        BY <3>1, <4>1
      <4>4. ASSUME NEW c \in less PROVE c <= top
        <5>1. c \in 0..(low - 1)
          BY <3>1, <4>1
        <5> QED
          BY <4>1, <4>2, <5>1
      <4> QED
        BY <4>3, <4>4
    <3>3. CASE low # most
      <4>1. top = most /\ most \in word
        BY <2>2, <3>3
      <4>2. \A c \in 0..(low - 1) : c <= most
        BY <2>4
      <4> QED
        BY <2>4, <3>1, <3>3, <4>1, <4>2
    <3> QED
      BY <3>2, <3>3
  <2>10. top \in 0..31 /\ (low = most => top + 1 = low) /\ (low # most => top = most)
    BY <2>4, <2>8
  <2> HIDE DEF less, top
  <2>11. floor_pow2(less) = {top}
    BY <2>7, <2>9, FloorIs
  <2>12. ASSUME NEW b PROVE b \in Shl({top}, 1, 32) <=> b \in W32 /\ b = top + 1
    <3>1. {top} \in SUBSET Bits(32)
      BY <2>10, WordBits
    <3>2. b \in Shl({top}, 1, 32) <=> b \in Bits(32) /\ b - 1 \in {top}
      BY <3>1, <1>0, ShiftedIn
    <3> QED
      BY <2>10, <3>2, WordBits
  <2>13. CASE low = most
    <3>1. ceil_pow2(word) = Shl({top}, 1, 32)
      BY <2>1, <2>6, <2>11, <2>13 DEF ceil_pow2, less
    <3>2. low \in W32
      BY <2>4, WordBits
    <3>3. Shl({top}, 1, 32) = {low}
      BY <2>10, <2>12, <2>13, <3>2
    <3> QED
      BY <1>3, <2>5, <2>8, <2>13, <3>1, <3>3
  <2>14. CASE low # most
    <3>1. CASE most = 31
      <4>1. ceil_pow2(word) = {}
        BY <2>1, <2>6, <2>14, <3>1 DEF ceil_pow2
      <4>2. {most + 1} \intersect W32 = {}
        BY <3>1, WordBits
      <4> QED
        BY <1>3, <2>2, <2>5, <2>14, <4>1, <4>2
    <3>2. CASE most # 31
      <4>1. ceil_pow2(word) = Shl({top}, 1, 32)
        BY <2>1, <2>6, <2>11, <3>2 DEF ceil_pow2, less
      <4>0. most + 1 = top + 1
        BY <2>10, <2>14
      <4>2. \A b : b \in Shl({top}, 1, 32) <=> b \in W32 /\ b = most + 1
        BY <2>12, <4>0, Zenon
      <4>3. ASSUME NEW b PROVE b \in {most + 1} \intersect W32
                       <=> b \in W32 /\ b = most + 1
        OBVIOUS
      <4>4. Shl({top}, 1, 32) = {most + 1} \intersect W32
        <5> DEFINE shifted == Shl({top}, 1, 32)
                   wanted == {most + 1} \intersect W32
        <5>1. \A b : b \in shifted <=> b \in wanted
          BY <4>2, <4>3, Zenon
        <5> HIDE DEF shifted, wanted
        <5>2. shifted = wanted
          BY <5>1
        <5> QED
          BY <5>2 DEF shifted, wanted
      <4> QED
        BY <1>3, <2>2, <2>5, <2>14, <4>1, <4>4
    <3> QED
      BY <3>1, <3>2
  <2> QED
    BY <2>13, <2>14
<1> QED
  BY <1>1, <1>2, <1>3

LEMMA PowersAreExact ==
    ASSUME operand \in SUBSET W32
    PROVE  PowersExact
<1>1. floor_pow2(operand) = IF operand = {} THEN {} ELSE {Highest(operand)}
  <2>1. CASE operand = {}
    BY <2>1 DEF floor_pow2
  <2>2. CASE operand # {}
    <3>1. Highest(operand) \in operand /\ \A c \in operand : c <= Highest(operand)
      BY <2>2, HighestIs, WordBits
    <3> QED
      BY <2>2, <3>1, FloorIs
  <2> QED
    BY <2>1, <2>2
<1>2. POW2(operand) <=> is_pow2(operand)
  BY DEF POW2, is_pow2
<1> QED
  BY <1>1, <1>2, IsPow2, CeilIs DEF PowersExact
------------------------------------------------------------------------------
(* A field of the low bits, and one moved up to its place.                 *)
LEMMA FieldMoved ==
    ASSUME NEW width \in 1..32, NEW low \in 0..(32 - width)
    PROVE  /\ Field(width) = 0..(width - 1)
           /\ Shl(0..(width - 1), low, 32) = low..(low + width - 1)
<1>1. Field(width) = 0..(width - 1)
  <2>1. CASE width = 32
    BY <2>1, WordBits DEF Field
  <2>2. CASE width # 32
    <3>1. width \in Bits(32)
      BY <2>2, WordBits
    <3>2. One \in SUBSET Bits(32) /\ width \in Nat
      BY WordBits DEF One
    <3>3. ASSUME NEW b PROVE b \in Shl(One, width, 32) <=> b = width
      <4>1. b \in Shl(One, width, 32) <=> b \in Bits(32) /\ b - width = 0
        BY <3>2, ShiftedIn, WordBits DEF One
      <4>2. b \in Bits(32) <=> b \in 0..31
        BY WordBits
      <4> QED
        BY <3>1, <4>1, <4>2
    <3>4. Shl(One, width, 32) = {width}
      BY <3>3
    <3> QED
      BY <2>2, <3>1, <3>4, PowerLess, WordBits DEF Field
  <2> QED
    BY <2>1, <2>2
<1>2. ASSUME NEW b PROVE b \in Shl(0..(width - 1), low, 32)
                 <=> b \in low..(low + width - 1)
  <2>1. 0..(width - 1) \in SUBSET Bits(32) /\ low \in Nat
    BY WordBits
  <2>2. b \in Shl(0..(width - 1), low, 32)
            <=> b \in Bits(32) /\ b - low \in 0..(width - 1)
    BY <2>1, ShiftedIn, WordBits
  <2>3. b \in Bits(32) <=> b \in 0..31
    BY WordBits
  <2>4. low \in 0..31 /\ low + width <= 32 /\ low + width - 1 \in Int
    OBVIOUS
  <2>5. ASSUME b \in 0..31, b - low \in 0..(width - 1)
        PROVE  b \in low..(low + width - 1)
    BY <2>4, <2>5
  <2>6. ASSUME b \in low..(low + width - 1)
        PROVE  b \in 0..31 /\ b - low \in 0..(width - 1)
    BY <2>4, <2>6
  <2> QED
    BY <2>2, <2>3, <2>5, <2>6
<1> QED
  BY <1>1, <1>2

(* The field that a position and a width name; none past bit 31.           *)
Named(low, width) == IF low + width <= 32 THEN Ones(low, low + width - 1) ELSE {}

LEMMA NoFieldNamed ==
    ASSUME NEW low \in Nat, NEW width \in Nat
    PROVE  /\ NoField(low, width) => Named(low, width) = {}
           /\ ~NoField(low, width) =>
                 width \in 1..32 /\ low \in 0..(32 - width) /\ low < 32
                    /\ Named(low, width) = low..(low + width - 1)
<1>1. ASSUME NoField(low, width) PROVE Named(low, width) = {}
  <2>1. low + width <= 32 => width = 0
    BY <1>1 DEF NoField
  <2>2. width = 0 => Ones(low, low + width - 1) = {}
    BY DEF Ones
  <2> QED
    BY <2>1, <2>2 DEF Named
<1>2. ASSUME ~NoField(low, width)
      PROVE  /\ width \in 1..32 /\ low \in 0..(32 - width) /\ low < 32
             /\ Named(low, width) = low..(low + width - 1)
  <2>1. width \in 1..32 /\ low \in 0..(32 - width) /\ low < 32 /\ low + width <= 32
    BY <1>2 DEF NoField
  <2> QED
    BY <2>1 DEF Named, Ones
<1> QED
  BY <1>1, <1>2

LEMMA FieldGot ==
    ASSUME NEW word \in SUBSET W32, NEW low \in Nat, NEW width \in Nat
    PROVE  get_field(word, low, width) = Shr(word \intersect Named(low, width), low)
<1>1. CASE NoField(low, width)
  <2>1. word \intersect Named(low, width) = {}
    BY <1>1, NoFieldNamed
  <2>2. Shr({}, low) = {}
    BY DEF Shr
  <2> QED
    BY <1>1, <2>1, <2>2 DEF get_field
<1>2. CASE ~NoField(low, width)
  <2> DEFINE field == low..(low + width - 1)
  <2>1. width \in 1..32 /\ low \in 0..(32 - width) /\ Named(low, width) = field
    BY <1>2, NoFieldNamed
  <2>2. Field(width) = 0..(width - 1)
    BY <2>1, FieldMoved
  <2>3. word \in SUBSET Bits(32) /\ word \intersect field \in SUBSET Bits(32)
    BY WordBits
  <2>4. ASSUME NEW b
        PROVE  b \in Shr(word, low) \intersect 0..(width - 1)
                   <=> b \in Shr(word \intersect field, low)
    <3>1. b \in Shr(word, low) <=> b \in Bits(32) /\ b + low \in word
      BY <2>3, ShiftedIn, WordBits
    <3> HIDE DEF field
    <3>2. b \in Shr(word \intersect field, low)
              <=> b \in Bits(32) /\ b + low \in word \intersect field
      BY <2>3, ShiftedIn, WordBits
    <3>3. ASSUME b \in Bits(32) PROVE b + low \in field <=> b \in 0..(width - 1)
      <4>1. b \in 0..31 /\ width \in 1..32
        BY <2>1, <3>3, WordBits
      <4> QED
        BY <4>1 DEF field
    <3> QED
      BY <3>1, <3>2, <3>3
  <2>5. Shr(word, low) \intersect 0..(width - 1) = Shr(word \intersect field, low)
    BY <2>4
  <2> QED
    BY <1>2, <2>1, <2>2, <2>5 DEF get_field
<1> QED
  BY <1>1, <1>2

LEMMA FieldPut ==
    ASSUME NEW word \in SUBSET W32, NEW value \in SUBSET W32, NEW low \in Nat,
           NEW width \in Nat
    PROVE  put_field(word, low, width, value) =
              (word \ Named(low, width))
                 \union ({b + low : b \in value} \intersect Named(low, width))
<1>1. CASE NoField(low, width)
  BY <1>1, NoFieldNamed DEF put_field
<1>2. CASE ~NoField(low, width)
  <2> DEFINE field == low..(low + width - 1)
             part == value \intersect 0..(width - 1)
  <2>1. width \in 1..32 /\ low \in 0..(32 - width) /\ Named(low, width) = field
    BY <1>2, NoFieldNamed
  <2>2. Field(width) = 0..(width - 1) /\ Shl(Field(width), low, 32) = field
    BY <2>1, FieldMoved
  <2>3. part \in SUBSET Bits(32)
    BY WordBits
  <2>4. ASSUME NEW b PROVE b \in Shl(part, low, 32)
                   <=> b \in {c + low : c \in value} \intersect field
    <3>1. b \in Shl(part, low, 32) <=> b \in Bits(32) /\ b - low \in part
      BY <2>3, ShiftedIn, WordBits
    <3>2. ASSUME b \in Shl(part, low, 32)
          PROVE  b \in {c + low : c \in value} \intersect field
      <4>1. b \in 0..31 /\ b - low \in value /\ b - low \in 0..(width - 1)
        BY <3>1, <3>2, WordBits
      <4>2. b = (b - low) + low /\ b \in field
        BY <2>1, <4>1
      <4> QED
        BY <4>1, <4>2
    <3>3. ASSUME b \in {c + low : c \in value}, b \in field
          PROVE  b \in Shl(part, low, 32)
      <4>1. PICK c \in value : b = c + low
        BY <3>3
      <4>2. c \in 0..31
        BY WordBits
      <4>3. b \in 0..31 /\ b - low = c /\ c \in 0..(width - 1)
        BY <2>1, <3>3, <4>1, <4>2
      <4> QED
        BY <3>1, <4>1, <4>3, WordBits
    <3> QED
      BY <3>2, <3>3
  <2> HIDE DEF field
  <2>5. Shl(part, low, 32) = {c + low : c \in value} \intersect field
    BY <2>4
  <2>6. word \intersect Not(field, 32) = word \ field
    BY WordBits DEF Not
  <2> QED
    BY <1>2, <2>1, <2>2, <2>5, <2>6 DEF put_field
<1> QED
  BY <1>1, <1>2

(* The mask of macros.h and the one of s07 are the field from lsb to msb.  *)
LEMMA MaskIs ==
    ASSUME NEW msb \in 0..31, NEW lsb \in 0..msb
    PROVE  MASK(msb, lsb) = lsb..msb
<1>1. W32 \in SUBSET Bits(32)
  BY WordBits
<1>2. ASSUME NEW b PROVE b \in Shr(W32, 31 - (msb - lsb)) <=> b \in 0..(msb - lsb)
  <2>1. b \in Shr(W32, 31 - (msb - lsb))
           <=> b \in Bits(32) /\ b + (31 - (msb - lsb)) \in W32
    <3> DEFINE k == 31 - (msb - lsb)
    <3>1. k \in Nat
      OBVIOUS
    <3> HIDE DEF k
    <3>2. b \in Shr(W32, k) <=> b \in Bits(32) /\ b + k \in W32
      BY <1>1, <3>1, ShiftedIn, 32 \in Nat
    <3> QED
      BY <3>2 DEF k
  <2>2. b \in Bits(32) <=> b \in 0..31
    BY WordBits
  <2>3. b + (31 - (msb - lsb)) \in W32 <=> b + (31 - (msb - lsb)) \in 0..31
    BY WordBits
  <2> QED
    BY <2>1, <2>2, <2>3
<1>3. Shr(W32, 31 - (msb - lsb)) = 0..((msb - lsb + 1) - 1)
  <2>1. (msb - lsb + 1) - 1 = msb - lsb
    OBVIOUS
  <2> QED
    BY <1>2, <2>1
<1>4. msb - lsb + 1 \in 1..32 /\ lsb \in 0..(32 - (msb - lsb + 1))
      /\ lsb + (msb - lsb + 1) - 1 = msb
  OBVIOUS
<1>5. Shl(0..((msb - lsb + 1) - 1), lsb, 32) = lsb..(lsb + (msb - lsb + 1) - 1)
  BY <1>4, FieldMoved
<1> QED
  BY <1>3, <1>4, <1>5 DEF MASK

LEMMA FieldMaskIs ==
    ASSUME NEW msb \in Nat, NEW lsb \in Nat
    PROVE  field_mask(msb, lsb) = IF msb < 32 THEN Ones(lsb, msb) ELSE {}
<1>1. CASE msb >= 32
  <2>1. ~(msb < 32)
    BY <1>1
  <2> QED
    BY <1>1, <2>1 DEF field_mask
<1>2. CASE msb < 32 /\ lsb > msb
  <2>1. Ones(lsb, msb) = {}
    BY <1>2 DEF Ones
  <2> QED
    BY <1>2, <2>1 DEF field_mask
<1>3. CASE msb < 32 /\ lsb <= msb
  <2> DEFINE width == msb - lsb + 1
  <2>1. width \in 1..32 /\ lsb \in 0..(32 - width) /\ lsb + width - 1 = msb
        /\ ~(msb >= 32 \/ lsb > msb) /\ (width = 32 => lsb = 0 /\ msb = 31)
    BY <1>3
  <2> HIDE DEF width
  <2>2. Field(width) = 0..(width - 1) /\ Shl(0..(width - 1), lsb, 32) = lsb..msb
    BY <2>1, FieldMoved
  <2>3. CASE width = 32
    <3>1. field_mask(msb, lsb) = W32
      BY <2>1, <2>3 DEF field_mask, width
    <3> QED
      BY <1>3, <2>1, <2>3, <3>1, WordBits DEF Ones
  <2>4. CASE width # 32
    <3>1. field_mask(msb, lsb) = Shl(Field(width), lsb, 32)
      BY <2>1, <2>4 DEF field_mask, Field, width
    <3> QED
      BY <1>3, <2>2, <3>1 DEF Ones
  <2> QED
    BY <2>3, <2>4
<1>4. msb >= 32 \/ (msb < 32 /\ lsb > msb) \/ (msb < 32 /\ lsb <= msb)
  OBVIOUS
<1> QED
  BY <1>1, <1>2, <1>3, <1>4

LEMMA MacrosAgree ==
    ASSUME NEW word \in SUBSET W32, NEW value \in SUBSET W32,
           NEW msb \in 0..31, NEW lsb \in 0..msb
    PROVE  /\ FIELD_GET(word, msb, lsb) = get_field(word, lsb, msb - lsb + 1)
           /\ FIELD_WRITE(word, value, msb, lsb)
                  = put_field(word, lsb, msb - lsb + 1, value)
<1> DEFINE field == lsb..msb
           width == msb - lsb + 1
<1>1. MASK(msb, lsb) = field
  BY MaskIs
<1>2. Named(lsb, width) = field
  <2>1. lsb + (msb - lsb + 1) <= 32 /\ lsb + (msb - lsb + 1) - 1 = msb
    OBVIOUS
  <2> QED
    BY <2>1 DEF Named, Ones
<1>3. lsb \in Nat /\ width \in Nat
  OBVIOUS
<1> HIDE DEF width, field
<1>4. FIELD_GET(word, msb, lsb) = get_field(word, lsb, width)
  BY <1>1, <1>2, <1>3, FieldGot DEF FIELD_GET
<1>5. FIELD_WRITE(word, value, msb, lsb) = put_field(word, lsb, width, value)
  <2>1. put_field(word, lsb, width, value) =
           (word \ field) \union ({b + lsb : b \in value} \intersect field)
    BY <1>2, <1>3, FieldPut
  <2>2. word \intersect Not(field, 32) = word \ field
    BY WordBits DEF Not
  <2>3. field \intersect Shl(value, lsb, 32) = {b + lsb : b \in value} \intersect field
    <3>1. field \subseteq Bits(32)
      BY WordBits DEF field
    <3> QED
      BY <3>1 DEF Shl
  <2> QED
    BY <1>1, <2>1, <2>2, <2>3 DEF FIELD_WRITE, FIELD_PREP, FIELD_RESET
<1> QED
  BY <1>4, <1>5 DEF width

(* The field write of s07 is that of the macros, or none.                  *)
LEMMA RegisterFieldPut ==
    ASSUME NEW word \in SUBSET W32, NEW value \in SUBSET W32,
           NEW msb \in Nat, NEW lsb \in Nat
    PROVE  reg_field_write(word, msb, lsb, value) =
              IF lsb <= msb /\ msb < 32
                THEN put_field(word, lsb, msb - lsb + 1, value) ELSE word
<1>1. CASE msb >= 32 \/ lsb > msb
  <2>1. ~(lsb <= msb /\ msb < 32)
    BY <1>1
  <2> QED
    BY <1>1, <2>1 DEF reg_field_write
<1>2. CASE ~(msb >= 32 \/ lsb > msb)
  <2>1. lsb <= msb /\ msb < 32 /\ msb \in 0..31 /\ lsb \in 0..msb
    BY <1>2
  <2> DEFINE field == lsb..msb
  <2>2. MASK(msb, lsb) = field /\ field_mask(msb, lsb) = field
    BY <2>1, MaskIs, FieldMaskIs DEF Ones
  <2> HIDE DEF field
  <2>3. reg_field_write(word, msb, lsb, value) =
           (word \intersect Not(field, 32)) \union (Shl(value, lsb, 32) \intersect field)
    BY <1>2, <2>2 DEF reg_field_write
  <2>4. FIELD_WRITE(word, value, msb, lsb) =
           (field \intersect Shl(value, lsb, 32)) \union (word \intersect Not(field, 32))
    BY <2>2 DEF FIELD_WRITE, FIELD_PREP, FIELD_RESET
  <2>5. FIELD_WRITE(word, value, msb, lsb) = put_field(word, lsb, msb - lsb + 1, value)
    BY <2>1, MacrosAgree
  <2> QED
    BY <2>1, <2>3, <2>4, <2>5
<1> QED
  BY <1>1, <1>2

LEMMA WrittenIn ==
    ASSUME NEW word \in SUBSET W32, NEW value \in SUBSET W32,
           NEW msb \in 0..31, NEW lsb \in 0..msb
    PROVE  /\ reg_rmw_field(word, msb, lsb, value) \in SUBSET W32
           /\ \A b \in lsb..msb :
                 b \in reg_rmw_field(word, msb, lsb, value) <=> b - lsb \in value
           /\ \A b : b \notin lsb..msb =>
                 (b \in reg_rmw_field(word, msb, lsb, value) <=> b \in word)
<1> DEFINE field == lsb..msb
           new == reg_rmw_field(word, msb, lsb, value)
<1>1. MASK(msb, lsb) = field
  BY MaskIs
<1>2. \A b : b \in field => b \in Bits(32) /\ b \in W32
  BY WordBits
<1>3. value \in SUBSET Bits(32) /\ 32 \in Nat /\ lsb \in Nat
  BY WordBits
<1>4. \A b : b \in new <=> (b \in field /\ b \in Shl(value, lsb, 32))
                             \/ (b \in word /\ b \in Not(field, 32))
  BY <1>1 DEF reg_rmw_field, FIELD_WRITE, FIELD_PREP, FIELD_RESET
<1>5. \A b : b \in Not(field, 32) <=> b \in Bits(32) /\ b \notin field
  BY DEF Not
<1>6. \A b : b \in word => b \in Bits(32)
  BY WordBits
<1> HIDE DEF field, new
<1>7. \A b \in field : b \in Shl(value, lsb, 32) <=> b - lsb \in value
  BY <1>2, <1>3, ShiftedIn
<1>8. \A b \in field : b \in new <=> b - lsb \in value
  BY <1>4, <1>5, <1>7
<1>9. \A b : b \notin field => (b \in new <=> b \in word)
  BY <1>4, <1>5, <1>6
<1>10. new \in SUBSET W32
  BY <1>2, <1>9
<1> QED
  BY <1>8, <1>9, <1>10 DEF field, new

HoldsField(reg, value, msb, lsb) == \A b \in lsb..msb : b \in reg <=> b - lsb \in value
LowPart(value, k) == value \intersect Ones(0, k)
LEMMA ReadBack ==
    ASSUME NEW reg \in SUBSET W32, NEW value \in SUBSET W32,
           NEW msb \in 0..31, NEW lsb \in 0..msb,
           HoldsField(reg, value, msb, lsb)
    PROVE  FIELD_GET(reg, msb, lsb) = LowPart(value, msb - lsb)
<1>0. \A b \in lsb..msb : b \in reg <=> b - lsb \in value
  BY DEF HoldsField
<1> DEFINE part == reg \intersect (lsb..msb)
<1>1. FIELD_GET(reg, msb, lsb) = Shr(part, lsb)
  BY MaskIs DEF FIELD_GET
<1>2. part \in SUBSET Bits(32) /\ 32 \in Nat /\ lsb \in Nat
  BY WordBits
<1>3. ASSUME NEW b PROVE b \in Shr(part, lsb) <=> b \in value /\ b \in 0..(msb - lsb)
  <2>1. b \in Shr(part, lsb) <=> b \in 0..31 /\ b + lsb \in part
    BY <1>2, ShrIn, WordBits
  <2>2. CASE b \in 0..(msb - lsb)
    <3>1. b \in 0..31 /\ b + lsb \in lsb..msb /\ (b + lsb) - lsb = b
      BY <2>2
    <3> QED
      BY <1>0, <2>1, <2>2, <3>1
  <2>3. CASE b \notin 0..(msb - lsb)
    <3>1. ~(b \in 0..31 /\ b + lsb \in lsb..msb)
      BY <2>3
    <3> QED
      BY <2>1, <2>3, <3>1
  <2> QED
    BY <2>2, <2>3
<1> HIDE DEF part
<1> QED
  BY <1>1, <1>3 DEF Ones, LowPart

(* A field written is read back, whichever of two was written last.        *)
LEMMA FieldsApart ==
    ASSUME NEW csr \in SUBSET W32, NEW val \in SUBSET W32, NEW val2 \in SUBSET W32,
           NEW msb2 \in 0..31, NEW lsb2 \in 0..msb2,
           NEW msb \in 0..(lsb2 - 1), NEW lsb \in 0..msb
    PROVE  KeepsOther(csr, msb, lsb, val, msb2, lsb2, val2)
<1>1. msb \in 0..31 /\ \A b : ~(b \in lsb..msb /\ b \in lsb2..msb2)
  BY SMTT(60)
<1> DEFINE lower == reg_rmw_field(csr, msb, lsb, val)
           both == reg_rmw_field(lower, msb2, lsb2, val2)
           upper == reg_rmw_field(csr, msb2, lsb2, val2)
           back == reg_rmw_field(upper, msb, lsb, val)
<1>2. lower \in SUBSET W32 /\ \A b \in lsb..msb : b \in lower <=> b - lsb \in val
  BY <1>1, WrittenIn
<1>3. upper \in SUBSET W32 /\ \A b \in lsb2..msb2 : b \in upper <=> b - lsb2 \in val2
  BY WrittenIn
<1> HIDE DEF lower, upper
<1>4. both \in SUBSET W32 /\ \A b : b \notin lsb2..msb2 => (b \in both <=> b \in lower)
  BY <1>2, WrittenIn
<1>5. back \in SUBSET W32 /\ \A b : b \notin lsb..msb => (b \in back <=> b \in upper)
  BY <1>1, <1>3, WrittenIn
<1> HIDE DEF both, back
<1>6. FIELD_GET(both, msb, lsb) = LowPart(val, msb - lsb)
  <2>1. HoldsField(both, val, msb, lsb)
    BY <1>1, <1>2, <1>4 DEF HoldsField
  <2> QED
    BY <1>1, <1>4, <2>1, ReadBack, ZenonT(60)
<1>7. FIELD_GET(back, msb2, lsb2) = LowPart(val2, msb2 - lsb2)
  <2>1. HoldsField(back, val2, msb2, lsb2)
    BY <1>1, <1>3, <1>5 DEF HoldsField
  <2> QED
    BY <1>5, <2>1, ReadBack
<1> QED
  BY <1>6, <1>7 DEF KeepsOther, LowPart, lower, both, upper, back

LEMMA FieldsAreExact ==
    ASSUME operand \in SUBSET W32, second \in SUBSET W32
    PROVE  FieldsExact
<1>1. Places \subseteq Nat
  BY WordsAssumption
<1>2. ASSUME NEW low \in Places, NEW width \in Places
      PROVE  LET field == IF low + width <= 32 THEN Ones(low, low + width - 1) ELSE {}
             IN  /\ get_field(operand, low, width) = Shr(operand \intersect field, low)
                 /\ put_field(operand, low, width, second) =
                        (operand \ field)
                            \union ({b + low : b \in second} \intersect field)
  <2>1. low \in Nat /\ width \in Nat
    BY <1>1
  <2> QED
    BY <2>1, FieldGot, FieldPut DEF Named
<1>3. ASSUME NEW lsb \in Places, NEW msb \in Places
      PROVE  /\ field_mask(msb, lsb) = IF msb < 32 THEN Ones(lsb, msb) ELSE {}
             /\ reg_field_write(operand, msb, lsb, second) =
                    IF lsb <= msb /\ msb < 32
                      THEN put_field(operand, lsb, msb - lsb + 1, second) ELSE operand
             /\ lsb <= msb /\ msb < 32 =>
                   /\ FIELD_GET(operand, msb, lsb)
                           = get_field(operand, lsb, msb - lsb + 1)
                   /\ FIELD_WRITE(operand, second, msb, lsb)
                           = put_field(operand, lsb, msb - lsb + 1, second)
                   /\ \A other \in Places, last \in Places :
                         msb < other /\ other <= last /\ last < 32 =>
                            KeepsOther(operand, msb, lsb, second, last, other, operand)
  <2>1. lsb \in Nat /\ msb \in Nat
    BY <1>1
  <2>2. lsb <= msb /\ msb < 32 => msb \in 0..31 /\ lsb \in 0..msb
    BY <2>1
  <2>3. ASSUME lsb <= msb, NEW other \in Places, NEW last \in Places,
               msb < other, other <= last, last < 32
        PROVE  KeepsOther(operand, msb, lsb, second, last, other, operand)
    <3>1. /\ last \in 0..31 /\ other \in 0..last
          /\ msb \in 0..(other - 1) /\ lsb \in 0..msb
      BY <1>1, <2>1, <2>3
    <3> QED
      BY <3>1, FieldsApart
  <2>4. reg_field_write(operand, msb, lsb, second) =
           IF lsb <= msb /\ msb < 32
             THEN put_field(operand, lsb, msb - lsb + 1, second) ELSE operand
    BY <2>1, RegisterFieldPut
  <2>5. lsb <= msb /\ msb < 32 =>
           /\ FIELD_GET(operand, msb, lsb) = get_field(operand, lsb, msb - lsb + 1)
           /\ FIELD_WRITE(operand, second, msb, lsb)
                   = put_field(operand, lsb, msb - lsb + 1, second)
    BY <2>2, MacrosAgree
  <2>6. field_mask(msb, lsb) = IF msb < 32 THEN Ones(lsb, msb) ELSE {}
    BY <2>1, FieldMaskIs
  <2> QED
    BY <2>3, <2>4, <2>5, <2>6, ZenonT(60)
<1> QED
  BY <1>2, <1>3 DEF FieldsExact
------------------------------------------------------------------------------
(* Rotation by less than a word: what leaves at one end enters at the other.*)
LEMMA RotatedIn ==
    ASSUME NEW word \in SUBSET W32, NEW k \in Nat, NEW b
    PROVE  /\ rol32(word, k) \in SUBSET W32
           /\ b \in rol32(word, k) <=> b \in W32 /\ (b - (k % 32) \in word
                                                     \/ b - (k % 32) + 32 \in word)
           /\ b \in ror32(word, k) <=> b \in W32 /\ (b + (k % 32) \in word
                                                     \/ b + (k % 32) - 32 \in word)
<1> DEFINE r == k % 32
<1>1. r \in 0..31 /\ 32 - r \in Nat /\ r \in Nat
  BY DivisionForm, 32 \in Nat \ {0}
<1>2. \A c \in word : c \in 0..31
  BY WordBits
<1>3. word \in SUBSET Bits(32) /\ 32 \in Nat /\ (b \in Bits(32) <=> b \in 0..31)
      /\ W32 = Bits(32)
  BY WordBits
<1> HIDE DEF r
<1>4. CASE r = 0
  <2>1. rol32(word, k) = word /\ ror32(word, k) = word
    BY <1>4 DEF rol32, ror32, r
  <2>2. ASSUME b \in 0..31 PROVE b - r = b /\ b + r = b /\ b - r + 32 \notin word
               /\ b + r - 32 \notin word
    BY <1>2, <1>4, <2>2
  <2>3. b \in word => b \in W32 /\ b \in 0..31
    BY <1>2, <1>3
  <2> QED
    BY <1>3, <2>1, <2>2, <2>3 DEF r
<1>5. CASE r # 0
  <2>1. rol32(word, k) = Shl(word, r, 32) \union Shr(word, 32 - r)
    BY <1>5 DEF rol32, r
  <2>2. ror32(word, k) = Shr(word, r) \union Shl(word, 32 - r, 32)
    BY <1>5 DEF ror32, r
  <2>3. b \in Shl(word, r, 32) <=> b \in Bits(32) /\ b - r \in word
    BY <1>1, <1>3, ShiftedIn
  <2>4. b \in Shr(word, r) <=> b \in Bits(32) /\ b + r \in word
    BY <1>1, <1>3, ShiftedIn
  <2> DEFINE s == 32 - r
  <2>6. s \in Nat
    BY <1>1
  <2> HIDE DEF s
  <2>5. /\ Shl(word, r, 32) \in SUBSET Bits(32) /\ Shr(word, s) \in SUBSET Bits(32)
    BY <1>1, <1>3, <2>6, ShiftedIn
  <2>7. b \in Shl(word, s, 32) <=> b \in Bits(32) /\ b - s \in word
    BY <1>3, <2>6, ShiftedIn
  <2>8. b \in Shr(word, s) <=> b \in Bits(32) /\ b + s \in word
    BY <1>3, <2>6, ShiftedIn
  <2>9. ASSUME b \in 0..31 PROVE b - s = b + r - 32 /\ b + s = b - r + 32
    BY <1>1, <2>9 DEF s
  <2> QED
    BY <1>3, <2>1, <2>2, <2>3, <2>4, <2>5, <2>7, <2>8, <2>9 DEF s, r
<1> QED
  BY <1>4, <1>5

LEMMA Wraps ==
    ASSUME NEW k \in Nat, NEW c \in 0..31
    PROVE  (c + k) % 32 = IF c + (k % 32) < 32 THEN c + (k % 32) ELSE c + (k % 32) - 32
  BY SMT

LEMMA RotationsExact ==
    ASSUME NEW word \in SUBSET W32, NEW k \in Nat
    PROVE  /\ rol32(word, k) = {(b + k) % 32 : b \in word}
           /\ ror32(rol32(word, k), k) = word
<1> DEFINE r == k % 32
<1>1. r \in 0..31
  BY DivisionForm, 32 \in Nat \ {0}
<1>2. \A b \in word : b \in 0..31 /\ b \in W32
  BY WordBits
<1>3. \A b \in word : (b + k) % 32 = IF b + r < 32 THEN b + r ELSE b + r - 32
  BY <1>2, Wraps
<1>4. \A b : b \in rol32(word, k)
          <=> b \in W32 /\ (b - r \in word \/ b - r + 32 \in word)
  BY RotatedIn
<1>5. \A b : b \in ror32(rol32(word, k), k) <=>
                b \in W32 /\ (b + r \in rol32(word, k) \/ b + r - 32 \in rol32(word, k))
  <2>1. rol32(word, k) \in SUBSET W32
    BY RotatedIn
  <2> QED
    BY <2>1, RotatedIn
<1> HIDE DEF r
<1>6. ASSUME NEW b \in rol32(word, k) PROVE b \in {(c + k) % 32 : c \in word}
  <2>1. b \in 0..31 /\ (b - r \in word \/ b - r + 32 \in word)
    BY <1>4, WordBits
  <2>2. CASE b - r \in word
    <3>1. (b - r) + r < 32 /\ (b - r) + r = b
      BY <1>1, <2>1
    <3>2. ((b - r) + k) % 32 = b
      BY <1>3, <2>2, <3>1
    <3> QED
      BY <2>2, <3>2
  <2>3. CASE b - r + 32 \in word
    <3>1. ~((b - r + 32) + r < 32) /\ (b - r + 32) + r - 32 = b
      BY <1>1, <2>1
    <3>2. ((b - r + 32) + k) % 32 = b
      BY <1>3, <2>3, <3>1
    <3> QED
      BY <2>3, <3>2
  <2> QED
    BY <2>1, <2>2, <2>3
<1>7. ASSUME NEW c \in word PROVE (c + k) % 32 \in rol32(word, k)
  <2> DEFINE b == IF c + r < 32 THEN c + r ELSE c + r - 32
  <2>1. b \in 0..31 /\ (b - r = c \/ b - r + 32 = c)
    BY <1>1, <1>2
  <2>2. (c + k) % 32 = b
    BY <1>3
  <2> HIDE DEF b
  <2> QED
    BY <1>4, <2>1, <2>2, WordBits
<1>8. ASSUME NEW b \in ror32(rol32(word, k), k) PROVE b \in word
  <2>1. b \in 0..31
    BY <1>5, WordBits
  <2>2. CASE b + r \in rol32(word, k)
    <3>1. b + r \in 0..31 /\ ((b + r) - r \in word \/ (b + r) - r + 32 \in word)
      BY <1>4, <2>2, WordBits
    <3>2. (b + r) - r = b /\ (b + r) - r + 32 \notin 0..31
      BY <1>1, <2>1
    <3> QED
      BY <1>2, <3>1, <3>2
  <2>3. CASE b + r - 32 \in rol32(word, k)
    <3>1. b + r - 32 \in 0..31
          /\ ((b + r - 32) - r \in word \/ (b + r - 32) - r + 32 \in word)
      BY <1>4, <2>3, WordBits
    <3>2. (b + r - 32) - r \notin 0..31 /\ (b + r - 32) - r + 32 = b
      BY <1>1, <2>1
    <3> QED
      BY <1>2, <3>1, <3>2
  <2> QED
    BY <1>5, <2>2, <2>3
<1>9. ASSUME NEW b \in word PROVE b \in ror32(rol32(word, k), k)
  <2>1. b \in 0..31 /\ b \in W32
    BY <1>2
  <2>2. CASE b + r < 32
    <3>1. b + r \in W32 /\ (b + r) - r = b
      BY <1>1, <2>1, <2>2, WordBits
    <3>2. b + r \in rol32(word, k)
      BY <1>4, <3>1
    <3> QED
      BY <1>5, <2>1, <3>2
  <2>3. CASE ~(b + r < 32)
    <3>1. b + r - 32 \in W32 /\ (b + r - 32) - r + 32 = b
      BY <1>1, <2>1, <2>3, WordBits
    <3>2. b + r - 32 \in rol32(word, k)
      BY <1>4, <3>1
    <3> QED
      BY <1>5, <2>1, <3>2
  <2> QED
    BY <2>2, <2>3
<1> QED
  BY <1>6, <1>7, <1>8, <1>9

LEMMA BytesSwapped ==
    ASSUME NEW word \in SUBSET W32
    PROVE  bswap32(word) = {8 * (3 - b \div 8) + (b % 8) : b \in word}
<1> DEFINE there(b) == 8 * (3 - b \div 8) + (b % 8)
           part(i) == word \intersect Ones(8 * i, 8 * i + 7)
<1>0. \A b \in word : b \in 0..31
  BY WordBits
<1>1. ASSUME NEW b \in 0..31
      PROVE  there(b) = IF b <= 7 THEN b + 24 ELSE IF b <= 15 THEN b + 8
                        ELSE IF b <= 23 THEN b - 8 ELSE b - 24
  BY SMT
<1>2. bswap32(word) = Shl(part(0), 24, 32) \union Shl(part(1), 8, 32)
                          \union Shr(part(2), 8) \union Shr(part(3), 24)
  <2>1. 8 * 0 = 0 /\ 8 * 0 + 7 = 7 /\ 8 * 1 = 8 /\ 8 * 1 + 7 = 15 /\ 8 * 2 = 16
        /\ 8 * 2 + 7 = 23 /\ 8 * 3 = 24 /\ 8 * 3 + 7 = 31
    OBVIOUS
  <2> QED
    BY <2>1 DEF bswap32
<1>3. ASSUME NEW i \in 0..3
      PROVE  part(i) \in SUBSET Bits(32)
             /\ \A c : c \in part(i) <=> c \in word /\ 8 * i <= c /\ c <= 8 * i + 7
  BY <1>0, WordBits DEF Ones
<1> HIDE DEF part
<1>8. /\ part(0) \in SUBSET Bits(32) /\ part(1) \in SUBSET Bits(32)
      /\ part(2) \in SUBSET Bits(32) /\ part(3) \in SUBSET Bits(32)
  BY <1>3, 0 \in 0..3, 1 \in 0..3, 2 \in 0..3, 3 \in 0..3
<1>9. \A c : /\ c \in part(0) <=> c \in word /\ 0 <= c /\ c <= 7
             /\ c \in part(1) <=> c \in word /\ 8 <= c /\ c <= 15
             /\ c \in part(2) <=> c \in word /\ 16 <= c /\ c <= 23
             /\ c \in part(3) <=> c \in word /\ 24 <= c /\ c <= 31
  BY <1>3, 0 \in 0..3, 1 \in 0..3, 2 \in 0..3, 3 \in 0..3
<1>4. ASSUME NEW b
      PROVE  b \in bswap32(word) <=>
                b \in 0..31 /\ (b - 24 \in part(0) \/ b - 8 \in part(1)
                                \/ b + 8 \in part(2) \/ b + 24 \in part(3))
  <2>1. b \in Shl(part(0), 24, 32) <=> b \in Bits(32) /\ b - 24 \in part(0)
    BY <1>8, ShiftedIn, 32 \in Nat, 24 \in Nat
  <2>2. b \in Shl(part(1), 8, 32) <=> b \in Bits(32) /\ b - 8 \in part(1)
    BY <1>8, ShiftedIn, 32 \in Nat, 8 \in Nat
  <2>3. b \in Shr(part(2), 8) <=> b \in Bits(32) /\ b + 8 \in part(2)
    BY <1>8, ShrIn, 8 \in Nat
  <2>4. b \in Shr(part(3), 24) <=> b \in Bits(32) /\ b + 24 \in part(3)
    BY <1>8, ShrIn, 24 \in Nat
  <2> QED
    BY <1>2, <2>1, <2>2, <2>3, <2>4, WordBits
<1> HIDE DEF there
<1>5. ASSUME NEW b \in bswap32(word) PROVE \E c \in word : b = there(c)
  <2>1. b \in 0..31
    BY <1>4
  <2>2. CASE b - 24 \in part(0)
    <3>1. b - 24 \in word /\ b - 24 <= 7 /\ b - 24 \in 0..31
      BY <1>0, <1>9, <2>2
    <3>2. there(b - 24) = b
      BY <1>1, <2>1, <3>1
    <3> QED
      BY <3>1, <3>2
  <2>3. CASE b - 8 \in part(1)
    <3>1. b - 8 \in word /\ 8 <= b - 8 /\ b - 8 <= 15 /\ b - 8 \in 0..31
      BY <1>0, <1>9, <2>3
    <3>2. there(b - 8) = b
      BY <1>1, <2>1, <3>1
    <3> QED
      BY <3>1, <3>2
  <2>4. CASE b + 8 \in part(2)
    <3>1. b + 8 \in word /\ 16 <= b + 8 /\ b + 8 <= 23 /\ b + 8 \in 0..31
      BY <1>0, <1>9, <2>4
    <3>2. there(b + 8) = b
      BY <1>1, <2>1, <3>1
    <3> QED
      BY <3>1, <3>2
  <2>5. CASE b + 24 \in part(3)
    <3>1. b + 24 \in word /\ 24 <= b + 24 /\ b + 24 \in 0..31
      BY <1>0, <1>9, <2>5
    <3>2. there(b + 24) = b
      BY <1>1, <2>1, <3>1
    <3> QED
      BY <3>1, <3>2
  <2> QED
    BY <1>4, <2>2, <2>3, <2>4, <2>5
<1>6. ASSUME NEW c \in word PROVE there(c) \in bswap32(word)
  <2>1. c \in 0..31
    BY <1>0
  <2>2. CASE c <= 7
    <3>1. c \in part(0)
      BY <1>9, <2>1, <2>2
    <3>2. there(c) = c + 24 /\ (c + 24) - 24 = c /\ c + 24 \in 0..31
      BY <1>1, <2>1, <2>2
    <3> QED
      BY <1>4, <3>1, <3>2
  <2>3. CASE 8 <= c /\ c <= 15
    <3>1. c \in part(1)
      BY <1>9, <2>1, <2>3
    <3>2. there(c) = c + 8 /\ (c + 8) - 8 = c /\ c + 8 \in 0..31
      BY <1>1, <2>1, <2>3
    <3> QED
      BY <1>4, <3>1, <3>2
  <2>4. CASE 16 <= c /\ c <= 23
    <3>1. c \in part(2)
      BY <1>9, <2>1, <2>4
    <3>2. there(c) = c - 8 /\ (c - 8) + 8 = c /\ c - 8 \in 0..31
      BY <1>1, <2>1, <2>4
    <3> QED
      BY <1>4, <3>1, <3>2
  <2>5. CASE 24 <= c
    <3>1. c \in part(3)
      BY <1>9, <2>1, <2>5
    <3>2. there(c) = c - 24 /\ (c - 24) + 24 = c /\ c - 24 \in 0..31
      BY <1>1, <2>1, <2>5
    <3> QED
      BY <1>4, <3>1, <3>2
  <2> QED
    BY <2>1, <2>2, <2>3, <2>4, <2>5
<1>7. bswap32(word) = {there(c) : c \in word}
  BY <1>5, <1>6
<1> QED
  BY <1>7 DEF there

LEMMA OrdersAreExact ==
    ASSUME operand \in SUBSET W32
    PROVE  OrderExact
<1>1. \A k \in Places : k \in Nat
  BY WordsAssumption
<1>2. \A k \in Places : /\ rol32(operand, k) = {(b + k) % 32 : b \in operand}
                        /\ ror32(rol32(operand, k), k) = operand
  BY <1>1, RotationsExact
<1>3. bswap32(operand) = {8 * (3 - b \div 8) + (b % 8) : b \in operand}
  BY BytesSwapped
<1> QED
  BY <1>2, <1>3 DEF OrderExact
------------------------------------------------------------------------------
(* Adding k ones carries past bit k - 1 as soon as one of the bits below k *)
(* is set, and on through the ones above.                                  *)
LEMMA AddOnes ==
    ASSUME NEW word \in SUBSET Bits(64), NEW k \in Bits(64), NEW b \in k..63
    PROVE  b \in Add(word, 0..(k - 1), 64) <=>
              ~(b \in word <=> /\ word \intersect 0..(k - 1) # {}
                               /\ \A c \in k..(b - 1) : c \in word)
<1> DEFINE low == 0..(k - 1)
           stop == Bits(64) \ (word \union low)
           carry == Carried(word \intersect low, stop, 64)
<1>1. k \in 0..63 /\ b \in 0..63 /\ b \in Bits(64) /\ b \notin low
  BY WordBits
<1>2. \A c \in word : c \in 0..63
  BY WordBits
<1>3. b \in carry <=> b \in Bits(64) /\ \E j \in word \intersect low :
                         j < b /\ ~\E c \in stop : j < c /\ c < b
  BY CarriedIn
<1>4. ASSUME b \in carry
      PROVE  word \intersect low # {} /\ \A c \in k..(b - 1) : c \in word
  <2>1. PICK j \in word \intersect low : ~\E c \in stop : j < c /\ c < b
    BY <1>3, <1>4
  <2>2. ASSUME NEW c \in k..(b - 1) PROVE c \in word
    <3>1. j < c /\ c < b /\ c \in Bits(64) /\ c \notin low
      BY <1>1, <2>1, WordBits
    <3> QED
      BY <2>1, <3>1
  <2> QED
    BY <2>1, <2>2
<1>5. ASSUME word \intersect low # {}, \A c \in k..(b - 1) : c \in word
      PROVE  b \in carry
  <2>1. PICK j \in word \intersect low : TRUE
    BY <1>5
  <2>2. j < b /\ j \in 0..63
    BY <1>1, <1>2, <2>1
  <2>3. ASSUME NEW c \in stop, j < c, c < b PROVE FALSE
    <3>1. c \in 0..63 /\ c \notin word /\ c \notin low
      BY <2>3, WordBits
    <3>2. c \in k..(b - 1)
      BY <1>1, <2>3, <3>1
    <3> QED
      BY <1>5, <3>1, <3>2
  <2> QED
    BY <1>1, <1>3, <2>1, <2>2, <2>3
<1>6. b \in Add(word, low, 64) <=> ~(b \in Xor(word, low) <=> b \in carry)
  BY XorIn DEF Add
<1>7. b \in Xor(word, low) <=> b \in word
  BY <1>1, XorIn
<1> QED
  BY <1>4, <1>5, <1>6, <1>7

(* Rounding up: past the first gap at or above bit k, if any bit below k   *)
(* is set, what is below the gap is cleared and the gap filled.            *)
RoundedUp(word, k) ==
    {b \in k..63 : ~(b \in word <=> /\ word \intersect 0..(k - 1) # {}
                                    /\ \A c \in k..(b - 1) : c \in word)}

LEMMA RoundsUp ==
    ASSUME NEW word \in SUBSET Bits(64), NEW k \in Bits(64)
    PROVE  Add(word, 0..(k - 1), 64) \intersect Not(0..(k - 1), 64) = RoundedUp(word, k)
<1>1. ASSUME NEW b PROVE b \in Not(0..(k - 1), 64) <=> b \in k..63
  BY WordBits DEF Not
<1> QED
  BY <1>1, AddOnes DEF RoundedUp

LEMMA AlignsExact ==
    ASSUME NEW word \in SUBSET Bits(64), NEW k \in Bits(64)
    PROVE  /\ ALIGN_DOWN(word, {k}) = word \ Ones(0, k - 1)
           /\ IS_ALIGNED(word, {k}) <=> ALIGN_DOWN(word, {k}) = word
           /\ ALIGN_UP(word, {k}) = IF IS_ALIGNED(word, {k}) THEN word
                                    ELSE Add(ALIGN_DOWN(word, {k}), {k}, 64)
<1> DEFINE low == 0..(k - 1)
           down == word \ low
<1>1. Sub({k}, One, 64) = low
  BY PowerLess, WordBits
<1>2. k \in 0..63 /\ \A c \in word : c \in 0..63
  BY WordBits
<1>3. ALIGN_DOWN(word, {k}) = down
  BY <1>1 DEF ALIGN_DOWN, Not
<1>4. IS_ALIGNED(word, {k}) <=> word \intersect low = {}
  BY <1>1 DEF IS_ALIGNED
<1>5. ALIGN_UP(word, {k}) = RoundedUp(word, k)
  BY <1>1, RoundsUp DEF ALIGN_UP
<1>6. ASSUME word \intersect low = {} PROVE RoundedUp(word, k) = word
  <2>1. \A b \in word : b \in k..63
    BY <1>2, <1>6
  <2> QED
    BY <1>6, <2>1 DEF RoundedUp
<1>7. ASSUME word \intersect low # {} PROVE RoundedUp(word, k) = Add(down, {k}, 64)
  <2> DEFINE stop == Bits(64) \ (down \union {k})
             carry == Carried(down \intersect {k}, stop, 64)
  <2>1. ASSUME NEW b
        PROVE  b \in carry <=> b \in (k + 1)..63 /\ \A c \in k..(b - 1) : c \in word
    <3>1. b \in carry <=> b \in 0..63 /\ k \in word /\ k < b /\ ~\E c \in stop : k < c
          /\ c < b
      <4>1. k \in down <=> k \in word
        BY <1>2
      <4> QED
        BY <4>1, CarriedIn, WordBits
    <3>2. ASSUME b \in (k + 1)..63
          PROVE  (~\E c \in stop : k < c /\ c < b)
                     <=> \A c \in (k + 1)..(b - 1) : c \in word
      <4>1. ASSUME NEW c PROVE c \in stop /\ k < c /\ c < b
                       <=> c \in (k + 1)..(b - 1) /\ c \notin word
        BY <1>2, <3>2, WordBits
      <4> QED
        BY <4>1
    <3>3. ASSUME b \in (k + 1)..63
          PROVE  (\A c \in k..(b - 1) : c \in word)
                     <=> k \in word /\ \A c \in (k + 1)..(b - 1) : c \in word
      <4>1. \A c : c \in k..(b - 1) <=> c = k \/ c \in (k + 1)..(b - 1)
        BY <1>2, <3>3
      <4> QED
        BY <4>1
    <3>4. b \in 0..63 /\ k < b <=> b \in (k + 1)..63
      BY <1>2
    <3> QED
      BY <3>1, <3>2, <3>3, <3>4
  <2> HIDE DEF carry
  <2>2. ASSUME NEW b
        PROVE  b \in Add(down, {k}, 64) <=> ~(b \in Xor(down, {k}) <=> b \in carry)
    BY XorIn DEF Add, carry
  <2>3. ASSUME NEW b PROVE b \in Xor(down, {k}) <=> ~(b \in down <=> b = k)
    BY XorIn
  <2>4. ASSUME NEW b PROVE b \in RoundedUp(word, k) <=>
            b \in k..63 /\ ~(b \in word <=> \A c \in k..(b - 1) : c \in word)
    BY <1>7 DEF RoundedUp
  <2>5. ASSUME NEW b PROVE b \in RoundedUp(word, k) <=> b \in Add(down, {k}, 64)
    <3>1. CASE b \notin k..63
      <4>0. b \notin down
        <5>1. b \in down => b \in 0..63 /\ b \notin low
          BY <1>2
        <5> QED
          BY <1>2, <3>1, <5>1
      <4>1. b # k /\ b \notin (k + 1)..63
        BY <1>2, <3>1
      <4> QED
        BY <3>1, <4>0, <4>1, <2>1, <2>2, <2>3, <2>4
    <3>2. CASE b = k
      <4>1. b \in k..63 /\ b \notin (k + 1)..63 /\ (b \in down <=> b \in word)
            /\ \A c \in k..(b - 1) : c \in word
        BY <1>2, <3>2
      <4> QED
        BY <3>2, <4>1, <2>1, <2>2, <2>3, <2>4
    <3>3. CASE b \in (k + 1)..63
      <4>1. b \in k..63 /\ b # k /\ (b \in down <=> b \in word)
        BY <1>2, <3>3
      <4> QED
        BY <3>3, <4>1, <2>1, <2>2, <2>3, <2>4
    <3>4. b \in k..63 => b = k \/ b \in (k + 1)..63
      BY <1>2
    <3> QED
      BY <3>1, <3>2, <3>3, <3>4
  <2> QED
    BY <2>5
<1>8. IS_ALIGNED(word, {k}) <=> ALIGN_DOWN(word, {k}) = word
  BY <1>3, <1>4
<1> QED
  BY <1>3, <1>4, <1>5, <1>6, <1>7, <1>8 DEF Ones

LEMMA BarSizeIs ==
    ASSUME NEW word, NEW k \in 4..31
    PROVE  bar_size(Ones(k, 31) \union (word \intersect Ones(0, 3))) = {k}
<1> DEFINE low == 0..(k - 1)
           stop == Bits(32) \ (low \union One)
           carry == Carried(low \intersect One, stop, 32)
<1>1. Not((Ones(k, 31) \union (word \intersect Ones(0, 3))) \ Ones(0, 3), 32) = low
  <2>1. ASSUME NEW b PROVE b \in Ones(k, 31) \ Ones(0, 3) <=> b \in k..31
    BY DEF Ones
  <2>2. (Ones(k, 31) \union (word \intersect Ones(0, 3))) \ Ones(0, 3) = k..31
    BY <2>1
  <2>3. Bits(32) \ (k..31) = low
    BY WordBits
  <2> QED
    BY <2>2, <2>3 DEF Not
<1>2. ASSUME NEW b PROVE b \in carry <=> b \in 1..k
  <2>1. b \in carry <=> b \in 0..31 /\ 0 < b /\ ~\E c \in stop : 0 < c /\ c < b
    BY CarriedIn, WordBits DEF One
  <2>2. ASSUME NEW c PROVE c \in stop <=> c \in k..31
    BY WordBits DEF One
  <2>3. ASSUME b \in carry PROVE b \in 1..k
    <3>1. b \in 0..31 /\ 0 < b /\ k \in stop /\ 0 < k
      BY <2>1, <2>2, <2>3
    <3>2. ~(k < b)
      BY <2>1, <2>3, <3>1
    <3> QED
      BY <3>1, <3>2
  <2>4. ASSUME b \in 1..k PROVE b \in carry
    BY <2>1, <2>2, <2>4
  <2> QED
    BY <2>3, <2>4
<1>3. ASSUME NEW b PROVE b \in Add(low, One, 32) <=> b = k
  <2> HIDE DEF carry
  <2>1. b \in Add(low, One, 32) <=> ~(b \in Xor(low, One) <=> b \in carry)
    BY XorIn DEF Add, carry
  <2>2. b \in Xor(low, One) <=> ~(b \in low <=> b = 0)
    BY XorIn DEF One
  <2> QED
    BY <1>2, <2>1, <2>2
<1> QED
  BY <1>1, <1>3 DEF bar_size

LEMMA CombinedIn ==
    ASSUME NEW upper \in SUBSET W32, NEW lower \in SUBSET W32
    PROVE  combine64(upper, lower) \in SUBSET Bits(64)
  BY WordBits DEF combine64, Shl

(* A bridge window is the megabyte the memory begins at or the next, or    *)
(* the one there was if there is no next.                                  *)
LEMMA WindowIs ==
    ASSUME NEW base \in SUBSET Bits(64), NEW old
    PROVE  WindowExact(old, base)
<1> DEFINE last == Ones(20, 63) \subseteq base /\ base \intersect Ones(0, 19) # {}
           there == program_bridge_window(old, base)
           up == RoundedUp(base, 20)
<1>1. \A c \in base : c \in 0..63
  BY WordBits
<1>2. Not(Ones(0, 19), 64) = 20..63 /\ Ones(20, 63) = 20..63 /\ Ones(0, 19) = 0..19
  BY WordBits DEF Not, Ones
<1>3. Refused(base) <=> last
  <2> DEFINE most == 20..63
  <2>1. Refused(base) <=> \E m \in base \ most : \A c \in Xor(base, most) : c <= m
    BY <1>2 DEF Refused, Above
  <2>2. ASSUME NEW m \in base \ most, \A c \in Xor(base, most) : c <= m PROVE last
    <3>1. m \in 0..19
      BY <1>1, <2>2
    <3>2. ASSUME NEW c \in most PROVE c \in base
      <4>1. c \notin base => c \in Xor(base, most)
        BY <3>2, XorIn
      <4>2. ~(c <= m)
        BY <3>1, <3>2
      <4> QED
        BY <2>2, <4>1, <4>2
    <3> QED
      BY <1>2, <2>2, <3>1, <3>2
  <2>3. ASSUME last PROVE \E m \in base \ most : \A c \in Xor(base, most) : c <= m
    <3> DEFINE rest == base \ most
    <3>1. rest \in SUBSET Bits(64) /\ rest # {}
      BY <1>1, <1>2, <2>3
    <3>2. PICK m \in rest : \A c \in rest : c <= m
      BY <3>1, HighestIs, WordBits, ZenonT(60)
    <3>3. ASSUME NEW c \in Xor(base, most) PROVE c \in rest
      <4>1. ~(c \in base <=> c \in most)
        BY <3>3, XorIn
      <4>2. c \in most => c \in base
        BY <1>2, <2>3
      <4> QED
        BY <4>1, <4>2
    <3> QED
      BY <3>2, <3>3
  <2> QED
    BY <2>1, <2>2, <2>3
<1>4. CASE last
  <2>1. there = old
    BY <1>3, <1>4 DEF program_bridge_window
  <2> QED
    BY <1>4, <2>1 DEF WindowExact
<1>5. CASE ~last
  <2>1. 20 \in Bits(64) /\ 20 - 1 = 19
    BY WordBits
  <2>2. there = up
    BY <1>2, <1>3, <1>5, <2>1, RoundsUp, ZenonT(60) DEF program_bridge_window, Ones
  <2>3. \A b : b \in up <=> b \in 20..63 /\ ~(b \in base <=>
            base \intersect 0..19 # {} /\ \A c \in 20..(b - 1) : c \in base)
    BY <2>1 DEF RoundedUp
  <2> HIDE DEF up
  <2>4. up \intersect Ones(0, 19) = {}
    BY <1>2, <2>3
  <2>5. ASSUME NEW m \in base \ up, \A c \in Xor(base, up) : c <= m PROVE FALSE
    <3>1. m \in 0..63
      BY <1>1
    <3>2. base \intersect 0..19 # {}
      <4>1. CASE m \in 20..63
        BY <2>3, <2>5, <4>1
      <4>2. CASE m \notin 20..63
        <5>1. m \in 0..19
          BY <3>1, <4>2
        <5> QED
          BY <5>1
      <4> QED
        BY <4>1, <4>2
    <3> DEFINE gaps == {c \in 20..63 : c \notin base}
    <3>3. gaps # {} /\ gaps \in SUBSET Nat
      BY <1>2, <1>5, <3>2
    <3>4. PICK g \in gaps : \A c \in gaps : g <= c
      BY <3>3, LeastNatural
    <3>5. g \in 20..63 /\ g \notin base /\ \A c \in 20..(g - 1) : c \in base
      BY <3>4
    <3>6. g \in Xor(base, up)
      BY <2>3, <3>2, <3>5, XorIn
    <3>7. g <= m /\ g # m
      BY <2>5, <3>5, <3>6
    <3>8. m \in 20..63 /\ g \in 20..(m - 1)
      BY <3>1, <3>5, <3>7
    <3> QED
      BY <2>3, <2>5, <3>5, <3>8
  <2>6. ~Above(base, up)
    BY <2>5 DEF Above
  <2>7. up \subseteq Add(base, Ones(0, 19), 64)
    BY <1>2, <1>3, <1>5, <2>2 DEF program_bridge_window
  <2>8. ~Above(up, Add(base, Ones(0, 19), 64))
    BY <2>7 DEF Above
  <2> QED
    BY <1>5, <2>2, <2>4, <2>6, <2>8 DEF WindowExact
<1> QED
  BY <1>4, <1>5

LEMMA AddressesAreExact ==
    ASSUME operand \in SUBSET W32, second \in SUBSET W32
    PROVE  AddressesExact
<1> DEFINE base == combine64(second, operand)
<1>1. base \in SUBSET Bits(64)
  BY CombinedIn
<1> HIDE DEF base
<1>2. \A k \in Places \intersect Bits(64) :
              /\ ALIGN_DOWN(base, {k}) = base \ Ones(0, k - 1)
              /\ IS_ALIGNED(base, {k}) <=> ALIGN_DOWN(base, {k}) = base
              /\ ALIGN_UP(base, {k}) = IF IS_ALIGNED(base, {k}) THEN base
                     ELSE Add(ALIGN_DOWN(base, {k}), {k}, 64)
  BY <1>1, AlignsExact
<1>3. \A k \in 4..31 :
         bar_size(Ones(k, 31) \union (operand \intersect Ones(0, 3))) = {k}
  BY BarSizeIs
<1>4. \A old \in Seconds : WindowExact(old, base)
  BY <1>1, WindowIs
<1> QED
  BY <1>2, <1>3, <1>4 DEF AddressesExact, base
------------------------------------------------------------------------------
(* A bit as a number, four bits as a number, and how many of four are set. *)
BitOf(word, i) == IF i \in word THEN 1 ELSE 0
Lane(word, i) == BitOf(word, i) + 2 * BitOf(word, i + 1)
                     + 4 * BitOf(word, i + 2) + 8 * BitOf(word, i + 3)
Ones4(word, i) == BitOf(word, i) + BitOf(word, i + 1)
                     + BitOf(word, i + 2) + BitOf(word, i + 3)
Carries(a, b, width) == Carried(a \intersect b, Bits(width) \ (a \union b), width)

LEMMA BitType == \A word, i : BitOf(word, i) \in {0, 1}
  BY DEF BitOf

(* Add is addition: no carry comes into bit 0, and at every bit the two    *)
(* bits and the carry are the bit of the sum and twice the next carry.     *)
THEOREM AddsBitByBit ==
    ASSUME NEW width \in Nat, NEW a \in SUBSET Bits(width),
           NEW b \in SUBSET Bits(width),
           NEW i \in Bits(width)
    PROVE  /\ BitOf(Carries(a, b, width), 0) = 0
           /\ \E next \in {0, 1} :
                 /\ BitOf(a, i) + BitOf(b, i) + BitOf(Carries(a, b, width), i)
                       = BitOf(Add(a, b, width), i) + 2 * next
                 /\ i + 1 \in Bits(width) => next = BitOf(Carries(a, b, width), i + 1)
<1> DEFINE stop == Bits(width) \ (a \union b)
           carry == Carries(a, b, width)
<1>1. \A c \in Bits(width) : c \in Nat /\ c < width
  BY DEF Bits
<1>2. ASSUME NEW c PROVE c \in carry <=> c \in Bits(width) /\ \E j \in a \intersect b :
                             j < c /\ ~\E k \in stop : j < k /\ k < c
  BY CarriedIn DEF Carries
<1>3. BitOf(carry, 0) = 0
  <2>1. \A j \in a \intersect b : ~(j < 0)
    BY <1>1
  <2> QED
    BY <1>2, <2>1 DEF BitOf
<1>4. i \in Add(a, b, width) <=> ~(~(i \in a <=> i \in b) <=> i \in carry)
  <2>1. i \in Add(a, b, width) <=> ~(i \in Xor(a, b) <=> i \in carry)
    BY XorIn DEF Add, Carries
  <2> QED
    BY <2>1, XorIn
<1>5. ASSUME i + 1 \in Bits(width)
      PROVE  i + 1 \in carry <=> \/ i \in a /\ i \in b
                                 \/ (i \in a \/ i \in b) /\ i \in carry
  <2>1. ASSUME i + 1 \in carry, ~(i \in a /\ i \in b)
        PROVE  (i \in a \/ i \in b) /\ i \in carry
    <3>1. PICK j \in a \intersect b : j < i + 1 /\ ~\E k \in stop : j < k /\ k < i + 1
      BY <1>2, <2>1
    <3>2. j \in Nat /\ i \in Nat /\ j # i
      BY <1>1, <2>1, <3>1
    <3>3. j < i /\ i < i + 1
      BY <3>1, <3>2
    <3>4. i \notin stop
      BY <3>1, <3>3
    <3>5. \A k \in stop : k < i => k < i + 1
      BY <1>1
    <3> QED
      BY <1>2, <3>1, <3>3, <3>4, <3>5
  <2>2. ASSUME i \in a, i \in b PROVE i + 1 \in carry
    <3>1. i < i + 1 /\ \A k \in stop : ~(i < k /\ k < i + 1)
      BY <1>1
    <3> QED
      BY <1>2, <1>5, <2>2, <3>1
  <2>3. ASSUME i \in a \/ i \in b, i \in carry PROVE i + 1 \in carry
    <3>1. PICK j \in a \intersect b : j < i /\ ~\E k \in stop : j < k /\ k < i
      BY <1>2, <2>3
    <3>2. j < i + 1
      BY <1>1, <3>1
    <3>3. ASSUME NEW k \in stop, j < k, k < i + 1 PROVE FALSE
      <4>1. k # i
        BY <2>3
      <4>2. k < i
        BY <1>1, <3>3, <4>1
      <4> QED
        BY <3>1, <3>3, <4>2
    <3> QED
      BY <1>2, <1>5, <3>1, <3>2, <3>3
  <2> QED
    BY <2>1, <2>2, <2>3
<1> DEFINE next == IF (i \in a /\ i \in b) \/ ((i \in a \/ i \in b) /\ i \in carry)
                     THEN 1 ELSE 0
<1>6. BitOf(a, i) + BitOf(b, i) + BitOf(carry, i)
          = BitOf(Add(a, b, width), i) + 2 * next
  <2> HIDE DEF carry
  <2> QED
    BY <1>4 DEF BitOf
<1>7. i + 1 \in Bits(width) => next = BitOf(carry, i + 1)
  <2> HIDE DEF carry
  <2> QED
    BY <1>5 DEF BitOf
<1>8. next \in {0, 1}
  OBVIOUS
<1> HIDE DEF next
<1> QED
  BY <1>3, <1>6, <1>7, <1>8

(* Four bits at a time, with the carry into them and the one out of them.  *)
LEMMA LaneAdds ==
    ASSUME NEW a \in SUBSET W32, NEW b \in SUBSET W32, NEW i \in 0..28
    PROVE  \E c \in {0, 1} :
              /\ Lane(Add(a, b, 32), i) + 16 * c
                    = Lane(a, i) + Lane(b, i) + BitOf(Carries(a, b, 32), i)
              /\ i < 28 => c = BitOf(Carries(a, b, 32), i + 4)
<1> DEFINE s == Add(a, b, 32)
           k(j) == BitOf(Carries(a, b, 32), j)
<1>1. ASSUME NEW j \in 0..31
      PROVE  \E c \in {0, 1} : /\ BitOf(a, j) + BitOf(b, j) + k(j) = BitOf(s, j) + 2 * c
                               /\ j < 31 => c = k(j + 1)
  <2>1. j + 1 \in Bits(32) <=> j < 31
    BY WordBits
  <2>2. a \in SUBSET Bits(32) /\ b \in SUBSET Bits(32) /\ j \in Bits(32) /\ 32 \in Nat
    BY WordBits
  <2> QED
    BY <2>1, <2>2, AddsBitByBit
<1> HIDE DEF s, k
<1>2. /\ i \in 0..31 /\ i + 1 \in 0..31 /\ i + 2 \in 0..31 /\ i + 3 \in 0..31
      /\ i < 31 /\ i + 1 < 31 /\ i + 2 < 31 /\ (i < 28 => i + 3 < 31)
      /\ (i + 1) + 1 = i + 2 /\ (i + 2) + 1 = i + 3 /\ (i + 3) + 1 = i + 4
  OBVIOUS
<1>3. BitOf(a, i) + BitOf(b, i) + k(i) = BitOf(s, i) + 2 * k(i + 1)
  BY <1>1, <1>2
<1>4. BitOf(a, i + 1) + BitOf(b, i + 1) + k(i + 1) = BitOf(s, i + 1) + 2 * k(i + 2)
  BY <1>1, <1>2
<1>5. BitOf(a, i + 2) + BitOf(b, i + 2) + k(i + 2) = BitOf(s, i + 2) + 2 * k(i + 3)
  BY <1>1, <1>2
<1>6. PICK c \in {0, 1} : /\ BitOf(a, i + 3) + BitOf(b, i + 3) + k(i + 3)
                                = BitOf(s, i + 3) + 2 * c
                          /\ i < 28 => c = k(i + 4)
  BY <1>1, <1>2
<1>7. \A j : k(j) \in {0, 1}
  BY BitType DEF k
<1>8. Lane(s, i) + 16 * c = Lane(a, i) + Lane(b, i) + k(i)
  <2>1. /\ BitOf(a, i) \in Int /\ BitOf(a, i + 1) \in Int /\ BitOf(a, i + 2) \in Int
        /\ BitOf(a, i + 3) \in Int /\ BitOf(b, i) \in Int /\ BitOf(b, i + 1) \in Int
        /\ BitOf(b, i + 2) \in Int /\ BitOf(b, i + 3) \in Int
        /\ BitOf(s, i) \in Int /\ BitOf(s, i + 1) \in Int
        /\ BitOf(s, i + 2) \in Int /\ BitOf(s, i + 3) \in Int
    BY DEF BitOf
  <2>2. /\ k(i) \in Int /\ k(i + 1) \in Int /\ k(i + 2) \in Int /\ k(i + 3) \in Int
    BY <1>7
  <2> QED
    BY <1>3, <1>4, <1>5, <1>6, <2>1, <2>2 DEF Lane
<1> QED
  BY <1>6, <1>8 DEF s, k

LEMMA LaneType ==
    ASSUME NEW word, NEW i
    PROVE  /\ Lane(word, i) \in 0..15 /\ Ones4(word, i) \in 0..4
           /\ BitOf(word, i) \in Int /\ BitOf(word, i + 1) \in Int
           /\ BitOf(word, i + 2) \in Int /\ BitOf(word, i + 3) \in Int
           /\ (Lane(word, i) <= 1 => Lane(word, i) = BitOf(word, i))
           /\ (i + 3 \notin word <=> Lane(word, i) < 8)
<1> DEFINE p == BitOf(word, i)
           q == BitOf(word, i + 1)
           r == BitOf(word, i + 2)
           s == BitOf(word, i + 3)
<1>1. p \in {0, 1} /\ q \in {0, 1} /\ r \in {0, 1} /\ s \in {0, 1}
  BY BitType
<1>2. s = 1 <=> i + 3 \in word
  BY DEF BitOf
<1>3. Lane(word, i) = p + 2 * q + 4 * r + 8 * s /\ Ones4(word, i) = p + q + r + s
  BY DEF Lane, Ones4
<1> HIDE DEF p, q, r, s
<1>4. /\ Lane(word, i) \in 0..15 /\ Ones4(word, i) \in 0..4
      /\ p \in Int /\ q \in Int /\ r \in Int /\ s \in Int
      /\ Lane(word, i) < 8 <=> s # 1
      /\ Lane(word, i) <= 1 => Lane(word, i) = p
  BY <1>1, <1>3
<1> QED
  BY <1>2, <1>4 DEF p, q, r, s

(* No carry comes into a bit if neither word has the bit below it.         *)
LEMMA NoCarryInto ==
    ASSUME NEW a \in SUBSET W32, NEW b \in SUBSET W32, NEW i \in 0..31,
           i = 0 \/ (i - 1 \notin a /\ i - 1 \notin b)
    PROVE  BitOf(Carries(a, b, 32), i) = 0
<1>1. a \in SUBSET Bits(32) /\ b \in SUBSET Bits(32) /\ 32 \in Nat /\ i \in Bits(32)
  BY WordBits
<1>2. CASE i = 0
  BY <1>1, <1>2, AddsBitByBit
<1>3. CASE i # 0
  <2>1. i - 1 \in Bits(32) /\ (i - 1) + 1 = i
    BY <1>3, WordBits
  <2>2. PICK next \in {0, 1} :
           /\ BitOf(a, i - 1) + BitOf(b, i - 1) + BitOf(Carries(a, b, 32), i - 1)
                 = BitOf(Add(a, b, 32), i - 1) + 2 * next
           /\ next = BitOf(Carries(a, b, 32), i)
    BY <1>1, <2>1, AddsBitByBit
  <2>3. BitOf(a, i - 1) = 0 /\ BitOf(b, i - 1) = 0
    BY <1>3 DEF BitOf
  <2>4. BitOf(Carries(a, b, 32), i - 1) \in {0, 1}
        /\ BitOf(Add(a, b, 32), i - 1) \in {0, 1}
    BY BitType
  <2> QED
    BY <2>2, <2>3, <2>4
<1> QED
  BY <1>2, <1>3
(* After the first step of popcount_swar each pair of bits holds their     *)
(* number, after the second each four, after the third each byte.          *)
LEMMA PairsCount ==
    ASSUME NEW word \in SUBSET W32, NEW q \in 0..15
    PROVE  /\ Pairs(word) \in SUBSET W32
           /\ BitOf(Pairs(word), 2 * q) + 2 * BitOf(Pairs(word), 2 * q + 1)
                 = BitOf(word, 2 * q) + BitOf(word, 2 * q + 1)
<1> DEFINE odds == Shr(word, 1) \intersect Lower(1)
           stop == word \ odds
           borrow == Carried(odds \ word, stop, 32)
           i == 2 * q
<1>0. i \in 0..30 /\ i % 2 = 0 /\ (i + 1) % 2 = 1 /\ i \in 0..31 /\ i + 1 \in 0..31
  BY SMT
<1>1. ASSUME NEW j PROVE j \in odds <=> j \in 0..31 /\ j % 2 = 0 /\ j + 1 \in word
  <2>1. j \in Shr(word, 1) <=> j \in 0..31 /\ j + 1 \in word
    BY ShrIn, WordBits
  <2>2. j \in Lower(1) <=> j \in 0..31 /\ j % 2 < 1
    BY WordBits, 2 * 1 = 2 DEF Lower
  <2>3. j \in 0..31 => (j % 2 < 1 <=> j % 2 = 0)
    BY SMT
  <2> QED
    BY <2>1, <2>2, <2>3
<1>2. ASSUME NEW b
      PROVE  b \in Pairs(word) <=>
               b \in 0..31 /\ ~(~(b \in word <=> b \in odds) <=> b \in borrow)
  <2>1. b \in Pairs(word) <=> ~(b \in Xor(word, odds) <=> b \in borrow)
    BY XorIn DEF Pairs, Sub
  <2>2. b \in Xor(word, odds) <=> ~(b \in word <=> b \in odds)
    BY XorIn
  <2>3. b \in word \/ b \in odds \/ b \in borrow => b \in 0..31
    BY <1>1, WordBits, CarriedIn
  <2> QED
    BY <2>1, <2>2, <2>3
<1>3. ASSUME NEW b PROVE b \in borrow <=> b \in 0..31 /\ \E j \in odds \ word :
                                j < b /\ ~\E k \in stop : j < k /\ k < b
  BY CarriedIn, WordBits
<1> HIDE DEF odds, stop, borrow, i
<1>4. ASSUME NEW j \in odds \ word, NEW b \in 0..31, j < b, ~\E k \in stop : j < k
             /\ k < b
      PROVE  b = j + 1 /\ j % 2 = 0
  <2>1. j \in 0..31 /\ j % 2 = 0 /\ j + 1 \in word
    BY <1>1
  <2>2. (j + 1) % 2 = 1
    BY <2>1, SMT
  <2>3. j + 1 \notin odds
    BY <1>1, <2>2
  <2>4. j + 1 \in stop
    BY <2>1, <2>3 DEF stop
  <2>5. ~(j < j + 1 /\ j + 1 < b)
    BY <1>4, <2>4
  <2> QED
    BY <1>4, <2>1, <2>5
<1>5. i \notin borrow
  <2>1. ASSUME NEW j \in Int, i = j + 1, j % 2 = 0 PROVE FALSE
    BY <1>0, <2>1, SMT
  <2>2. \A j \in odds : j \in Int
    BY <1>1
  <2> QED
    BY <1>0, <1>3, <1>4, <2>1, <2>2
<1>6. i + 1 \in borrow <=> i \in odds /\ i \notin word
  <2>1. ASSUME i + 1 \in borrow PROVE i \in odds /\ i \notin word
    <3>1. PICK j \in odds \ word : j < i + 1 /\ ~\E k \in stop : j < k /\ k < i + 1
      BY <1>3, <2>1
    <3>2. i + 1 = j + 1 /\ j \in Int
      BY <1>0, <1>1, <1>4, <3>1
    <3>3. i = j
      BY <1>0, <3>2
    <3> QED
      BY <3>1, <3>3
  <2>2. ASSUME i \in odds, i \notin word PROVE i + 1 \in borrow
    <3>1. ~\E k \in stop : i < k /\ k < i + 1
      <4>1. \A k \in stop : k \in 0..31
        BY WordBits DEF stop
      <4> QED
        BY <1>0, <4>1
    <3> QED
      BY <1>0, <1>3, <2>2, <3>1
  <2> QED
    BY <2>1, <2>2
<1>7. (i \in odds <=> i + 1 \in word) /\ i + 1 \notin odds
  BY <1>0, <1>1
<1>8. i \in Pairs(word) <=> ~(i \in word <=> i + 1 \in word)
  BY <1>0, <1>2, <1>5, <1>7
<1>9. i + 1 \in Pairs(word) <=> i \in word /\ i + 1 \in word
  BY <1>0, <1>2, <1>6, <1>7
<1>10. BitOf(Pairs(word), i) + 2 * BitOf(Pairs(word), i + 1)
           = BitOf(word, i) + BitOf(word, i + 1)
  BY <1>8, <1>9 DEF BitOf
<1> QED
  BY <1>2, <1>10, WordBits DEF i

LEMMA FoursCount ==
    ASSUME NEW word \in SUBSET W32, NEW q \in 0..7
    PROVE  /\ Fours(Pairs(word)) \in SUBSET W32
           /\ Lane(Fours(Pairs(word)), 4 * q) = Ones4(word, 4 * q)
<1> DEFINE p == Pairs(word)
           a == p \intersect Lower(2)
           b == Shr(p, 2) \intersect Lower(2)
           i == 4 * q
<1>0. i \in 0..28 /\ i % 4 = 0 /\ (i + 1) % 4 = 1 /\ (i + 2) % 4 = 2 /\ (i + 3) % 4 = 3
      /\ 2 * (2 * q) = i /\ 2 * (2 * q + 1) = i + 2 /\ 2 * (2 * q + 1) + 1 = i + 3
      /\ 2 * q \in 0..15 /\ 2 * q + 1 \in 0..15
      /\ i + 1 \in 0..31 /\ i + 2 \in 0..31 /\ i + 3 \in 0..31 /\ i \in 0..31
      /\ (i = 0 \/ (i - 1 \in 0..31 /\ (i - 1) % 4 = 3))
  BY SMT
<1>1. /\ p \in SUBSET W32
      /\ BitOf(p, i) + 2 * BitOf(p, i + 1) = BitOf(word, i) + BitOf(word, i + 1)
      /\ BitOf(p, i + 2) + 2 * BitOf(p, i + 3) = BitOf(word, i + 2) + BitOf(word, i + 3)
  BY <1>0, PairsCount
<1> HIDE DEF p, i
<1>2. ASSUME NEW j \in 0..31 PROVE j \in Lower(2) <=> j % 4 < 2
  BY WordBits, 2 * 2 = 4 DEF Lower
<1>3. ASSUME NEW j \in 0..31
      PROVE  /\ j \in a <=> j \in p /\ j % 4 < 2
             /\ j \in b <=> j + 2 \in p /\ j % 4 < 2
  <2>1. j \in Shr(p, 2) <=> j + 2 \in p
    BY <1>1, ShrIn, WordBits, 2 \in Nat
  <2> QED
    BY <1>2, <2>1
<1>4. a \in SUBSET W32 /\ b \in SUBSET W32
  BY <1>1, WordBits DEF Lower
<1> HIDE DEF a, b
<1>5. Lane(a, i) = BitOf(p, i) + 2 * BitOf(p, i + 1)
  BY <1>0, <1>3 DEF Lane, BitOf
<1>6. Lane(b, i) = BitOf(p, i + 2) + 2 * BitOf(p, i + 3)
  <2>1. (i + 1) + 2 = i + 3
    BY <1>0
  <2> QED
    BY <1>0, <1>3, <2>1 DEF Lane, BitOf
<1>7. BitOf(Carries(a, b, 32), i) = 0
  <2>1. i = 0 \/ (i - 1 \notin a /\ i - 1 \notin b)
    BY <1>0, <1>3
  <2> QED
    BY <1>0, <1>4, <2>1, NoCarryInto, ZenonT(60)
<1>8. PICK c \in {0, 1} : Lane(Add(a, b, 32), i) + 16 * c
                             = Lane(a, i) + Lane(b, i) + BitOf(Carries(a, b, 32), i)
  BY <1>0, <1>4, LaneAdds
<1>9. Lane(Add(a, b, 32), i) \in 0..15 /\ Ones4(word, i) \in 0..4
      /\ Lane(a, i) \in 0..15 /\ Lane(b, i) \in 0..15
  BY LaneType
<1>10. Lane(a, i) + Lane(b, i) = Ones4(word, i)
  <2>1. /\ BitOf(word, i) \in Int /\ BitOf(word, i + 1) \in Int
        /\ BitOf(word, i + 2) \in Int /\ BitOf(word, i + 3) \in Int
    BY LaneType
  <2> QED
    BY <1>1, <1>5, <1>6, <1>9, <2>1 DEF Ones4
<1>11. Lane(Add(a, b, 32), i) = Ones4(word, i)
  BY <1>7, <1>8, <1>9, <1>10
<1>12. Fours(p) = Add(a, b, 32)
  BY DEF Fours, a, b
<1>13. Add(a, b, 32) \in SUBSET W32
  BY <1>4, WordBits DEF Add, Xor, Carried
<1> QED
  BY <1>11, <1>12, <1>13 DEF p, i

LEMMA BytesCount ==
    ASSUME NEW word \in SUBSET W32, NEW q \in 0..3
    PROVE  LET bytes == Bytes(Fours(Pairs(word)))
           IN  /\ bytes \in SUBSET W32
               /\ Lane(bytes, 8 * q) = Ones4(word, 8 * q) + Ones4(word, 8 * q + 4)
               /\ Lane(bytes, 8 * q + 4) = 0
<1> DEFINE f == Fours(Pairs(word))
           b == Shr(f, 4)
           s == Add(f, b, 32)
           i == 8 * q
<1>0. i \in 0..24 /\ 4 * (2 * q) = i /\ 4 * (2 * q + 1) = i + 4
      /\ 2 * q \in 0..7 /\ 2 * q + 1 \in 0..7 /\ i \in 0..28 /\ i \in 0..31
  BY SMT
<1>a. (i + 0) % 8 = 0 /\ (i + 1) % 8 = 1 /\ (i + 2) % 8 = 2 /\ (i + 3) % 8 = 3
      /\ (i + 4) % 8 = 4 /\ (i + 5) % 8 = 5 /\ (i + 6) % 8 = 6 /\ (i + 7) % 8 = 7
  BY SMT
<1>1. ASSUME NEW k \in 0..7
      PROVE  f \in SUBSET W32 /\ Lane(f, 4 * k) = Ones4(word, 4 * k)
             /\ 4 * k + 3 \notin f
  <2>1. f \in SUBSET W32 /\ Lane(f, 4 * k) = Ones4(word, 4 * k)
    BY FoursCount
  <2>2. Ones4(word, 4 * k) < 8
    BY LaneType
  <2> QED
    BY <2>1, <2>2, LaneType
<1> HIDE DEF f
<1>2. f \in SUBSET W32 /\ f \in SUBSET Bits(32)
  BY <1>1, WordBits, 0 \in 0..7
<1>3. \A j \in 0..31 : j \in b <=> j + 4 \in f
  BY <1>2, ShrIn, WordBits, 4 \in Nat
<1>4. b \in SUBSET W32
  BY <1>2, ShiftedIn, WordBits, 4 \in Nat, SMTT(60)
<1> HIDE DEF b
<1>5. Lane(b, i) = Lane(f, i + 4)
  <2>1. (i + 1) + 4 = (i + 4) + 1 /\ (i + 2) + 4 = (i + 4) + 2
        /\ (i + 3) + 4 = (i + 4) + 3
        /\ i \in 0..31 /\ i + 1 \in 0..31 /\ i + 2 \in 0..31 /\ i + 3 \in 0..31
    BY <1>0
  <2>2. BitOf(b, i) = BitOf(f, i + 4) /\ BitOf(b, i + 1) = BitOf(f, (i + 4) + 1)
        /\ BitOf(b, i + 2) = BitOf(f, (i + 4) + 2)
           /\ BitOf(b, i + 3) = BitOf(f, (i + 4) + 3)
    BY <1>3, <2>1 DEF BitOf
  <2> QED
    BY <2>2 DEF Lane
<1>6. BitOf(Carries(f, b, 32), i) = 0
  <2>1. CASE i = 0
    BY <1>0, <1>2, <1>4, <2>1, NoCarryInto
  <2>2. CASE i # 0
    <3>1. q # 0 /\ 2 * q - 1 \in 0..7 /\ 4 * (2 * q - 1) + 3 = i - 1 /\ i - 1 \in 0..31
          /\ 4 * (2 * q) + 3 = (i - 1) + 4
      BY <2>2
    <3>2. i - 1 \notin f /\ (i - 1) + 4 \notin f
      BY <1>0, <1>1, <3>1
    <3>3. i - 1 \notin b
      BY <1>3, <3>1, <3>2
    <3> QED
      BY <1>0, <1>2, <1>4, <3>2, <3>3, NoCarryInto
  <2> QED
    BY <2>1, <2>2
<1> HIDE DEF i
<1>7. PICK c \in {0, 1} : Lane(s, i) + 16 * c
                             = Lane(f, i) + Lane(b, i) + BitOf(Carries(f, b, 32), i)
  BY <1>0, <1>2, <1>4, LaneAdds
<1>8. Lane(f, i) = Ones4(word, i) /\ Lane(f, i + 4) = Ones4(word, i + 4)
  BY <1>0, <1>1
<1> HIDE DEF s
<1>9. Lane(s, i) \in 0..15 /\ Ones4(word, i) \in 0..4 /\ Ones4(word, i + 4) \in 0..4
  BY LaneType
<1>10. Lane(s, i) = Ones4(word, i) + Ones4(word, i + 4)
  BY <1>5, <1>6, <1>7, <1>8, <1>9
<1> DEFINE t == s \intersect Lower(4)
<1>11. \A j \in 0..31 : j \in t <=> j \in s /\ j % 8 < 4
  BY WordBits, 2 * 4 = 8 DEF Lower
<1>12. t = Bytes(Fours(Pairs(word))) /\ t \in SUBSET W32
  BY DEF Bytes, s, b, f, Lower
<1> HIDE DEF t
<1>13. Lane(t, i) = Lane(s, i)
  <2>1. i \in t <=> i \in s
    BY <1>0, <1>a, <1>11, i + 0 = i
  <2>2. i + 1 \in t <=> i + 1 \in s
    BY <1>0, <1>a, <1>11
  <2>3. i + 2 \in t <=> i + 2 \in s
    BY <1>0, <1>a, <1>11
  <2>4. i + 3 \in t <=> i + 3 \in s
    BY <1>0, <1>a, <1>11
  <2> QED
    BY <2>1, <2>2, <2>3, <2>4 DEF Lane, BitOf
<1>14. Lane(t, i + 4) = 0
  <2>1. i + 4 \notin t
    BY <1>0, <1>a, <1>11
  <2>2. i + 5 \notin t
    BY <1>0, <1>a, <1>11
  <2>3. i + 6 \notin t
    BY <1>0, <1>a, <1>11
  <2>4. i + 7 \notin t
    BY <1>0, <1>a, <1>11
  <2>5. (i + 4) + 1 = i + 5 /\ (i + 4) + 2 = i + 6 /\ (i + 4) + 3 = i + 7
    BY <1>0
  <2> QED
    BY <2>1, <2>2, <2>3, <2>4, <2>5 DEF Lane, BitOf
<1> QED
  BY <1>10, <1>12, <1>13, <1>14 DEF i
(* The product with 0x01010101 adds the four bytes up in the highest.      *)
LEMMA ShiftedLane ==
    ASSUME NEW word \in SUBSET W32, NEW k \in 0..24, NEW i \in k..28
    PROVE  /\ Shl(word, k, 32) \in SUBSET W32
           /\ Lane(Shl(word, k, 32), i) = Lane(word, i - k)
<1> DEFINE s == Shl(word, k, 32)
<1>1. word \in SUBSET Bits(32) /\ 32 \in Nat /\ k \in Nat /\ i \in 0..28
  BY WordBits
<1>2. ASSUME NEW j \in 0..31 PROVE j \in s <=> j - k \in word
  <2>1. j \in Bits(32)
    BY WordBits
  <2> QED
    BY <1>1, <2>1, ShiftedIn
<1>3. s \in SUBSET W32
  BY <1>1, ShiftedIn, WordBits
<1> HIDE DEF s
<1>4. /\ i \in 0..31 /\ i + 1 \in 0..31 /\ i + 2 \in 0..31 /\ i + 3 \in 0..31
      /\ (i + 1) - k = (i - k) + 1 /\ (i + 2) - k = (i - k) + 2
         /\ (i + 3) - k = (i - k) + 3
  BY <1>1
<1>5. /\ BitOf(s, i) = BitOf(word, i - k) /\ BitOf(s, i + 1) = BitOf(word, (i - k) + 1)
      /\ BitOf(s, i + 2) = BitOf(word, (i - k) + 2)
         /\ BitOf(s, i + 3) = BitOf(word, (i - k) + 3)
  BY <1>2, <1>4 DEF BitOf
<1>6. Lane(s, i) = Lane(word, i - k)
  BY <1>5 DEF Lane
<1> QED
  BY <1>3, <1>6 DEF s

LEMMA ShiftedOut ==
    ASSUME NEW word \in SUBSET W32, NEW k \in 0..24, NEW i \in 0..28, i + 3 < k
    PROVE  Lane(Shl(word, k, 32), i) = 0
<1> DEFINE s == Shl(word, k, 32)
<1>1. word \in SUBSET Bits(32) /\ 32 \in Nat /\ k \in Nat
  BY WordBits
<1>2. \A b \in word : b \in 0..31
  BY WordBits
<1>3. ASSUME NEW j \in 0..31, j < k PROVE j \notin s
  <2>1. j \in Bits(32) /\ j - k \notin word
    BY <1>2, <1>3, WordBits
  <2> QED
    BY <1>1, <2>1, ShiftedIn
<1> HIDE DEF s
<1>4. i \notin s /\ i + 1 \notin s /\ i + 2 \notin s /\ i + 3 \notin s
  BY <1>1, <1>3
<1> QED
  BY <1>4 DEF Lane, BitOf, s

LEMMA SumIsWord ==
    ASSUME NEW a \in SUBSET W32, NEW b \in SUBSET W32
    PROVE  Add(a, b, 32) \in SUBSET W32
  BY WordBits DEF Add, Xor, Carried

(* Two words whose bytes are small, added: the highest byte is the sum.    *)
LEMMA TopByteAdds ==
    ASSUME NEW a \in SUBSET W32, NEW b \in SUBSET W32,
           Lane(a, 20) = 0, Lane(b, 20) = 0, Lane(a, 28) = 0, Lane(b, 28) = 0
    PROVE  /\ Lane(Add(a, b, 32), 20) <= 1
           /\ Lane(Add(a, b, 32), 28) <= 1
           /\ Lane(Add(a, b, 32), 24) + 16 * Lane(Add(a, b, 32), 28)
                 = Lane(a, 24) + Lane(b, 24)
<1> DEFINE s == Add(a, b, 32)
           k(i) == BitOf(Carries(a, b, 32), i)
<1>1. PICK c \in {0, 1} : Lane(s, 20) + 16 * c = Lane(a, 20) + Lane(b, 20) + k(20)
  BY LaneAdds, 20 \in 0..28
<1>2. PICK d \in {0, 1} : /\ Lane(s, 24) + 16 * d = Lane(a, 24) + Lane(b, 24) + k(24)
                          /\ d = k(28)
  BY LaneAdds, 24 \in 0..28, 24 < 28, 24 + 4 = 28
<1>3. PICK e \in {0, 1} : Lane(s, 28) + 16 * e = Lane(a, 28) + Lane(b, 28) + k(28)
  BY LaneAdds, 28 \in 0..28
<1>4. k(24) = 0
  <2>1. 20 + 3 \notin a /\ 20 + 3 \notin b
    BY LaneType
  <2>2. 24 - 1 \notin a /\ 24 - 1 \notin b
    BY <2>1
  <2> QED
    BY <2>2, NoCarryInto, 24 \in 0..31
<1>5. k(20) \in {0, 1} /\ k(28) \in {0, 1}
  BY BitType
<1>6. Lane(s, 20) \in 0..15 /\ Lane(s, 24) \in 0..15 /\ Lane(s, 28) \in 0..15
      /\ Lane(a, 24) \in 0..15 /\ Lane(b, 24) \in 0..15
  BY LaneType
<1> HIDE DEF s, k
<1>7. Lane(s, 20) <= 1
  BY <1>1, <1>5, <1>6
<1>8. Lane(s, 28) = k(28) /\ Lane(s, 28) <= 1
  BY <1>3, <1>5, <1>6
<1>9. Lane(s, 24) + 16 * Lane(s, 28) = Lane(a, 24) + Lane(b, 24)
  BY <1>2, <1>4, <1>6, <1>8
<1> QED
  BY <1>7, <1>8, <1>9 DEF s

\* Two sums of four-bit lanes, the carry d out of the low one going into the high
\* one, add up to the sum of the two-lane numbers.
LEMMA CarriedPair ==
    ASSUME NEW lo \in Int, NEW hi \in Int, NEW lo1 \in Int, NEW lo2 \in Int,
           NEW hi1 \in Int, NEW hi2 \in Int, NEW d \in Int,
           hi = hi1 + hi2 + d, lo + 16 * d = lo1 + lo2
    PROVE  lo + 16 * hi = (lo1 + 16 * hi1) + (lo2 + 16 * hi2)
  OBVIOUS

LEMMA TotalCounts ==
    ASSUME NEW word \in SUBSET W32
    PROVE  LET total == Total(Bytes(Fours(Pairs(word))))
           IN  /\ total \in SUBSET W32
               /\ Lane(total, 24) + 16 * Lane(total, 28) =
                     Ones4(word, 0) + Ones4(word, 4) + Ones4(word, 8) + Ones4(word, 12)
                   + Ones4(word, 16) + Ones4(word, 20) + Ones4(word, 24)
                   + Ones4(word, 28)
<1> DEFINE b == Bytes(Fours(Pairs(word)))
           up(k) == Shl(b, k, 32)
           l == Add(b, up(8), 32)
           h == Add(up(16), up(24), 32)
           t == Add(l, h, 32)
<1>1. /\ b \in SUBSET W32
      /\ Lane(b, 0) = Ones4(word, 0) + Ones4(word, 4) /\ Lane(b, 4) = 0
      /\ Lane(b, 8) = Ones4(word, 8) + Ones4(word, 12) /\ Lane(b, 12) = 0
      /\ Lane(b, 16) = Ones4(word, 16) + Ones4(word, 20) /\ Lane(b, 20) = 0
      /\ Lane(b, 24) = Ones4(word, 24) + Ones4(word, 28) /\ Lane(b, 28) = 0
  BY BytesCount, 8 * 0 = 0, 8 * 1 = 8, 8 * 2 = 16, 8 * 3 = 24,
     0 \in 0..3, 1 \in 0..3, 2 \in 0..3, 3 \in 0..3
<1>2. Total(Bytes(Fours(Pairs(word)))) = t
  BY DEF Total
<1> HIDE DEF b
<1>3. /\ up(8) \in SUBSET W32 /\ Lane(up(8), 20) = 0 /\ Lane(up(8), 28) = 0
      /\ Lane(up(8), 24) = Lane(b, 16)
  BY <1>1, ShiftedLane, 8 \in 0..24, 20 \in 8..28, 24 \in 8..28, 28 \in 8..28,
     20 - 8 = 12, 24 - 8 = 16, 28 - 8 = 20
<1>4. /\ up(16) \in SUBSET W32 /\ Lane(up(16), 20) = 0 /\ Lane(up(16), 28) = 0
      /\ Lane(up(16), 24) = Lane(b, 8)
  BY <1>1, ShiftedLane, 16 \in 0..24, 20 \in 16..28, 24 \in 16..28, 28 \in 16..28,
     20 - 16 = 4, 24 - 16 = 8, 28 - 16 = 12
<1>5. /\ up(24) \in SUBSET W32 /\ Lane(up(24), 28) = 0
      /\ Lane(up(24), 24) = Lane(b, 0)
  BY <1>1, ShiftedLane, 24 \in 0..24, 24 \in 24..28, 28 \in 24..28,
     24 - 24 = 0, 28 - 24 = 4
<1>6. Lane(up(24), 20) = 0
  BY <1>1, ShiftedOut, 24 \in 0..24, 20 \in 0..28, 20 + 3 < 24
<1> HIDE DEF up
<1>7. /\ l \in SUBSET W32 /\ Lane(l, 20) <= 1 /\ Lane(l, 28) <= 1
      /\ Lane(l, 24) + 16 * Lane(l, 28) = Lane(b, 24) + Lane(b, 16)
  BY <1>1, <1>3, TopByteAdds, SumIsWord
<1>8. /\ h \in SUBSET W32 /\ Lane(h, 20) <= 1 /\ Lane(h, 28) <= 1
      /\ Lane(h, 24) + 16 * Lane(h, 28) = Lane(b, 8) + Lane(b, 0)
  BY <1>4, <1>5, <1>6, TopByteAdds, SumIsWord
<1> HIDE DEF l, h
<1>9. t \in SUBSET W32
  BY <1>7, <1>8, SumIsWord
<1> DEFINE k(i) == BitOf(Carries(l, h, 32), i)
<1>10. PICK d \in {0, 1} : /\ Lane(t, 24) + 16 * d = Lane(l, 24) + Lane(h, 24) + k(24)
                           /\ d = k(28)
  BY <1>7, <1>8, LaneAdds, 24 \in 0..28, 24 < 28, 24 + 4 = 28
<1>11. PICK e \in {0, 1} : Lane(t, 28) + 16 * e = Lane(l, 28) + Lane(h, 28) + k(28)
  BY <1>7, <1>8, LaneAdds, 28 \in 0..28
<1>12. k(24) = 0
  <2>1. Lane(l, 20) \in 0..15 /\ Lane(h, 20) \in 0..15
    BY LaneType
  <2>2. Lane(l, 20) < 8 /\ Lane(h, 20) < 8
    BY <1>7, <1>8, <2>1
  <2>3. 20 + 3 \notin l /\ 20 + 3 \notin h
    BY <2>2, LaneType
  <2>4. 24 - 1 \notin l /\ 24 - 1 \notin h
    BY <2>3
  <2> QED
    BY <1>7, <1>8, <2>4, NoCarryInto, 24 \in 0..31
<1> HIDE DEF t, k
<1>13. /\ Lane(l, 24) \in 0..15 /\ Lane(h, 24) \in 0..15 /\ Lane(t, 24) \in 0..15
       /\ Lane(l, 28) \in 0..15 /\ Lane(h, 28) \in 0..15 /\ Lane(t, 28) \in 0..15
  BY LaneType
<1>14. Lane(t, 24) + 16 * Lane(t, 28) =
          (Lane(l, 24) + 16 * Lane(l, 28)) + (Lane(h, 24) + 16 * Lane(h, 28))
  <2>1. Lane(l, 28) <= 1 /\ Lane(h, 28) <= 1
    BY <1>7, <1>8
  <2>2. Lane(t, 28) = Lane(l, 28) + Lane(h, 28) + d
    BY <2>1, <1>10, <1>11, <1>13
  <2>3. Lane(t, 24) + 16 * d = Lane(l, 24) + Lane(h, 24)
    BY <1>10, <1>12, <1>13
  <2>4. /\ Lane(t, 24) \in Int /\ Lane(l, 24) \in Int /\ Lane(h, 24) \in Int
        /\ Lane(t, 28) \in Int /\ Lane(l, 28) \in Int /\ Lane(h, 28) \in Int
        /\ d \in Int
    BY <1>13
  <2> QED
    BY <2>2, <2>3, <2>4, CarriedPair
<1>15. /\ Ones4(word, 0) \in Int /\ Ones4(word, 4) \in Int /\ Ones4(word, 8) \in Int
       /\ Ones4(word, 12) \in Int /\ Ones4(word, 16) \in Int /\ Ones4(word, 20) \in Int
       /\ Ones4(word, 24) \in Int /\ Ones4(word, 28) \in Int
  BY LaneType
<1>16. Lane(t, 24) + 16 * Lane(t, 28) =
                     Ones4(word, 0) + Ones4(word, 4) + Ones4(word, 8) + Ones4(word, 12)
                   + Ones4(word, 16) + Ones4(word, 20) + Ones4(word, 24)
                   + Ones4(word, 28)
  BY <1>1, <1>7, <1>8, <1>14, <1>15
<1> QED
  BY <1>2, <1>9, <1>16

(* The number of bits of a word, four at a time.                           *)
LEMMA FourMore ==
    ASSUME NEW word \in SUBSET W32, NEW i \in 0..28
    PROVE  Cardinality(word \intersect 0..(i + 3)) =
              Cardinality(word \intersect 0..(i - 1)) + Ones4(word, i)
<1> DEFINE part(k) == word \intersect 0..(k - 1)
<1>1. ASSUME NEW k \in 0..31
      PROVE  /\ Cardinality(part(k + 1)) = Cardinality(part(k)) + BitOf(word, k)
             /\ Cardinality(part(k)) \in Nat
  <2>1. part(k) \in SUBSET W32 /\ k \notin part(k)
    BY <1>1
  <2>2. IsFiniteSet(part(k)) /\ Cardinality(part(k)) \in Nat
    BY <2>1, WordFinite
  <2>3. CASE k \in word
    <3>1. part(k + 1) = part(k) \union {k}
      BY <2>3
    <3> HIDE DEF part
    <3> QED
      BY <2>1, <2>2, <2>3, <3>1, FS_AddElement DEF BitOf
  <2>4. CASE k \notin word
    <3>1. part(k + 1) = part(k)
      BY <2>4
    <3> HIDE DEF part
    <3> QED
      BY <2>2, <2>4, <3>1 DEF BitOf
  <2> QED
    BY <2>3, <2>4
<1> DEFINE c(k) == Cardinality(part(k))
<1> HIDE DEF part
<1>2. /\ i \in 0..31 /\ i + 1 \in 0..31 /\ i + 2 \in 0..31 /\ i + 3 \in 0..31
      /\ (i + 1) + 1 = i + 2 /\ (i + 2) + 1 = i + 3 /\ (i + 3) + 1 = i + 4
  OBVIOUS
<1>3. c(i + 1) = c(i) + BitOf(word, i) /\ c(i) \in Nat
  BY <1>1, <1>2
<1>4. c(i + 2) = c(i + 1) + BitOf(word, i + 1)
  BY <1>1, <1>2
<1>5. c(i + 3) = c(i + 2) + BitOf(word, i + 2)
  BY <1>1, <1>2
<1>6. c(i + 4) = c(i + 3) + BitOf(word, i + 3)
  BY <1>1, <1>2
<1> HIDE DEF c
<1>7. c(i + 4) = c(i) + Ones4(word, i)
  <2>1. /\ BitOf(word, i) \in Int /\ BitOf(word, i + 1) \in Int
        /\ BitOf(word, i + 2) \in Int /\ BitOf(word, i + 3) \in Int
    BY LaneType
  <2> QED
    BY <1>3, <1>4, <1>5, <1>6, <2>1 DEF Ones4
<1>8. part(i + 4) = word \intersect 0..(i + 3)
  BY (i + 4) - 1 = i + 3 DEF part
<1> QED
  BY <1>7, <1>8 DEF c, part

LEMMA CountIs ==
    ASSUME NEW word \in SUBSET W32
    PROVE  Cardinality(word) =
               Ones4(word, 0) + Ones4(word, 4) + Ones4(word, 8) + Ones4(word, 12)
             + Ones4(word, 16) + Ones4(word, 20) + Ones4(word, 24) + Ones4(word, 28)
<1> DEFINE c(k) == Cardinality(word \intersect 0..k)
<1>1. c(0 - 1) = 0
  <2>1. word \intersect 0..(0 - 1) = {}
    OBVIOUS
  <2> QED
    BY <2>1, FS_EmptySet
<1>2. ASSUME NEW i \in 0..28 PROVE c(i + 3) = c(i - 1) + Ones4(word, i)
             /\ Ones4(word, i) \in Nat
  <2>1. Ones4(word, i) \in 0..4
    BY LaneType
  <2>2. c(i + 3) = c(i - 1) + Ones4(word, i)
    BY FourMore
  <2> QED
    BY <2>1, <2>2
<1>3. c(31) = Cardinality(word)
  <2>1. word \intersect 0..31 = word
    BY WordBits
  <2> QED
    BY <2>1
<1> HIDE DEF c
<1>4. c(3) = Ones4(word, 0) /\ Ones4(word, 0) \in Nat
  BY <1>1, <1>2, 0 \in 0..28, 0 + 3 = 3
<1>5. c(7) = c(3) + Ones4(word, 4) /\ Ones4(word, 4) \in Nat
  BY <1>2, 4 \in 0..28, 4 + 3 = 7, 4 - 1 = 3
<1>6. c(11) = c(7) + Ones4(word, 8) /\ Ones4(word, 8) \in Nat
  BY <1>2, 8 \in 0..28, 8 + 3 = 11, 8 - 1 = 7
<1>7. c(15) = c(11) + Ones4(word, 12) /\ Ones4(word, 12) \in Nat
  BY <1>2, 12 \in 0..28, 12 + 3 = 15, 12 - 1 = 11
<1>8. c(19) = c(15) + Ones4(word, 16) /\ Ones4(word, 16) \in Nat
  BY <1>2, 16 \in 0..28, 16 + 3 = 19, 16 - 1 = 15
<1>9. c(23) = c(19) + Ones4(word, 20) /\ Ones4(word, 20) \in Nat
  BY <1>2, 20 \in 0..28, 20 + 3 = 23, 20 - 1 = 19
<1>10. c(27) = c(23) + Ones4(word, 24) /\ Ones4(word, 24) \in Nat
  BY <1>2, 24 \in 0..28, 24 + 3 = 27, 24 - 1 = 23
<1>11. c(31) = c(27) + Ones4(word, 28) /\ Ones4(word, 28) \in Nat
  BY <1>2, 28 \in 0..28, 28 + 3 = 31, 28 - 1 = 27
<1> QED
  BY <1>3, <1>4, <1>5, <1>6, <1>7, <1>8, <1>9, <1>10, <1>11

(* A number below 256 as a word has the bits of its two digits.            *)
LEMMA NumeralOf ==
    ASSUME NEW word \in SUBSET 0..7
    PROVE  Numeral(Lane(word, 0) + 16 * Lane(word, 4)) = word
<1> DEFINE v(k) == BitOf(word, k)
           t == Lane(word, 0) + 16 * Lane(word, 4)
<1>1. \A k : v(k) \in {0, 1} /\ (v(k) = 1 <=> k \in word)
  BY DEF BitOf
<1>2. t = v(0) + 2 * v(1) + 4 * v(2) + 8 * v(3)
          + 16 * v(4) + 32 * v(5) + 64 * v(6) + 128 * v(7)
  <2>1. /\ v(0) \in Int /\ v(1) \in Int /\ v(2) \in Int /\ v(3) \in Int
        /\ v(4) \in Int /\ v(5) \in Int /\ v(6) \in Int /\ v(7) \in Int
    BY <1>1
  <2>2. /\ Lane(word, 0) = v(0) + 2 * v(1) + 4 * v(2) + 8 * v(3)
        /\ Lane(word, 4) = v(4) + 2 * v(5) + 4 * v(6) + 8 * v(7)
    BY 0 + 1 = 1, 0 + 2 = 2, 0 + 3 = 3, 4 + 1 = 5, 4 + 2 = 6, 4 + 3 = 7 DEF Lane
  <2> HIDE DEF v
  <2> QED
    BY <2>1, <2>2
<1> HIDE DEF v, t
<1>3. /\ v(0) \in 0..1 /\ v(1) \in 0..1 /\ v(2) \in 0..1 /\ v(3) \in 0..1
      /\ v(4) \in 0..1 /\ v(5) \in 0..1 /\ v(6) \in 0..1 /\ v(7) \in 0..1
  BY <1>1
<1>4. t \in 0..255
  BY <1>2, <1>3
<1>5. ASSUME NEW k \in 8..30 PROVE Digit(t, k) = 0
  <2>1. PICK m \in Nat : Power(k) = Power(8) * m
    BY PowerMultiple, k \in 0..32, 8 \in 0..k
  <2>2. Power(8) = 256
    BY SMT DEF Power
  <2>3. Power(k) \in Nat \ {0}
    BY PowerFacts, k \in 0..32
  <2>4. t < Power(k)
    BY <1>4, <2>1, <2>2, <2>3, SMT
  <2>5. t \div Power(k) = 0
    BY <1>4, <2>3, <2>4, SMT
  <2> QED
    BY <2>5 DEF Digit
<1>6. /\ Power(0) = 1 /\ Power(1) = 2 /\ Power(2) = 4 /\ Power(3) = 8
      /\ Power(4) = 16 /\ Power(5) = 32 /\ Power(6) = 64 /\ Power(7) = 128
  BY SMT DEF Power
<1>7. ASSUME NEW k \in 0..7 PROVE Digit(t, k) = v(k)
  <2> DEFINE a0 == v(0)  a1 == v(1)  a2 == v(2)  a3 == v(3)
             a4 == v(4)  a5 == v(5)  a6 == v(6)  a7 == v(7)
  <2>1. /\ a0 \in 0..1 /\ a1 \in 0..1 /\ a2 \in 0..1 /\ a3 \in 0..1
        /\ a4 \in 0..1 /\ a5 \in 0..1 /\ a6 \in 0..1 /\ a7 \in 0..1
        /\ t = a0 + 2 * a1 + 4 * a2 + 8 * a3 + 16 * a4 + 32 * a5 + 64 * a6 + 128 * a7
    BY <1>2, <1>3
  <2> HIDE DEF a0, a1, a2, a3, a4, a5, a6, a7
  <2>2. (t \div 1) % 2 = a0
    BY <2>1, SMT
  <2>3. (t \div 2) % 2 = a1
    BY <2>1, SMT
  <2>4. (t \div 4) % 2 = a2
    BY <2>1, SMT
  <2>5. (t \div 8) % 2 = a3
    BY <2>1, SMT
  <2>6. (t \div 16) % 2 = a4
    BY <2>1, SMT
  <2>7. (t \div 32) % 2 = a5
    BY <2>1, SMT
  <2>8. (t \div 64) % 2 = a6
    BY <2>1, SMT
  <2>9. (t \div 128) % 2 = a7
    BY <2>1, SMT
  <2>10. /\ Digit(t, 0) = a0 /\ Digit(t, 1) = a1 /\ Digit(t, 2) = a2 /\ Digit(t, 3) = a3
         /\ Digit(t, 4) = a4 /\ Digit(t, 5) = a5 /\ Digit(t, 6) = a6 /\ Digit(t, 7) = a7
    BY <1>6, <2>2, <2>3, <2>4, <2>5, <2>6, <2>7, <2>8, <2>9 DEF Digit
  <2>11. k = 0 \/ k = 1 \/ k = 2 \/ k = 3 \/ k = 4 \/ k = 5 \/ k = 6 \/ k = 7
    OBVIOUS
  <2> QED
    BY <2>10, <2>11 DEF a0, a1, a2, a3, a4, a5, a6, a7
<1>8. ASSUME NEW k \in 0..30 PROVE Digit(t, k) = 1 <=> k \in word
  <2>1. CASE k \in 0..7
    BY <1>1, <1>7, <2>1
  <2>2. CASE k \in 8..30
    <3>1. k \notin word
      BY <2>2
    <3> QED
      BY <1>5, <2>2, <3>1
  <2> QED
    BY <2>1, <2>2
<1>9. Numeral(t) = {k \in 0..30 : Digit(t, k) = 1}
  BY DEF Numeral, Digit, Power
<1>10. \A k \in word : k \in 0..30
  OBVIOUS
<1> QED
  BY <1>8, <1>9, <1>10 DEF t

LEMMA CountsExactly ==
    ASSUME operand \in SUBSET W32
    PROVE  CountExact
<1> DEFINE t == Total(Bytes(Fours(Pairs(operand))))
           top == Shr(t, 24)
<1>1. t \in SUBSET W32 /\ Lane(t, 24) + 16 * Lane(t, 28) = Cardinality(operand)
  BY TotalCounts, CountIs
<1>2. popcount_swar(operand) = top
  BY DEF popcount_swar
<1> HIDE DEF t
<1>3. ASSUME NEW b PROVE b \in top <=> b \in 0..31 /\ b + 24 \in t
  BY <1>1, ShrIn, WordBits, 24 \in Nat
<1>4. \A b \in t : b \in 0..31
  BY <1>1, WordBits
<1> HIDE DEF top
<1>5. top \in SUBSET 0..7
  <2>1. ASSUME NEW b \in top PROVE b \in 0..7
    BY <1>3, <1>4
  <2> QED
    BY <2>1
<1>6. Lane(top, 0) = Lane(t, 24) /\ Lane(top, 4) = Lane(t, 28)
  <2>1. ASSUME NEW b \in 0..7 PROVE BitOf(top, b) = BitOf(t, b + 24)
    BY <1>3 DEF BitOf
  <2>2. /\ BitOf(top, 0) = BitOf(t, 24) /\ BitOf(top, 1) = BitOf(t, 25)
        /\ BitOf(top, 2) = BitOf(t, 26) /\ BitOf(top, 3) = BitOf(t, 27)
        /\ BitOf(top, 4) = BitOf(t, 28) /\ BitOf(top, 5) = BitOf(t, 29)
        /\ BitOf(top, 6) = BitOf(t, 30) /\ BitOf(top, 7) = BitOf(t, 31)
    BY <2>1
  <2>3. /\ 0 + 1 = 1 /\ 0 + 2 = 2 /\ 0 + 3 = 3 /\ 4 + 1 = 5 /\ 4 + 2 = 6 /\ 4 + 3 = 7
        /\ 24 + 1 = 25 /\ 24 + 2 = 26 /\ 24 + 3 = 27
        /\ 28 + 1 = 29 /\ 28 + 2 = 30 /\ 28 + 3 = 31
    OBVIOUS
  <2> QED
    BY <2>2, <2>3 DEF Lane
<1>7. Numeral(Cardinality(operand)) = top
  BY <1>1, <1>5, <1>6, NumeralOf
<1> QED
  BY <1>2, <1>7 DEF CountExact

------------------------------------------------------------------------------
(* The loops.  What a loop has still to do and what it has done make up    *)
(* the argument, turn by turn.                                             *)
LoopTypes ==
    /\ loop \in Loops /\ argument \in SUBSET W32 /\ left \in SUBSET W32
    /\ count \in Nat /\ size \in Int /\ size <= MaxSize
    /\ fed \in Seq(SUBSET W32) /\ result \in SUBSET W32

Zeros == IF loop = "ffs32" THEN count - 1 ELSE count
CountInv ==
    loop = "popcount_kern" => count + Cardinality(left) = Cardinality(argument)
ShiftInv ==
    loop \in {"ffs32", "ctz32"} =>
        IF argument = {}
          THEN count = IF loop = "ffs32" THEN 0 ELSE 32
          ELSE /\ Zeros \in Nat
               /\ \A b : b \in left <=> b \in W32 /\ b + Zeros \in argument
               /\ \A c \in argument : Zeros <= c
MaskInv ==
    loop = "clz32" =>
        IF argument = {}
          THEN count = 32
          ELSE /\ count <= 31 /\ left = {31 - count}
               /\ \A c \in argument : c <= 31 - count
ReverseInv ==
    loop = "reverse32" =>
        /\ count <= 32
        /\ \A b : b \in left <=> b \in W32 /\ b + count \in argument
        /\ \A b : b \in result <=> b \in W32 /\ b < count /\ count - 1 - b \in argument

XorLoops == {"xor_unique", "xor_missing"}
TimesIn(q, word) == Cardinality({i \in DOMAIN q : q[i] = word})
OddIn(q) == {word \in {q[i] : i \in DOMAIN q} : TimesIn(q, word) % 2 = 1}
Holding(words, b) == {word \in words : b \in word}
XorOf(q, xor) == \A b \in W32 : b \in xor <=> Cardinality(Holding(OddIn(q), b)) % 2 = 1

XorInv ==
    IF loop \in XorLoops
      THEN /\ count = 0 /\ IsFiniteSet(OddIn(fed)) /\ XorOf(fed, result)
           /\ loop = "xor_missing" =>
                 \A i \in 1..Len(fed) : i <= size + 1 => fed[i] = Numeral(i - 1)
      ELSE fed = <<>>

LoopInv == LoopTypes /\ CountInv /\ ShiftInv /\ MaskInv /\ ReverseInv /\ XorInv

LEMMA LoopInitially == LoopInit => LoopInv
<1> SUFFICES ASSUME LoopInit PROVE LoopInv
  OBVIOUS
<1>1. argument \in SUBSET W32 /\ \A b \in W32 : b \in 0..31
  BY LoopsAssumption, WordBits DEF LoopInit
<1>2. 31 \in W32
  BY WordBits
<1>3. /\ loop \in Loops /\ size \in Int /\ size <= MaxSize /\ fed = <<>> /\ result = {}
      /\ left = (IF loop = "clz32" THEN {31} ELSE argument)
      /\ loop = "ffs32" => count = (IF argument = {} THEN 0 ELSE 1)
      /\ loop \in {"ctz32", "clz32"} => count = (IF argument = {} THEN 32 ELSE 0)
      /\ loop \notin {"ffs32", "ctz32", "clz32"} => count = 0
  <2>1. 2^30 + (2^30 - 1) \in Int
    OBVIOUS
  <2> QED
    BY <2>1, LoopsAssumption DEF LoopInit, ffs32_start, ctz32_start, clz32_start
<1>4. LoopTypes
  <2>1. count \in Nat
    BY <1>3
  <2> QED
    BY <1>1, <1>2, <1>3, <2>1 DEF LoopTypes
<1>5. CountInv
  <2>1. Cardinality(argument) \in Nat
    BY <1>1, WordFinite
  <2> QED
    BY <1>3, <2>1 DEF CountInv
<1>6. ShiftInv
  <2> SUFFICES ASSUME loop \in {"ffs32", "ctz32"}, argument # {} PROVE ShiftInv
    BY <1>3 DEF ShiftInv
  <2>1. Zeros = 0 /\ left = argument
    BY <1>3 DEF Zeros
  <2>2. \A b : b \in argument <=> b \in W32 /\ b + 0 \in argument
    BY <1>1
  <2>3. \A c \in argument : 0 <= c
    BY <1>1
  <2> QED
    BY <2>1, <2>2, <2>3 DEF ShiftInv
<1>7. MaskInv
  <2> SUFFICES ASSUME loop = "clz32", argument # {} PROVE MaskInv
    BY <1>3 DEF MaskInv
  <2>1. count = 0 /\ left = {31 - 0}
    BY <1>3
  <2>2. \A c \in argument : c <= 31 - 0
    BY <1>1
  <2> QED
    BY <2>1, <2>2 DEF MaskInv
<1>8. ReverseInv
  <2> SUFFICES ASSUME loop = "reverse32" PROVE ReverseInv
    BY DEF ReverseInv
  <2>1. count = 0 /\ left = argument /\ result = {}
    BY <1>3
  <2>2. \A b : b \in argument <=> b \in W32 /\ b + 0 \in argument
    BY <1>1
  <2>3. \A b \in W32 : ~(b < 0)
    BY <1>1
  <2> QED
    BY <2>1, <2>2, <2>3 DEF ReverseInv
<1>9. XorInv
  <2>1. CASE loop \notin XorLoops
    BY <1>3, <2>1 DEF XorInv
  <2>2. CASE loop \in XorLoops
    <3>1. count = 0 /\ fed = <<>> /\ Len(fed) = 0 /\ result = {}
      BY <1>3, <2>2 DEF XorLoops
    <3>2. OddIn(fed) = {}
      BY <3>1 DEF OddIn
    <3>3. \A b : Cardinality(Holding({}, b)) = 0
      <4>1. \A b : Holding({}, b) = {}
        BY DEF Holding
      <4> QED
        BY <4>1, FS_EmptySet
    <3>4. XorOf(fed, result)
      <4>1. \A b : Cardinality(Holding(OddIn(fed), b)) % 2 = 0
        <5>1. 0 % 2 = 0
          OBVIOUS
        <5> QED
          BY <3>2, <3>3, <5>1
      <4>2. \A b : ~(b \in result)
        BY <3>1
      <4> HIDE <3>1
      <4> QED
        BY <4>1, <4>2 DEF XorOf
    <3>5. IsFiniteSet(OddIn(fed))
      BY <3>2, FS_EmptySet
    <3>6. \A i \in 1..Len(fed) : i <= size + 1 => fed[i] = Numeral(i - 1)
      BY <3>1
    <3> QED
      BY <2>2, <3>1, <3>4, <3>5, <3>6 DEF XorInv
  <2> QED
    BY <2>1, <2>2
<1> QED
  BY <1>4, <1>5, <1>6, <1>7, <1>8, <1>9 DEF LoopInv

(* Clearing the lowest bit leaves one bit fewer.                           *)
LEMMA LowestCleared ==
    ASSUME NEW word \in SUBSET W32, word # {}
    PROVE  /\ word \intersect Sub(word, One, 32) \in SUBSET W32
           /\ Cardinality(word \intersect Sub(word, One, 32)) = Cardinality(word) - 1
           /\ Cardinality(word) \in Nat
<1>1. word \in SUBSET Bits(32) /\ 32 \in Nat
  BY WordBits
<1>2. PICK low \in word : \A c \in word : low <= c
  BY <1>1, LowestIs
<1>3. Sub(word, One, 32) = (word \ {low}) \union 0..(low - 1)
  BY <1>1, <1>2, OneLess
<1>4. low \in 0..31 /\ \A c \in word : c \in 0..31 /\ c \notin 0..(low - 1)
  BY <1>2, WordBits
<1>5. word \intersect Sub(word, One, 32) = word \ {low}
  BY <1>3, <1>4
<1>6. Cardinality(word \ {low}) = Cardinality(word) - 1
  BY <1>2, WordFinite, FS_RemoveElement
<1> QED
  BY <1>5, <1>6, WordFinite

LEMMA CountTurn ==
    ASSUME LoopInv, popcount_kern
    PROVE  LoopInv'
<1>1. /\ loop = "popcount_kern" /\ left # {} /\ left \in SUBSET W32 /\ count \in Nat
      /\ left' = left \intersect Sub(left, One, 32) /\ count' = count + 1
      /\ UNCHANGED <<loop, argument, size, fed, result>>
  BY DEF LoopInv, LoopTypes, popcount_kern
<1>2. left' \in SUBSET W32 /\ Cardinality(left') = Cardinality(left) - 1
      /\ Cardinality(left) \in Nat
  BY <1>1, LowestCleared
<1>3. LoopTypes'
  BY <1>1, <1>2 DEF LoopInv, LoopTypes
<1>4. count' + Cardinality(left') = Cardinality(argument')
  BY <1>1, <1>2 DEF LoopInv, CountInv
<1>5. CountInv'
  BY <1>4 DEF CountInv
<1>6. ShiftInv' /\ MaskInv' /\ ReverseInv'
  BY <1>1 DEF ShiftInv, MaskInv, ReverseInv
<1>7. XorInv'
  BY <1>1 DEF LoopInv, XorInv, XorLoops
<1> QED
  BY <1>3, <1>5, <1>6, <1>7 DEF LoopInv

LEMMA ShiftTurn ==
    ASSUME LoopInv, ffs32 \/ ctz32
    PROVE  LoopInv'
<1>1. /\ loop \in {"ffs32", "ctz32"} /\ argument # {} /\ left \intersect One = {}
      /\ left \in SUBSET W32 /\ count \in Nat /\ argument \in SUBSET W32
      /\ left' = Shr(left, 1) /\ count' = count + 1
      /\ UNCHANGED <<loop, argument, size, fed, result>>
  BY DEF LoopInv, LoopTypes, ffs32, ctz32, NextPlace, ZerosBelow
<1>2. PICK z : z = Zeros
  OBVIOUS
<1>3. /\ z \in Nat /\ \A b : b \in left <=> b \in W32 /\ b + z \in argument
      /\ \A c \in argument : z <= c
  BY <1>1, <1>2 DEF LoopInv, ShiftInv
<1>4. PICK y : y = Zeros'
  OBVIOUS
<1>5. y = z + 1
  BY <1>1, <1>2, <1>4 DEF Zeros
<1>6. \A c \in argument : c \in 0..31
  BY <1>1, WordBits
<1>7. left \in SUBSET Bits(32) /\ 32 \in Nat
  BY <1>1, WordBits
<1>8. PICK l : l = left'
  OBVIOUS
<1>9. l \in SUBSET W32
  BY <1>1, <1>7, <1>8, ShiftedIn, WordBits
<1>10. ASSUME NEW b PROVE b \in l <=> b \in W32 /\ b + y \in argument
  <2>1. b \in l <=> b \in W32 /\ b + 1 \in left
    BY <1>1, <1>7, <1>8, ShrIn, WordBits
  <2>2. ASSUME b \in W32 PROVE b + 1 \in left <=> b + y \in argument
    <3>1. b \in 0..31 /\ (b + 1) + z = b + y
      BY <1>3, <1>5, <2>2, WordBits
    <3>2. b + y \in argument => b + 1 \in W32
      BY <1>3, <1>5, <1>6, <3>1, WordBits
    <3> QED
      BY <1>3, <3>1, <3>2
  <2> QED
    BY <2>1, <2>2
<1>11. z \notin argument
  <2>1. 0 \in W32 /\ 0 + z = z
    BY <1>3, WordBits
  <2>2. 0 \notin left
    BY <1>1 DEF One
  <2> QED
    BY <1>3, <2>1, <2>2
<1>12. \A c \in argument : y <= c
  BY <1>3, <1>5, <1>6, <1>11
<1>13. LoopTypes'
  BY <1>1, <1>8, <1>9 DEF LoopInv, LoopTypes
<1>14. ShiftInv'
  BY <1>1, <1>3, <1>4, <1>5, <1>8, <1>10, <1>12 DEF ShiftInv
<1>15. CountInv' /\ MaskInv' /\ ReverseInv'
  BY <1>1 DEF CountInv, MaskInv, ReverseInv
<1>16. XorInv'
  BY <1>1 DEF LoopInv, XorInv, XorLoops
<1> QED
  BY <1>13, <1>14, <1>15, <1>16 DEF LoopInv

LEMMA MaskTurn ==
    ASSUME LoopInv, clz32
    PROVE  LoopInv'
<1>1. /\ loop = "clz32" /\ argument # {} /\ left \intersect argument = {}
      /\ count \in Nat /\ argument \in SUBSET W32
      /\ left' = Shr(left, 1) /\ count' = count + 1
      /\ UNCHANGED <<loop, argument, size, fed, result>>
  BY DEF LoopInv, LoopTypes, clz32, NextPlace, ZerosAbove
<1>2. count <= 31 /\ left = {31 - count} /\ \A c \in argument : c <= 31 - count
  BY <1>1 DEF LoopInv, MaskInv
<1>3. \A c \in argument : c \in 0..31
  BY <1>1, WordBits
<1>4. PICK c \in argument : TRUE
  BY <1>1
<1>5. 31 - count \notin argument
  BY <1>1, <1>2
<1>6. \A d \in argument : d <= 31 - (count + 1)
  BY <1>1, <1>2, <1>3, <1>5
<1>7. 0 <= 31 - (count + 1)
  BY <1>1, <1>3, <1>4, <1>6
<1>8. left' = {31 - (count + 1)}
  <2>1. left \in SUBSET Bits(32)
    BY <1>1, <1>2, WordBits
  <2>2. ASSUME NEW b PROVE b \in Shr(left, 1) <=> b = 31 - (count + 1)
    <3>1. b \in Shr(left, 1) <=> b \in 0..31 /\ b + 1 = 31 - count
      BY <1>2, <2>1, ShrIn, WordBits, 1 \in Nat
    <3> QED
      BY <1>1, <1>7, <3>1
  <2>3. Shr(left, 1) = {31 - (count + 1)}
    BY <2>2
  <2> QED
    BY <1>1, <2>3
<1>9. {31 - (count + 1)} \in SUBSET W32
  BY <1>1, <1>7, WordBits
<1>10. LoopTypes'
  BY <1>1, <1>8, <1>9 DEF LoopInv, LoopTypes
<1>11. MaskInv'
  BY <1>1, <1>6, <1>7, <1>8 DEF MaskInv
<1>12. CountInv' /\ ShiftInv' /\ ReverseInv'
  BY <1>1 DEF CountInv, ShiftInv, ReverseInv
<1>13. XorInv'
  BY <1>1 DEF LoopInv, XorInv, XorLoops
<1> QED
  BY <1>10, <1>11, <1>12, <1>13 DEF LoopInv

LEMMA ReverseTurn ==
    ASSUME LoopInv, reverse32
    PROVE  LoopInv'
<1>1. /\ loop = "reverse32" /\ count < 32 /\ count \in Nat
      /\ argument \in SUBSET W32 /\ left \in SUBSET W32 /\ result \in SUBSET W32
      /\ result' = Shl(result, 1, 32) \union (left \intersect One)
      /\ left' = Shr(left, 1) /\ count' = count + 1
      /\ UNCHANGED <<loop, argument, size, fed>>
  BY DEF LoopInv, LoopTypes, reverse32
<1>2. /\ \A b : b \in left <=> b \in W32 /\ b + count \in argument
      /\ \A b : b \in result <=> b \in W32 /\ b < count /\ count - 1 - b \in argument
  BY <1>1 DEF LoopInv, ReverseInv
<1>3. \A c \in argument : c \in 0..31
  BY <1>1, WordBits
<1>4. left \in SUBSET Bits(32) /\ result \in SUBSET Bits(32) /\ 32 \in Nat
  BY <1>1, WordBits
<1>5. PICK l, r : l = left' /\ r = result'
  OBVIOUS
<1>6. ASSUME NEW b PROVE b \in l <=> b \in W32 /\ b + (count + 1) \in argument
  <2>1. b \in l <=> b \in W32 /\ b + 1 \in left
    BY <1>1, <1>4, <1>5, ShrIn, WordBits
  <2>2. ASSUME b \in W32 PROVE b + 1 \in left <=> b + (count + 1) \in argument
    <3>1. b \in 0..31 /\ (b + 1) + count = b + (count + 1)
      BY <1>1, <2>2, WordBits
    <3>2. b + (count + 1) \in argument => b + 1 \in W32
      BY <1>1, <1>3, <3>1, WordBits
    <3> QED
      BY <1>2, <3>1, <3>2
  <2> QED
    BY <2>1, <2>2
<1>7. ASSUME NEW b
      PROVE  b \in r <=> b \in W32 /\ b < count + 1 /\ (count + 1) - 1 - b \in argument
  <2>1. b \in Shl(result, 1, 32) <=> b \in W32 /\ b - 1 \in result
    BY <1>4, ShiftedIn, WordBits
  <2>2. b \in left \intersect One <=> b = 0 /\ count \in argument
    <3>1. 0 \in W32 /\ 0 + count = count
      BY <1>1, WordBits
    <3> QED
      BY <1>2, <3>1 DEF One
  <2>3. CASE b \notin W32
    <3>1. b # 0
      BY <2>3, WordBits
    <3> QED
      BY <1>1, <1>5, <2>1, <2>2, <2>3, <3>1
  <2>4. CASE b = 0
    <3>1. b - 1 \notin W32 /\ b \in W32 /\ b < count + 1 /\ (count + 1) - 1 - b = count
      BY <1>1, <2>4, WordBits
    <3> QED
      BY <1>1, <1>2, <1>5, <2>1, <2>2, <2>4, <3>1
  <2>5. CASE b \in W32 /\ b # 0
    <3>1. b \in 1..31
      BY <2>5, WordBits
    <3>2. b - 1 \in W32 /\ (b - 1 < count <=> b < count + 1)
          /\ count - 1 - (b - 1) = (count + 1) - 1 - b
      BY <1>1, <3>1, WordBits
    <3> QED
      BY <1>1, <1>2, <1>5, <2>1, <2>2, <2>5, <3>2
  <2> QED
    BY <2>3, <2>4, <2>5
<1>8. l \in SUBSET W32 /\ r \in SUBSET W32
  BY <1>6, <1>7
<1>9. LoopTypes'
  BY <1>1, <1>5, <1>8 DEF LoopInv, LoopTypes
<1>10. ReverseInv'
  BY <1>1, <1>5, <1>6, <1>7 DEF ReverseInv
<1>11. CountInv' /\ ShiftInv' /\ MaskInv'
  BY <1>1 DEF CountInv, ShiftInv, MaskInv
<1>12. XorInv'
  BY <1>1 DEF LoopInv, XorInv, XorLoops
<1> QED
  BY <1>9, <1>10, <1>11, <1>12 DEF LoopInv

------------------------------------------------------------------------------
(* A word more in the sequence: it is taken once more, the others as often *)
(* as before, so that it enters or leaves the words taken an odd number of *)
(* times.                                                                  *)
LEMMA TimesIsNat ==
    ASSUME NEW q \in Seq(SUBSET W32), NEW word
    PROVE  /\ IsFiniteSet({i \in DOMAIN q : q[i] = word})
           /\ TimesIn(q, word) \in Nat
           /\ word \in OddIn(q) <=> TimesIn(q, word) % 2 = 1
<1> DEFINE held == {i \in DOMAIN q : q[i] = word}
<1>1. DOMAIN q = 1..Len(q) /\ Len(q) \in Nat
  OBVIOUS
<1>2. IsFiniteSet(1..Len(q))
  BY <1>1, FS_Interval
<1>3. held \in SUBSET (1..Len(q))
  BY <1>1
<1>4. IsFiniteSet(held) /\ Cardinality(held) \in Nat
  BY <1>2, <1>3, FS_Subset, FS_CardinalityType
<1>5. TimesIn(q, word) % 2 = 1 => word \in {q[i] : i \in DOMAIN q}
  <2>1. SUFFICES ASSUME word \notin {q[i] : i \in DOMAIN q}
        PROVE  TimesIn(q, word) % 2 # 1
    OBVIOUS
  <2>2. held = {}
    BY <2>1
  <2>3. TimesIn(q, word) = 0
    BY <2>2, FS_EmptySet DEF TimesIn
  <2> QED
    BY <2>3
<1> QED
  BY <1>4, <1>5 DEF TimesIn, OddIn

LEMMA TimesAppended ==
    ASSUME NEW q \in Seq(SUBSET W32), NEW v \in SUBSET W32, NEW word
    PROVE  /\ word = v => TimesIn(Append(q, v), word) = TimesIn(q, word) + 1
           /\ word # v => TimesIn(Append(q, v), word) = TimesIn(q, word)
<1> DEFINE held == {i \in DOMAIN q : q[i] = word}
           more == {i \in DOMAIN Append(q, v) : Append(q, v)[i] = word}
<1>1. /\ DOMAIN q = 1..Len(q) /\ Len(q) \in Nat
      /\ DOMAIN Append(q, v) = 1..(Len(q) + 1)
      /\ \A i \in 1..Len(q) : Append(q, v)[i] = q[i]
      /\ Append(q, v)[Len(q) + 1] = v
  OBVIOUS
<1>2. IsFiniteSet(held) /\ Cardinality(held) \in Nat
  BY TimesIsNat DEF TimesIn
<1>3. Len(q) + 1 \notin held
  BY <1>1
<1>4. \A i : i \in 1..(Len(q) + 1) <=> i \in 1..Len(q) \/ i = Len(q) + 1
  BY <1>1
<1>5. CASE word = v
  <2>1. more = held \union {Len(q) + 1}
    BY <1>1, <1>4, <1>5
  <2>2. Cardinality(more) = Cardinality(held) + 1
    BY <1>2, <1>3, <2>1, FS_AddElement
  <2> QED
    BY <1>5, <2>2 DEF TimesIn
<1>6. CASE word # v
  <2>1. more = held
    BY <1>1, <1>4, <1>6
  <2> QED
    BY <1>2, <1>6, <2>1 DEF TimesIn
<1> QED
  BY <1>5, <1>6

LEMMA OddAppended ==
    ASSUME NEW q \in Seq(SUBSET W32), NEW v \in SUBSET W32
    PROVE  /\ v \in OddIn(q) => OddIn(Append(q, v)) = OddIn(q) \ {v}
           /\ v \notin OddIn(q) => OddIn(Append(q, v)) = OddIn(q) \union {v}
<1>1. Append(q, v) \in Seq(SUBSET W32)
  OBVIOUS
<1>2. ASSUME NEW word, word # v PROVE word \in OddIn(Append(q, v)) <=> word \in OddIn(q)
  <2>1. TimesIn(Append(q, v), word) = TimesIn(q, word)
    BY <1>2, TimesAppended, TimesIsNat
  <2> QED
    BY <1>1, <2>1, TimesIsNat
<1>3. v \in OddIn(Append(q, v)) <=> v \notin OddIn(q)
  <2>1. TimesIn(Append(q, v), v) = TimesIn(q, v) + 1
    BY TimesAppended
  <2>2. PICK t \in Nat : t = TimesIn(q, v)
    BY TimesIsNat
  <2>3. (t + 1) % 2 = 1 <=> t % 2 # 1
    OBVIOUS
  <2>4. v \in OddIn(q) <=> t % 2 = 1
    BY <2>2, TimesIsNat
  <2>5. v \in OddIn(Append(q, v)) <=> (t + 1) % 2 = 1
    BY <1>1, <2>1, <2>2, TimesIsNat
  <2> QED
    BY <2>3, <2>4, <2>5
<1>4. v \in OddIn(q) => OddIn(Append(q, v)) = OddIn(q) \ {v}
  BY <1>2, <1>3
<1>5. v \notin OddIn(q) => OddIn(Append(q, v)) = OddIn(q) \union {v}
  BY <1>2, <1>3
<1> QED
  BY <1>4, <1>5

(* The exclusive or of one word more.                                      *)
LEMMA XorTaken ==
    ASSUME NEW q \in Seq(SUBSET W32), NEW v \in SUBSET W32, NEW xor \in SUBSET W32,
           IsFiniteSet(OddIn(q)), XorOf(q, xor)
    PROVE  /\ IsFiniteSet(OddIn(Append(q, v)))
           /\ XorOf(Append(q, v), Xor(xor, v))
<1> DEFINE odd == OddIn(q)
           more == OddIn(Append(q, v))
<1>1. /\ v \in odd => more = odd \ {v}
      /\ v \notin odd => more = odd \union {v}
  BY OddAppended
<1>2. IsFiniteSet(odd)
  OBVIOUS
<1>3. \A b \in W32 : b \in xor <=> Cardinality(Holding(odd, b)) % 2 = 1
  BY DEF XorOf
<1> HIDE DEF odd, more
<1>4. IsFiniteSet(more)
  BY <1>1, <1>2, FS_AddElement, FS_RemoveElement
<1>5. ASSUME NEW b \in W32
      PROVE  b \in Xor(xor, v) <=> Cardinality(Holding(more, b)) % 2 = 1
  <2> DEFINE old == Holding(odd, b)
             new == Holding(more, b)
  <2>1. IsFiniteSet(old) /\ Cardinality(old) \in Nat
    <3>1. old \in SUBSET odd
      BY DEF Holding
    <3> QED
      BY <1>2, <3>1, FS_Subset, FS_CardinalityType
  <2>2. b \in Xor(xor, v) <=> ((b \in xor) # (b \in v))
    BY DEF Xor
  <2>3. CASE b \notin v
    <3>1. new = old
      BY <1>1, <2>3 DEF Holding
    <3> QED
      BY <1>3, <2>2, <2>3, <3>1
  <2>4. CASE b \in v
    <3>1. /\ \/ Cardinality(new) = Cardinality(old) + 1
             \/ Cardinality(new) = Cardinality(old) - 1
          /\ Cardinality(new) \in Nat
      <4>1. CASE v \in odd
        <5>1. new = old \ {v} /\ v \in old
          BY <1>1, <2>4, <4>1 DEF Holding
        <5>2. IsFiniteSet(new) /\ Cardinality(new) = Cardinality(old) - 1
          BY <2>1, <5>1, FS_RemoveElement
        <5> QED
          BY <5>2, FS_CardinalityType
      <4>2. CASE v \notin odd
        <5>1. new = old \union {v} /\ v \notin old
          BY <1>1, <2>4, <4>2 DEF Holding
        <5>2. Cardinality(new) = Cardinality(old) + 1
          BY <2>1, <5>1, FS_AddElement
        <5> HIDE DEF old, new
        <5> QED
          BY <2>1, <5>2
      <4> QED
        BY <4>1, <4>2
    <3>2. PICK t \in Nat : t = Cardinality(old)
      BY <2>1
    <3>3. Cardinality(new) % 2 = 1 <=> t % 2 # 1
      BY <3>1, <3>2
    <3>4. b \in xor <=> t % 2 = 1
      BY <1>3, <3>2
    <3> QED
      BY <2>2, <2>4, <3>3, <3>4
  <2> QED
    BY <2>3, <2>4
<1> QED
  BY <1>4, <1>5 DEF XorOf, more

LEMMA XorTurn ==
    ASSUME LoopInv, xor_unique \/ xor_missing
    PROVE  LoopInv'
<1>1. loop \in XorLoops
  BY DEF XorLoops, xor_unique, xor_missing
<1>2. /\ LoopTypes /\ count = 0 /\ IsFiniteSet(OddIn(fed)) /\ XorOf(fed, result)
      /\ (loop = "xor_missing" =>
             \A i \in 1..Len(fed) : i <= size + 1 => fed[i] = Numeral(i - 1))
  BY <1>1 DEF LoopInv, XorInv
<1>3. /\ fed \in Seq(SUBSET W32) /\ result \in SUBSET W32 /\ Len(fed) \in Nat
      /\ size \in Int
  BY <1>2 DEF LoopTypes
<1>4. \E word \in SUBSET W32 :
          /\ Take(word)
          /\ loop = "xor_missing" /\ Len(fed) <= size =>
               word = Numeral(Len(fed))
  <2>1. \A i : Numeral(i) \in SUBSET W32
    BY WordBits DEF Numeral
  <2> QED
    BY <1>3, <2>1, LoopsAssumption DEF xor_unique, xor_missing
<1>5. PICK word \in SUBSET W32 :
          /\ Take(word)
          /\ loop = "xor_missing" /\ Len(fed) <= size =>
               word = Numeral(Len(fed))
  BY <1>4
<1>6. /\ result' = Xor(result, word) /\ fed' = Append(fed, word)
      /\ UNCHANGED <<loop, argument, left, count, size>>
  BY <1>5 DEF Take
<1>7. IsFiniteSet(OddIn(Append(fed, word)))
      /\ XorOf(Append(fed, word), Xor(result, word))
  BY <1>2, <1>3, XorTaken
<1>8. PICK q, x : q = fed' /\ x = result'
  OBVIOUS
<1>9. q = Append(fed, word) /\ x = Xor(result, word) /\ IsFiniteSet(OddIn(q))
      /\ XorOf(q, x)
  BY <1>6, <1>7, <1>8
<1>10. q \in Seq(SUBSET W32) /\ x \in SUBSET W32
  BY <1>3, <1>9 DEF Xor
<1>11. ASSUME loop = "xor_missing", NEW i \in 1..Len(q), i <= size + 1
       PROVE  q[i] = Numeral(i - 1)
  <2>1. Len(q) = Len(fed) + 1 /\ q[Len(fed) + 1] = word
    BY <1>3, <1>9
  <2>2. CASE i \in 1..Len(fed)
    <3>1. q[i] = fed[i]
      BY <1>3, <1>9, <2>2
    <3> QED
      BY <1>2, <1>11, <2>2, <3>1
  <2>3. CASE i = Len(fed) + 1
    <3>1. Len(fed) <= size /\ i - 1 = Len(fed)
      BY <1>3, <1>11, <2>3
    <3> QED
      BY <1>5, <1>11, <2>1, <2>3, <3>1
  <2> QED
    BY <1>3, <2>1, <2>2, <2>3
<1>12. LoopTypes'
  BY <1>2, <1>6, <1>8, <1>10 DEF LoopTypes
<1>13. XorInv'
  <2>1. loop' \in XorLoops /\ count' = 0 /\ IsFiniteSet(OddIn(fed'))
        /\ XorOf(fed', result')
    BY <1>1, <1>2, <1>6, <1>8, <1>9
  <2>2. loop' = "xor_missing" =>
            \A i \in 1..Len(fed') : i <= size' + 1 => fed'[i] = Numeral(i - 1)
    BY <1>6, <1>8, <1>11
  <2> QED
    BY <2>1, <2>2 DEF XorInv
<1>14. CountInv' /\ ShiftInv' /\ MaskInv' /\ ReverseInv'
  BY <1>1, <1>6 DEF XorLoops, CountInv, ShiftInv, MaskInv, ReverseInv
<1> QED
  BY <1>12, <1>13, <1>14 DEF LoopInv

LEMMA LoopInductive ==
    ASSUME LoopInv, [LoopNext]_loopVars
    PROVE  LoopInv'
<1>1. CASE UNCHANGED loopVars
  <2>1. UNCHANGED <<loop, argument, left, count, size, fed, result>>
    BY <1>1 DEF loopVars
  <2>2. Zeros' = Zeros
    BY <2>1 DEF Zeros
  <2> QED
    BY <2>1, <2>2 DEF LoopInv, LoopTypes, CountInv, ShiftInv, MaskInv, ReverseInv, XorInv
<1>2. CASE LoopNext
  BY <1>2, CountTurn, ShiftTurn, MaskTurn, ReverseTurn, XorTurn DEF LoopNext
<1> QED
  BY <1>1, <1>2

------------------------------------------------------------------------------
(* What the invariant says once a loop has ended.                          *)
LEMMA ZeroLoopsExact ==
    ASSUME LoopInv
    PROVE  ZeroCountsExact
<1>1. /\ argument \in SUBSET W32 /\ left \in SUBSET W32 /\ count \in Nat
      /\ argument \in SUBSET Bits(32) /\ 32 \in Nat /\ 0 \in W32
      /\ \A c \in argument : c \in 0..31
  <2>1. argument \in SUBSET W32 /\ left \in SUBSET W32 /\ count \in Nat
    BY DEF LoopInv, LoopTypes
  <2> QED
    BY <2>1, WordBits
<1>2. ASSUME loop \in {"ffs32", "ctz32"}, ~ZerosBelow, argument # {}
      PROVE  Lowest(argument) = Zeros
  <2>1. PICK z : z = Zeros
    OBVIOUS
  <2>2. /\ z \in Nat /\ \A b : b \in left <=> b \in W32 /\ b + z \in argument
        /\ \A c \in argument : z <= c
    BY <1>2, <2>1 DEF LoopInv, ShiftInv
  <2>3. 0 \in left
    BY <1>2 DEF ZerosBelow, One
  <2>4. z \in argument
    BY <2>2, <2>3, 0 + z = z
  <2> QED
    BY <1>1, <2>1, <2>2, <2>4, LowestOf
<1>3. ASSUME loop = "clz32", ~ZerosAbove, argument # {}
      PROVE  Highest(argument) = 31 - count
  <2>1. left = {31 - count} /\ \A c \in argument : c <= 31 - count
    BY <1>3 DEF LoopInv, MaskInv
  <2>2. 31 - count \in argument
    BY <1>3, <2>1 DEF ZerosAbove
  <2> QED
    BY <1>1, <2>1, <2>2, HighestOf
<1>4. ASSUME loop = "ffs32", ~ZerosBelow, argument # {}
      PROVE  count = Lowest(argument) + 1
  BY <1>1, <1>2, <1>4 DEF Zeros
<1>5. ASSUME loop = "ctz32", ~ZerosBelow, argument # {} PROVE count = Lowest(argument)
  BY <1>1, <1>2, <1>5 DEF Zeros
<1>6. ASSUME loop = "clz32", ~ZerosAbove, argument # {}
      PROVE  count = 31 - Highest(argument)
  BY <1>1, <1>3, <1>6
<1>7. ASSUME argument = {}
      PROVE  /\ loop = "ffs32" => count = 0
             /\ loop \in {"ctz32", "clz32"} => count = 32
  BY <1>7 DEF LoopInv, ShiftInv, MaskInv
<1> QED
  BY <1>4, <1>5, <1>6, <1>7 DEF ZeroCountsExact

LEMMA CountAtMost ==
    ASSUME LoopInv
    PROVE  /\ count <= 32
           /\ loop = "popcount_kern" /\ left = {} => count = Cardinality(argument)
<1>1. /\ argument \in SUBSET W32 /\ left \in SUBSET W32 /\ count \in Nat
         /\ loop \in Loops
      /\ \A c \in argument : c \in 0..31
  BY WordBits DEF LoopInv, LoopTypes
<1>2. Cardinality(argument) <= 32 /\ Cardinality(argument) \in Nat
      /\ Cardinality(left) \in Nat
  <2>1. IsFiniteSet(0..31) /\ Cardinality(0..31) = 32
    <3>1. /\ IsFiniteSet(0..31)
          /\ Cardinality(0..31) = IF 0 > 31 THEN 0 ELSE 31 - 0 + 1
      BY FS_Interval, 0 \in Int, 31 \in Int
    <3> QED
      BY <3>1
  <2>2. argument \in SUBSET (0..31)
    BY <1>1
  <2>3. Cardinality(argument) <= 32
    BY <2>1, <2>2, FS_Subset, ZenonT(60)
  <2> QED
    BY <1>1, <2>3, WordFinite
<1>3. CASE loop = "popcount_kern"
  <2>1. count + Cardinality(left) = Cardinality(argument)
    BY <1>3 DEF LoopInv, CountInv
  <2>2. left = {} => Cardinality(left) = 0
    BY FS_EmptySet
  <2> QED
    BY <1>1, <1>2, <2>1, <2>2
<1>4. CASE argument # {} /\ loop \in {"ffs32", "ctz32"}
  <2>1. PICK z : z = Zeros
    OBVIOUS
  <2>2. z \in Nat /\ \A c \in argument : z <= c
    BY <1>4, <2>1 DEF LoopInv, ShiftInv
  <2>3. z <= 31
    BY <1>1, <1>4, <2>2
  <2>4. count = z \/ count = z + 1
    BY <1>1, <2>1, <2>2 DEF Zeros
  <2> QED
    BY <1>1, <1>4, <2>2, <2>3, <2>4
<1>5. CASE argument # {} /\ loop = "clz32"
  BY <1>1, <1>5 DEF LoopInv, MaskInv
<1>6. CASE loop = "reverse32"
  BY <1>1, <1>6 DEF LoopInv, ReverseInv
<1>7. CASE argument = {} /\ loop \in {"ffs32", "ctz32", "clz32"}
  BY <1>7 DEF LoopInv, ShiftInv, MaskInv
<1>8. CASE loop \in XorLoops
  BY <1>1, <1>8 DEF LoopInv, XorInv, XorLoops
<1> QED
  BY <1>1, <1>3, <1>4, <1>5, <1>6, <1>7, <1>8 DEF Loops, XorLoops

LEMMA ReversedExact ==
    ASSUME LoopInv, loop = "reverse32", count = 32
    PROVE  result = {31 - b : b \in argument}
<1>1. \A c \in argument : c \in 0..31
  BY WordBits DEF LoopInv, LoopTypes
<1>2. \A b : b \in result <=> b \in W32 /\ b < 32 /\ 32 - 1 - b \in argument
  BY DEF LoopInv, ReverseInv
<1>3. ASSUME NEW b PROVE b \in result <=> b \in 0..31 /\ 31 - b \in argument
  <2>1. b \in 0..31 => b < 32 /\ 32 - 1 - b = 31 - b
    OBVIOUS
  <2> QED
    BY <1>2, <2>1, WordBits
<1>4. ASSUME NEW b \in result PROVE b \in {31 - c : c \in argument}
  <2>1. b \in 0..31 /\ 31 - b \in argument /\ b = 31 - (31 - b)
    BY <1>3
  <2> QED
    BY <2>1
<1>5. ASSUME NEW c \in argument PROVE 31 - c \in result
  <2>1. c \in 0..31 /\ 31 - c \in 0..31 /\ 31 - (31 - c) = c
    BY <1>1
  <2> QED
    BY <1>3, <2>1
<1> QED
  BY <1>4, <1>5

(* A word that alone was taken an odd number of times is what remains.     *)
LEMMA OneRemains ==
    ASSUME LoopInv, NEW word, OddIn(fed) = {word}
    PROVE  result = word
<1>1. fed \in Seq(SUBSET W32) /\ result \in SUBSET W32
  BY DEF LoopInv, LoopTypes
<1>2. word \in SUBSET W32
  <2>1. word \in {fed[i] : i \in DOMAIN fed}
    BY DEF OddIn
  <2> QED
    BY <1>1, <2>1
<1>3. XorOf(fed, result)
  <2>1. SUFFICES ASSUME fed = <<>> PROVE FALSE
    BY DEF LoopInv, XorInv
  <2> QED
    BY <2>1 DEF OddIn
<1>4. ASSUME NEW b \in W32 PROVE b \in result <=> b \in word
  <2>1. b \in result <=> Cardinality(Holding({word}, b)) % 2 = 1
    BY <1>3 DEF XorOf
  <2>2. CASE b \in word
    <3>1. Holding({word}, b) = {word}
      BY <2>2 DEF Holding
    <3>2. Cardinality(Holding({word}, b)) = 1
      BY <3>1, FS_Singleton
    <3> QED
      BY <2>1, <2>2, <3>2, 1 % 2 = 1
  <2>3. CASE b \notin word
    <3>1. Holding({word}, b) = {}
      BY <2>3 DEF Holding
    <3>2. Cardinality(Holding({word}, b)) = 0
      BY <3>1, FS_EmptySet
    <3> QED
      BY <2>1, <2>3, <3>2, 0 % 2 = 0
  <2> QED
    BY <2>2, <2>3
<1> QED
  BY <1>1, <1>2, <1>4

LEMMA OddWordsAre == OddWords = OddIn(fed)
  BY DEF OddWords, OddIn, Times, TimesIn

(* Different numbers are different words.                                  *)
LEMMA NumeralDiffers ==
    ASSUME NEW i \in Nat, NEW j \in Nat, i < 2^31, j < 2^31, Numeral(i) = Numeral(j)
    PROVE  i = j
<1>1. 31 \in 1..32 /\ Power(31) = 2^31 /\ 2^31 = 2147483648
  BY SMT DEF Power
<1>2. i \in 0..(Power(31) - 1) /\ j \in 0..(Power(31) - 1)
  BY <1>1
<1>3. \A k \in 0..30 : Digit(i, k) \in {0, 1} /\ Digit(j, k) \in {0, 1}
  <2>1. ASSUME NEW k \in 0..30, NEW p \in Nat \ {0}
        PROVE  (i \div p) % 2 \in {0, 1} /\ (j \div p) % 2 \in {0, 1}
    <3>1. i \div p \in Int /\ j \div p \in Int
      BY SMT
    <3> QED
      BY <3>1
  <2>2. \A k \in 0..30 : k \in 0..32
    OBVIOUS
  <2> QED
    BY <2>1, <2>2, PowerFacts DEF Digit
<1>4. ASSUME NEW k \in 0..(31 - 1) PROVE Digit(i, k) = Digit(j, k)
  <2>1. k \in 0..30
    OBVIOUS
  <2>2. Digit(i, k) = 1 <=> k \in Numeral(i)
    BY <2>1 DEF Numeral, Digit, Power
  <2>3. Digit(j, k) = 1 <=> k \in Numeral(j)
    BY <2>1 DEF Numeral, Digit, Power
  <2> QED
    BY <1>3, <2>2, <2>3
<1> QED
  BY <1>1, <1>2, <1>4, SameDigits

(* Where the array holds 0 to n but one number, each of the others is      *)
(* taken twice: the places of the array are as many as those numbers, so   *)
(* that no two of them hold the same.                                      *)
LEMMA MissingIsOdd ==
    ASSUME LoopInv, loop = "xor_missing", Len(fed) = 2 * size + 1,
           NEW m \in 0..size, Array = {Numeral(i) : i \in (0..size) \ {m}}
    PROVE  OddIn(fed) = {Numeral(m)}
<1> DEFINE places == (size + 2)..(2 * size + 1)
           others == (0..size) \ {m}
<1>1. /\ fed \in Seq(SUBSET W32) /\ Len(fed) \in Nat /\ size \in Int
      /\ size < 2^30 + (2^30 - 1) /\ DOMAIN fed = 1..Len(fed)
  <2>1. fed \in Seq(SUBSET W32) /\ size \in Int /\ size <= MaxSize
    BY DEF LoopInv, LoopTypes
  <2>2. 2^30 + (2^30 - 1) \in Int
    OBVIOUS
  <2> QED
    BY <2>1, <2>2, LoopsAssumption
<1>2. \A i \in 1..(size + 1) : fed[i] = Numeral(i - 1)
  <2>1. \A i \in 1..Len(fed) : i <= size + 1 => fed[i] = Numeral(i - 1)
    BY DEF LoopInv, XorInv, XorLoops
  <2>2. ASSUME NEW i \in 1..(size + 1) PROVE i \in 1..Len(fed) /\ i <= size + 1
    BY <1>1
  <2> QED
    BY <2>1, <2>2
<1>3. ASSUME NEW i \in 0..size, NEW j \in 0..size, Numeral(i) = Numeral(j) PROVE i = j
  <2>1. i \in Nat /\ j \in Nat /\ i < 2^31 /\ j < 2^31
    <3>1. 2^30 + (2^30 - 1) < 2^31 /\ 2^31 \in Int /\ 2^30 + (2^30 - 1) \in Int
      BY SMT
    <3> QED
      BY <1>1, <3>1
  <2> QED
    BY <1>3, <2>1, NumeralDiffers
<1>4. Array = {fed[i] : i \in places}
  BY DEF Array
<1>5. \A i \in places : \E j \in others : fed[i] = Numeral(j)
  BY <1>4
<1>6. \A j \in others : \E i \in places : fed[i] = Numeral(j)
  BY <1>4
<1>7. IsFiniteSet(places) /\ Cardinality(places) = Cardinality(others)
  <2>1. PICK top \in Nat : top = size
    BY <1>1
  <2>2. IsFiniteSet(0..top) /\ Cardinality(0..top) = top + 1
    <3>1. PICK a \in Int, z \in Int : a = 0 /\ z = top
      OBVIOUS
    <3>2. /\ IsFiniteSet(a..z)
          /\ Cardinality(a..z) = IF a > z THEN 0 ELSE z - a + 1
      BY FS_Interval
    <3>3. (IF a > z THEN 0 ELSE z - a + 1) = top + 1
      BY <3>1
    <3> QED
      BY <3>1, <3>2, <3>3
  <2>3. Cardinality((0..top) \ {m}) = top
    <3>1. Cardinality((0..top) \ {m}) = Cardinality(0..top) - 1
      BY <2>1, <2>2, FS_RemoveElement
    <3> QED
      BY <2>2, <3>1
  <2>4. IsFiniteSet((top + 2)..(2 * top + 1))
        /\ Cardinality((top + 2)..(2 * top + 1)) = top
    <3>1. PICK a \in Int, z \in Int : a = top + 2 /\ z = 2 * top + 1
      OBVIOUS
    <3>2. /\ IsFiniteSet(a..z)
          /\ Cardinality(a..z) = IF a > z THEN 0 ELSE z - a + 1
      BY FS_Interval
    <3>3. (IF a > z THEN 0 ELSE z - a + 1) = top
      BY <3>1
    <3> QED
      BY <3>1, <3>2, <3>3
  <2> QED
    BY <2>1, <2>3, <2>4
<1> DEFINE held == [i \in places |-> CHOOSE j \in others : fed[i] = Numeral(j)]
<1>8. \A i \in places : held[i] \in others /\ fed[i] = Numeral(held[i])
  BY <1>5
<1>9. held \in Injection(places, others)
  <2>1. held \in [places -> others]
    BY <1>8
  <2>2. ASSUME NEW j \in others PROVE \E i \in places : held[i] = j
    <3>1. PICK i \in places : fed[i] = Numeral(j)
      BY <1>6
    <3> HIDE DEF held
    <3>2. held[i] = j
      BY <1>3, <1>8, <3>1
    <3> QED
      BY <3>2
  <2> HIDE DEF held
  <2>3. held \in Surjection(places, others)
    BY <2>1, <2>2 DEF Surjection
  <2> QED
    BY <1>7, <2>3, FS_SurjSameCardinalityImpliesInj
<1>10. \A i, j \in places : fed[i] = fed[j] => i = j
  <2> HIDE DEF held
  <2>1. held \in [places -> others] /\ IsInjective(held)
    BY <1>9, Zenon DEF Injection
  <2>2. DOMAIN held = places
    BY <2>1
  <2>3. \A i, j \in places : held[i] = held[j] => i = j
    BY <2>1, <2>2, Zenon DEF IsInjective
  <2> QED
    BY <1>3, <1>8, <2>3, Zenon
<1>11. \A i : i \in 1..Len(fed) <=> i \in 1..(size + 1) \/ i \in places
  BY <1>1
<1>12. TimesIn(fed, Numeral(m)) = 1
  <2>1. {i \in DOMAIN fed : fed[i] = Numeral(m)} = {m + 1}
    <3>1. m + 1 \in 1..(size + 1) /\ (m + 1) - 1 = m
      BY <1>1
    <3>2. ASSUME NEW i \in 1..(size + 1), fed[i] = Numeral(m) PROVE i = m + 1
      <4>1. i - 1 \in 0..size /\ fed[i] = Numeral(i - 1)
        BY <1>1, <1>2
      <4>2. i - 1 = m
        BY <1>3, <3>2, <4>1
      <4> QED
        BY <1>1, <4>2
    <3>3. ASSUME NEW i \in places PROVE fed[i] # Numeral(m)
      BY <1>3, <1>5
    <3>4. fed[m + 1] = Numeral(m)
      BY <1>2, <3>1
    <3> QED
      BY <1>1, <1>11, <3>1, <3>2, <3>3, <3>4
  <2> QED
    BY <2>1, FS_Singleton DEF TimesIn
<1>13. ASSUME NEW j \in others PROVE TimesIn(fed, Numeral(j)) = 2
  <2>1. PICK k \in places : fed[k] = Numeral(j)
    BY <1>6
  <2>2. j \in 0..size /\ j + 1 \in 1..(size + 1) /\ (j + 1) - 1 = j /\ k # j + 1
    BY <1>1
  <2>3. {i \in DOMAIN fed : fed[i] = Numeral(j)} = {j + 1} \union {k}
    <3>1. ASSUME NEW i \in 1..(size + 1), fed[i] = Numeral(j) PROVE i = j + 1
      <4>1. i - 1 \in 0..size /\ fed[i] = Numeral(i - 1)
        BY <1>1, <1>2
      <4>2. i - 1 = j
        BY <1>3, <2>2, <3>1, <4>1
      <4> QED
        BY <1>1, <4>2
    <3>2. ASSUME NEW i \in places, fed[i] = Numeral(j) PROVE i = k
      BY <1>10, <2>1, <3>2
    <3>3. fed[j + 1] = Numeral(j)
      BY <1>2, <2>2
    <3> QED
      BY <1>1, <1>11, <2>1, <2>2, <3>1, <3>2, <3>3
  <2>4. Cardinality({j + 1} \union {k}) = 2
    <3>1. IsFiniteSet({j + 1}) /\ Cardinality({j + 1}) = 1 /\ k \notin {j + 1}
      BY <2>2, FS_Singleton
    <3>2. Cardinality({j + 1} \union {k}) = Cardinality({j + 1}) + 1
      BY <3>1, FS_AddElement
    <3> QED
      BY <3>1, <3>2, 1 + 1 = 2
  <2> QED
    BY <2>3, <2>4 DEF TimesIn
<1>14. ASSUME NEW word \in OddIn(fed) PROVE word = Numeral(m)
  <2>1. PICK i \in 1..Len(fed) : word = fed[i]
    BY <1>1 DEF OddIn
  <2>2. \E j \in 0..size : word = Numeral(j)
    <3>1. CASE i \in 1..(size + 1)
      <4>1. i - 1 \in 0..size
        BY <1>1, <3>1
      <4> QED
        BY <1>2, <2>1, <3>1, <4>1
    <3>2. CASE i \in places
      BY <1>5, <2>1, <3>2
    <3> QED
      BY <1>11, <3>1, <3>2
  <2>3. \A j \in others : word # Numeral(j)
    <3>1. TimesIn(fed, word) % 2 = 1
      BY <1>1, TimesIsNat
    <3> QED
      BY <1>13, <3>1, 2 % 2 = 0
  <2> QED
    BY <2>2, <2>3
<1>15. Numeral(m) \in OddIn(fed)
  BY <1>1, <1>12, TimesIsNat, 1 % 2 = 1
<1> QED
  BY <1>14, <1>15

LEMMA LoopsAreSound ==
    ASSUME LoopInv
    PROVE  LoopsExact
<1>1. \A word \in OddWords : OddWords = {word} => result = word
  BY OneRemains, OddWordsAre
<1>2. ASSUME loop = "xor_missing", Len(fed) = 2 * size + 1, NEW m \in 0..size,
             Array = {Numeral(i) : i \in (0..size) \ {m}}
      PROVE  result = Numeral(m)
  BY <1>2, MissingIsOdd, OneRemains
<1>3. loop = "reverse32" /\ count = 32 => result = {31 - b : b \in argument}
  BY ReversedExact
<1> QED
  BY <1>1, <1>2, <1>3, CountAtMost, ZeroLoopsExact DEF LoopsExact

(* The expressions, whatever the arguments.                                *)
LEMMA WordTypesInitially == WordsInit => operand \in SUBSET W32 /\ second \in SUBSET W32
  BY WordsAssumption DEF WordsInit

LEMMA WordTypesKept ==
    ASSUME operand \in SUBSET W32 /\ second \in SUBSET W32, [WordsNext]_wordVars
    PROVE  (operand \in SUBSET W32 /\ second \in SUBSET W32)'
<1>1. CASE UNCHANGED wordVars
  BY <1>1 DEF wordVars
<1>2. CASE WordsNext
  <2>1. PICK bit \in W32, other \in Seconds : Another(bit, other)
    BY <1>2 DEF WordsNext
  <2> QED
    BY <2>1, WordsAssumption DEF Another, Xor
<1> QED
  BY <1>1, <1>2

LEMMA WordsAreExact ==
    ASSUME operand \in SUBSET W32, second \in SUBSET W32
    PROVE  WordOpsExact
  BY PowersAreExact, CountsExactly, FieldsAreExact, OrdersAreExact, AddressesAreExact
     DEF WordOpsExact

(* Every function of s01_bitops.c without a loop, every macro of macros.h  *)
(* on fields, alignments and powers of two, the field writes of d00_mmio   *)
(* and s07, BAR size and bridge window give what their names say, for      *)
(* every word and every position, width and amount; a window that would    *)
(* wrap past 64 bits is refused and the bridge keeps the one it had.       *)
THEOREM WordsExact == WordsSpec => []WordOpsExact
<1> DEFINE Typed == operand \in SUBSET W32 /\ second \in SUBSET W32
<1>1. WordsInit => Typed
  BY WordTypesInitially
<1>2. Typed /\ [WordsNext]_wordVars => Typed'
  BY WordTypesKept
<1>3. Typed => WordOpsExact
  BY WordsAreExact
<1> QED
  BY <1>1, <1>2, <1>3, PTL DEF WordsSpec

(* Every loop of s01_bitops.c ends within 32 turns with what its name      *)
(* says, for the word 0 as well (0 from ffs32, 32 from ctz32 and clz32),   *)
(* and what remains of an exclusive or is the odd word.                    *)
THEOREM LoopsEndExact == LoopSpec => []LoopsExact
  BY LoopInitially, LoopInductive, LoopsAreSound, PTL DEF LoopSpec

(* The toolkit as a whole.                                                 *)
THEOREM ToolkitIsExact == WordsSpec /\ LoopSpec => []ToolkitExact
<1>1. WordOpsExact /\ LoopsExact => ToolkitExact
  BY DEF ToolkitExact
<1> QED
  BY <1>1, WordsExact, LoopsEndExact, PTL
==============================================================================
