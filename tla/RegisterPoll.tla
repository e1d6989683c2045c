---------------------------- MODULE RegisterPoll ----------------------------
(***************************************************************************)
(* Bringing up a device through its registers: masked writes to a control  *)
(* register and a bounded poll of a status register that the device may    *)
(* change between any two reads.  The repository has this five times, in   *)
(* d00_csr_model, d00_csr_init, d00_poll, s05_dev_init and s07_reg_poke;   *)
(* the copies differ in what they write, in their budget of reads, and in  *)
(* whether the loop itself plays the device.                               *)
(*                                                                         *)
(* A register is the set of its bits that are 1.                           *)
(***************************************************************************)
EXTENDS Naturals, Sequences

CONSTANT Tries          (* budgets of reads a caller passes                *)
ASSUME PollAssumption == Tries \subseteq Nat

VARIABLES
    program,            (* the function called, with its arguments         *)
    ctrl, status,       (* the two registers                               *)
    written,            (* masked writes made to ctrl so far               *)
    reads,              (* turns of the poll loop: i, or the timeout used  *)
    verdict,            (* "polling", then "ready" or "timeout"            *)
    ctrl0, misses       (* for the properties: ctrl at the call, and the   *)
                        (* reads that found status short of the mask       *)

pollVars == <<program, ctrl, status, written, reads, verdict, ctrl0, misses>>

AllBits == 0..31
EN == {0}
START == {1}
RESET == {31}
MODE == {1, 2, 3}
MODE_INIT == {2}                                   (* FIELD_PREP(2, 3, 1)  *)

(* Bits outside the mask stay, bits inside come from the value.            *)
or_in(reg, mask, value) == reg \union (value \intersect mask) (* mutated   *)
reg_rmw(reg, mask, value) == (reg \ mask) \union (value \intersect mask)

(* A function: writes to ctrl before the poll, and after it if the device  *)
(* came up; bits polled for; most reads; the turn, if any, in which the    *)
(* loop sets them itself, just before its read or just after it.           *)
Never == 99
Program(setup, wrapup, mask, tries, before, after) ==
    [setup |-> setup, wrapup |-> wrapup, mask |-> mask, tries |-> tries,
     before |-> before, after |-> after]

csr_init == Program(<< <<EN, EN>>, <<MODE, MODE_INIT>> >>, <<>>,
                    {0}, 10, Never, Never)
csr_init_draft == Program(<< <<EN, {}>>, <<MODE, MODE_INIT>> >>, <<>>,
                          {0}, 10, Never, 2)
poll_ready(tries) == Program(<< <<AllBits, RESET>>, <<AllBits, {}>> >>,
                             << <<EN, EN>>, <<START, START>> >>,
                             {0}, tries, 2, Never)
wait_for_bits_set(tries) == Program(<<>>, <<>>, 2..5, tries, Never, 3)
wait_for_bit_set(tries) == Program(<<>>, <<>>, {0}, tries, Never, Never)

Programs ==
    {csr_init, csr_init_draft}
        \union {poll_ready(t) : t \in Tries}
        \union {wait_for_bits_set(t) : t \in Tries}
        \union {wait_for_bit_set(t) : t \in Tries}

(* The registers d00_bench starts csr_init with, and some that are set.    *)
BenchCtrl   == {{}, {8}}
BenchStatus == {{0}, {1}}

PollInit ==
    /\ program \in Programs
    /\ ctrl \in BenchCtrl \union {{0, 1, 3, 8, 31}} /\ ctrl0 = ctrl
    /\ status \in BenchStatus \union {{}}
    /\ written = 0 /\ reads = 0 /\ misses = 0 /\ verdict = "polling"

Writes == IF verdict = "ready" THEN program.setup \o program.wrapup
                               ELSE program.setup

(* The next masked write; the poll starts when those before it are made.   *)
FieldWrite ==
    /\ written < Len(Writes)
    /\ ctrl' = reg_rmw(ctrl, Writes[written + 1][1], Writes[written + 1][2])
    /\ written' = written + 1
    /\ UNCHANGED <<program, status, reads, verdict, ctrl0, misses>>

any_bit(seen) == seen \intersect program.mask # {}     (* mutated is_ready *)
is_ready(seen) == program.mask \subseteq seen

Turn ==
    /\ verdict = "polling" /\ written = Len(Writes) /\ reads < program.tries
    /\ LET seen == IF reads = program.before THEN status \union program.mask
                                             ELSE status
       IN  /\ verdict' = IF is_ready(seen) THEN "ready" ELSE "polling"
           /\ status' = IF ~is_ready(seen) /\ reads = program.after
                          THEN seen \union program.mask ELSE seen
           /\ misses' = IF program.mask \subseteq seen THEN misses ELSE misses + 1
    /\ reads' = reads + 1
    /\ UNCHANGED <<program, ctrl, written, ctrl0>>

GiveUp ==
    /\ verdict = "polling" /\ written = Len(Writes) /\ reads = program.tries
    /\ verdict' = "timeout"
    /\ UNCHANGED <<program, ctrl, status, written, reads, ctrl0, misses>>

(* The device raises the bits one at a time, when it likes.                *)
DeviceRaises(bit) ==
    /\ bit \in program.mask \ status
    /\ status' = status \union {bit}
    /\ UNCHANGED <<program, ctrl, written, reads, verdict, ctrl0, misses>>

PollNext == FieldWrite \/ Turn \/ GiveUp
                \/ \E bit \in program.mask : DeviceRaises(bit)

PollSpec == PollInit /\ [][PollNext]_pollVars

(* Ready is reported at the first read that finds every bit, and no sooner *)
(* when only some have come; a timeout is reported after the whole budget  *)
(* of reads, each too early, even if the device has come up since; and a   *)
(* loop that plays the device within its budget never times out.           *)
PollVerdictExact ==
    /\ verdict = "polling" => reads = misses
    /\ verdict = "ready"   => reads = misses + 1
    /\ verdict = "timeout" => /\ misses = program.tries
                              /\ program.before >= program.tries
                              /\ program.after + 1 >= program.tries

(* Whatever the poll's verdict, ctrl holds the last value written to every *)
(* field and, outside all of them, what it held at the call: a device that *)
(* times out is left enabled and in its new mode (d00_bench, lines 47-58). *)
WrittenTo(bit) == {k \in 1..written : bit \in Writes[k][1]}
ControlAsWritten ==
    \A bit \in AllBits :
        bit \in ctrl <=>
            \/ WrittenTo(bit) = {} /\ bit \in ctrl0
            \/ \E k \in WrittenTo(bit) : /\ bit \in Writes[k][2]
                                         /\ \A j \in WrittenTo(bit) : j <= k
==============================================================================
