------------------------------ MODULE Residency ------------------------------
(***************************************************************************)
(* src/solutions/s16_residency_delta.c: shares of time from two snapshots  *)
(* of counters that wrap.  The counters themselves are the processor's     *)
(* (external): one counts time, and each of the others counts while its    *)
(* state is entered.  Deeper states are entered within shallower ones, but *)
(* nothing here needs that.                                                *)
(***************************************************************************)
EXTENDS Integers

CONSTANTS CounterValues,   (* values of a counter: 2^64                    *)
          Counters,        (* cc3, cc6, cc7, pc2, pc6, pc10                *)
          MaxElapsed       (* bound: ticks after the first snapshot        *)

ASSUME ResidencyAssumption ==
    CounterValues \in Nat \ {0} /\ MaxElapsed \in Nat

VARIABLES
    start, end,            (* msr_snap_t: the counters and tsc             *)
    elapsed, resident      (* ticks since start, in all and by state       *)

residencyVars == <<start, end, elapsed, resident>>

Values == 0..(CounterValues - 1)
Snapshots == [tsc : Values, count : [Counters -> Values]]

ResidencyInit ==
    /\ start \in Snapshots /\ end = start
    /\ elapsed = 0 /\ resident = [c \in Counters |-> 0]

Bump(value) == (value + 1) % CounterValues

(* A tick of time, spent in the states entered.                            *)
TimePasses(entered) ==
    /\ elapsed < MaxElapsed
    /\ elapsed' = elapsed + 1
    /\ resident' = [c \in Counters |->
                      resident[c] + (IF c \in entered THEN 1 ELSE 0)]
    /\ end' = [tsc |-> Bump(end.tsc),
               count |-> [c \in Counters |-> IF c \in entered
                                               THEN Bump(end.count[c])
                                               ELSE end.count[c]]]
    /\ UNCHANGED start

ResidencyNext == \E entered \in SUBSET Counters : TimePasses(entered)

ResidencySpec == ResidencyInit /\ [][ResidencyNext]_residencyVars

clipped_delta(till, from) == IF till >= from THEN till - from ELSE 0 (* mutated *)
wrap_delta(till, from) == (till - from) % CounterValues

(* A percentage is kept as the pair of numbers that are divided.           *)
residency_pct(till, from, wall_delta) ==
    LET delta == wrap_delta(till, from)
    IN  [sanity |-> delta > wall_delta,
         pct |-> IF wall_delta = 0 THEN <<0, 1>> ELSE <<100 * delta, wall_delta>>]

print_row ==
    LET wall == wrap_delta(end.tsc, start.tsc)
    IN  [c \in Counters |-> residency_pct(end.count[c], start.count[c], wall)]

(* A row printed before the clock has run once round shows for every state *)
(* its true share of the time, and no "!", wherever any counter wrapped.   *)
(* (wrap_delta, residency_pct and print_row, lines 11-28)                  *)
SharesTrue ==
    elapsed < CounterValues =>
        \A c \in Counters :
            /\ ~print_row[c].sanity
            /\ print_row[c].pct[1] * elapsed
                    = 100 * resident[c] * print_row[c].pct[2]
==============================================================================
