-------------------------------- MODULE Dvfs --------------------------------
(***************************************************************************)
(* src/solutions/s16_dvfs.c: the choice of an operating point for a wanted *)
(* frequency and a temperature, and the order in which a change of point   *)
(* writes voltage and frequency.  The code records the order; the platform *)
(* that performs the two writes, one after the other, is external.         *)
(***************************************************************************)
EXTENDS Integers, Sequences, FiniteSetsExt

CONSTANTS Wanted,          (* frequencies asked for, in MHz                *)
          Temperatures     (* junction temperatures, in degrees            *)

ASSUME DvfsAssumption == Wanted \subseteq Int /\ Temperatures \subseteq Int

VARIABLES
    wanted, tj,            (* arguments of select_opp                      *)
    turn, best,            (* its loop: entries looked at, and best        *)
    point,                 (* the entry it returned, then the one in force *)
    last_sequence,         (* what apply_opp ordered and is still to do    *)
    freq, volt             (* what the platform runs at                    *)

dvfsVars == <<wanted, tj, turn, best, point, last_sequence, freq, volt>>

Opp(f, v) == [freq_mhz |-> f, volt_mv |-> v]
table == << Opp(400, 750), Opp(800, 850), Opp(1200, 950), Opp(1800, 1050),
            Opp(2400, 1150) >>
Points == 1..Len(table)

DvfsInit ==
    /\ wanted = 0 /\ tj = 0 /\ turn = 0 /\ best = 1 /\ point = 1
    /\ last_sequence = <<>>
    /\ freq = table[1].freq_mhz /\ volt = table[1].volt_mv

Hot == 90
cap_above == IF tj > Hot THEN 1200 ELSE 2400           (* mutated cap      *)
cap == IF tj >= Hot THEN 1200 ELSE 2400

CallSelect(mhz, degrees) ==
    /\ turn = 0 /\ last_sequence = <<>>
    /\ wanted' = mhz /\ tj' = degrees /\ turn' = 1 /\ best' = 1
    /\ UNCHANGED <<point, last_sequence, freq, volt>>

raises(from, to) == table[to].freq_mhz > table[from].freq_mhz
voltage_last(from, to) == <<"frequency", "voltage">>   (* mutated ordered  *)
ordered(from, to) == IF raises(from, to) THEN <<"voltage", "frequency">>
                                         ELSE <<"frequency", "voltage">>

(* select_opp returns a point, and apply_opp is called with it.            *)
Chosen(opp) ==
    /\ point' = opp /\ last_sequence' = ordered(point, opp) /\ turn' = 0
    /\ UNCHANGED <<wanted, tj, best, freq, volt>>

LookAt ==
    /\ turn \in Points
    /\ LET allowed_here == table[turn].freq_mhz <= cap
       IN  IF allowed_here /\ table[turn].freq_mhz >= wanted
             THEN Chosen(turn)
             ELSE /\ best' = IF allowed_here THEN turn ELSE best
                  /\ turn' = turn + 1
                  /\ UNCHANGED <<wanted, tj, point, last_sequence, freq, volt>>

FallBack == turn = Len(table) + 1 /\ Chosen(best)

PlatformWrites ==
    /\ last_sequence # <<>>
    /\ last_sequence' = Tail(last_sequence)
    /\ IF Head(last_sequence) = "voltage"
         THEN volt' = table[point].volt_mv /\ UNCHANGED freq
         ELSE freq' = table[point].freq_mhz /\ UNCHANGED volt
    /\ UNCHANGED <<wanted, tj, turn, best, point>>

DvfsNext ==
    \/ \E mhz \in Wanted, degrees \in Temperatures : CallSelect(mhz, degrees)
    \/ LookAt \/ FallBack \/ PlatformWrites

DvfsSpec == DvfsInit /\ [][DvfsNext]_dvfsVars

(* At every moment, between the two writes too, the voltage is enough for  *)
(* the frequency.  (apply_opp, lines 20-27)                                *)
VoltageSuffices ==
    \E p \in Points : table[p].freq_mhz = freq /\ volt >= table[p].volt_mv

(* The point chosen is the slowest that meets the demand among those the   *)
(* temperature allows, or the fastest allowed if none does; from 90        *)
(* degrees up only 1200 MHz and less are.  (select_opp, lines 10-18)       *)
ChosenExact ==
    last_sequence # <<>> =>
        LET allowed == {p \in Points : tj >= 90 => table[p].freq_mhz <= 1200}
            enough  == {p \in allowed : table[p].freq_mhz >= wanted}
        IN  point = IF enough # {} THEN Min(enough) ELSE Max(allowed)
==============================================================================
