----------------------------- MODULE ClockReset -----------------------------
(***************************************************************************)
(* The step functions of src/solutions/s03_clock_reset.c: an ideal clock   *)
(* multiplexer, a divider by an even number, and the release of resets in  *)
(* a given order.  They share no state.  A step that the code refuses      *)
(* returns -1 and changes nothing: it is a stuttering step here.           *)
(***************************************************************************)
EXTENDS Integers

CONSTANTS Divisors,    (* the values of n a divider is used with           *)
          NDomains     (* reset domains: n of reset_seq                    *)

ASSUME ClockAssumption ==
    /\ \A n \in Divisors : n \in Nat /\ n >= 2 /\ n % 2 = 0
    /\ NDomains \in Nat

VARIABLES
    clk_a, clk_b, selected, out,   (* multiplexer: inputs, choice, output  *)
    n, divider, edges,             (* divider: n, divider_t and, for the   *)
                                   (* properties, rising edges, modulo n   *)
    order, dom_rst                 (* the order, the resets by domain      *)

muxVars     == <<clk_a, clk_b, selected, out>>
dividerVars == <<n, divider, edges>>
resetVars   == <<order, dom_rst>>

------------------------------------------------------------------------------
MuxInit == clk_a = 0 /\ clk_b = 0 /\ selected = 0 /\ out = 0

(* A valid selection, not yet in force, while both clocks are low.         *)
one_clock_low(sel, a, b) == sel \in {0, 1} /\ a = 0   (* mutated may_switch *)
may_switch(sel, a, b) == sel \in {0, 1} /\ sel # selected /\ a = 0 /\ b = 0

clk_mux_step(sel, a, b) ==
    /\ clk_a' = a /\ clk_b' = b
    /\ selected' = IF may_switch(sel, a, b) THEN sel ELSE selected
    /\ out' = IF selected' = 1 THEN b ELSE a

(* Any selection, legal or not, at any edges of two unrelated clocks.      *)
MuxNext == \E sel \in -1..2, a, b \in {0, 1} : clk_mux_step(sel, a, b)

MuxSpec == MuxInit /\ [][MuxNext]_muxVars

(* The output never carries a pulse shorter than the source's: it rises    *)
(* and falls only together with the clock selected before the call.        *)
(* (clk_mux_step reports every runt as 0, line 6, without looking.)        *)
NoRunt ==
    [][out' # out => IF selected = 1 THEN clk_b' # clk_b
                                     ELSE clk_a' # clk_a]_muxVars

------------------------------------------------------------------------------
DividerInit ==
    /\ n \in Divisors
    /\ divider = [count |-> 0, previous_clock |-> 0, output |-> 0]
    /\ edges = 0

high(clk_in) == clk_in = 1                             (* mutated rising   *)
rising(clk_in) == clk_in = 1 /\ divider.previous_clock = 0

div_n(clk_in) ==
    LET count == divider.count + (IF rising(clk_in) THEN 1 ELSE 0)
        full  == rising(clk_in) /\ count >= n \div 2
    IN  /\ divider' = [count |-> IF full THEN 0 ELSE count,
                       previous_clock |-> clk_in,
                       output |-> IF full THEN 1 - divider.output
                                          ELSE divider.output]
        /\ edges' = IF clk_in > divider.previous_clock THEN (edges + 1) % n
                                                       ELSE edges
        /\ UNCHANGED n

DividerNext == \E clk_in \in {0, 1} : div_n(clk_in)

DividerSpec == DividerInit /\ [][DividerNext]_dividerVars

(* However often each level is sampled, the output is low for N/2 rising   *)
(* edges and high for the next N/2.  (div_n, lines 16-24)                  *)
DividesByN == divider.output = edges \div (n \div 2)

------------------------------------------------------------------------------
Domains == 0..(NDomains - 1)

(* Any array of n integers may be passed as the order, -1 and n included.  *)
ResetInit ==
    /\ order \in [Domains -> -1..NDomains]
    /\ dom_rst = [d \in Domains |-> 1]

out_of_range == \E i \in Domains : order[i] \notin Domains  (* mutated     *)
bad_order ==
    \E i \in Domains : order[i] \notin Domains \/ \E j \in Domains :
                                               j < i /\ order[i] = order[j]

reset_seq(step) ==
    /\ ~bad_order
    /\ \A prior \in Domains : prior < step => dom_rst[order[prior]] = 0
    /\ dom_rst' = [dom_rst EXCEPT ![order[step]] = 0]
    /\ UNCHANGED order

ResetNext == \E step \in Domains : reset_seq(step)

ResetSpec == ResetInit /\ [][ResetNext]_resetVars

(* Whatever steps were asked for, repeated and refused, the domains out of *)
(* reset are the first k of an order that names each domain once, and none *)
(* of an order that does not.  (reset_seq, lines 27-43)                    *)
EachOnce == {order[i] : i \in Domains} = Domains
ReleasedInOrder ==
    \E k \in 0..NDomains :
        /\ {d \in Domains : dom_rst[d] = 0} = {order[i] : i \in 0..(k - 1)}
        /\ k > 0 => EachOnce
==============================================================================
