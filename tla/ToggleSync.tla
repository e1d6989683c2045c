----------------------------- MODULE ToggleSync -----------------------------
(***************************************************************************)
(* toggle_sync of src/solutions/s04_cdc_sync.c: source events flip a bit,  *)
(* which the slower destination samples every dest_div source clocks, and  *)
(* once more at the end.  And peak_backlog of s04_async_fifo.c, which      *)
(* sizes the FIFO between two such clocks.                                 *)
(***************************************************************************)
EXTENDS Integers, Sequences, FiniteSets

CONSTANTS Divs,         (* values of dest_div                              *)
          MaxClocks     (* bound: source clocks of a run                   *)

ASSUME ToggleAssumption == Divs \subseteq Nat \ {0} /\ MaxClocks \in Nat

VARIABLES
    dest_div, clocks,                   (* arguments of toggle_sync        *)
    src_pulses,                         (* events so far: 0 or 1 per clock *)
    source_toggle, sampled_toggle,
    dest_pulses, delivered,             (* clocks with a pulse; the count  *)
    net,                                (* peak_backlog: writes less reads *)
                                        (* before each tick and after all  *)
    backlog, peak                       (* a peak of -1 ends it            *)

toggleVars  == <<dest_div, clocks, src_pulses, source_toggle, sampled_toggle,
                 dest_pulses, delivered>>
backlogVars == <<net, backlog, peak>>

ToggleInit ==
    /\ dest_div \in Divs /\ clocks \in 0..MaxClocks /\ src_pulses = <<>>
    /\ source_toggle = 0 /\ sampled_toggle = 0
    /\ dest_pulses = {} /\ delivered = 0

only_full_periods(tick) == tick % dest_div = 0         (* mutated sampled  *)
sampled(tick) == tick % dest_div = 0 \/ tick = clocks

SourceClock(event) ==
    LET tick == Len(src_pulses) + 1
    IN  /\ tick <= clocks
        /\ src_pulses' = Append(src_pulses, event)
        /\ source_toggle' = (source_toggle + event) % 2
        /\ IF sampled(tick) /\ source_toggle' # sampled_toggle
             THEN /\ dest_pulses' = dest_pulses \union {tick}
                  /\ sampled_toggle' = source_toggle'
                  /\ delivered' = delivered + 1
             ELSE UNCHANGED <<dest_pulses, sampled_toggle, delivered>>
        /\ UNCHANGED <<dest_div, clocks>>

ToggleNext == \E event \in {0, 1} : SourceClock(event)
ToggleSpec == ToggleInit /\ [][ToggleNext]_toggleVars

(* Pairs of events between two samples cancel out, and nothing else is     *)
(* lost: a sample pulses exactly if an odd number of events came since the *)
(* one before, and a run that is over has delivered its events modulo two, *)
(* the last, shorter period included.  (toggle_sync, lines 5-20)           *)
Events(from, to) == Cardinality({i \in from..to : src_pulses[i] = 1})
Previous(s) == dest_div * ((s - 1) \div dest_div)
ParityDelivered ==
    LET now == Len(src_pulses)
    IN  /\ dest_pulses = {s \in 1..now : /\ s % dest_div = 0 \/ s = clocks
                                         /\ Events(Previous(s) + 1, s) % 2 = 1}
        /\ delivered = Cardinality(dest_pulses)
        /\ now = clocks => delivered % 2 = Events(1, now) % 2

------------------------------------------------------------------------------
BacklogInit == net = <<0>> /\ backlog = 0 /\ peak = 0

unclamped(level) == level                              (* mutated clamped  *)
clamped(level) == IF level < 0 THEN 0 ELSE level

BacklogTick(write, read) ==
    /\ Len(net) <= MaxClocks /\ peak >= 0
    /\ IF {write, read} \subseteq {0, 1}
         THEN /\ net' = Append(net, net[Len(net)] + write - read)
              /\ backlog' = clamped(backlog + write - read)
              /\ peak' = IF backlog' > peak THEN backlog' ELSE peak
         ELSE peak' = -1 /\ UNCHANGED <<net, backlog>>

BacklogNext == \E write, read \in 0..2 : BacklogTick(write, read)
BacklogSpec == BacklogInit /\ [][BacklogNext]_backlogVars

(* The depth returned is the largest excess of writes over reads in any    *)
(* interval of the schedule, wherever it begins: no smaller FIFO is enough *)
(* for it, and no larger one needed.  (peak_backlog, lines 52-63)          *)
PeakIsWorstInterval ==
    peak >= 0 =>
        /\ \A from, to \in 1..Len(net) : from <= to => net[to] - net[from] <= peak
        /\ \E from, to \in 1..Len(net) : from <= to /\ net[to] - net[from] = peak
=============================================================================
