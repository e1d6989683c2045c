------------------------------ MODULE LruCache ------------------------------
(***************************************************************************)
(* The cache model of src/solutions/s08_cache_sim.c.  Every access stamps  *)
(* a line with a clock the whole cache shares; a miss fills the first      *)
(* invalid way or, in a full set, the way with the lowest stamp.           *)
(*                                                                         *)
(* The clock is unsigned.  Until it wraps, the lowest stamp is the least   *)
(* recently used line; after that it need not be.                          *)
(***************************************************************************)
EXTENDS Integers, FiniteSets, FiniteSetsExt

CONSTANTS SETS, WAYS,   (* geometry: 8 and 4                               *)
          W,            (* values of the clock and the counters: 2^32      *)
          Lines,        (* line numbers accessed (address / LINE_SIZE)     *)
          Accesses      (* bound: accesses made                            *)

ASSUME CacheAssumption ==
    /\ SETS \in Nat \ {0} /\ WAYS \in Nat \ {0}
    /\ W \in Nat \ {0} /\ Accesses \in Nat
    /\ Lines \subseteq Nat /\ IsFiniteSet(Lines)

VARIABLES line,         (* [set][way] -> valid, tag, age                   *)
          clock, hits, misses,
          accesses,     (* how many there have been                        *)
          last          (* line number -> when it was last accessed, or 0  *)

vars == <<line, clock, hits, misses, accesses, last>>

SetIds == 0..(SETS - 1)
WayIds == 0..(WAYS - 1)

Set(l) == l % SETS
Tag(l) == l \div SETS
Up(counter) == (counter + 1) % W

Holds(entry, tag) == entry.valid /\ entry.tag = tag
HitWays(l) == {w \in WayIds : Holds(line[Set(l)][w], Tag(l))}
Invalid(s) == {w \in WayIds : ~line[s][w].valid}

(* The scan for a victim stops at the first invalid way; in a full set it  *)
(* keeps the first of the lowest stamps.                                   *)
Newest(s) == CHOOSE w \in WayIds :                     (* mutated Oldest   *)
    \A v \in WayIds : line[s][v].age <= line[s][w].age
Oldest(s) == CHOOSE w \in WayIds :
    \A v \in WayIds :
        IF v < w THEN line[s][w].age < line[s][v].age
                 ELSE line[s][w].age <= line[s][v].age
Victim(s) == IF Invalid(s) # {} THEN Min(Invalid(s)) ELSE Oldest(s)

StaleStamp(entry, now) == entry                        (* mutated Refresh  *)
Refresh(entry, now) == [entry EXCEPT !.age = now]

Init ==
    /\ line = [s \in SetIds |-> [w \in WayIds |-> [valid |-> FALSE, tag |-> 0, age |-> 0]]]
    /\ clock = 0 /\ hits = 0 /\ misses = 0
    /\ accesses = 0 /\ last = [l \in Lines |-> 0]

Hit(l) ==
    /\ HitWays(l) # {}
    /\ LET w == Min(HitWays(l)) IN
         line' = [line EXCEPT ![Set(l)][w] = Refresh(@, clock')]
    /\ hits' = Up(hits) /\ UNCHANGED misses

Miss(l) ==
    /\ HitWays(l) = {}
    /\ line' = [line EXCEPT ![Set(l)][Victim(Set(l))] =
                  [valid |-> TRUE, tag |-> Tag(l), age |-> clock']]
    /\ misses' = Up(misses) /\ UNCHANGED hits

access(l) ==
    /\ accesses < Accesses
    /\ clock' = Up(clock)
    /\ Hit(l) \/ Miss(l)
    /\ accesses' = accesses + 1
    /\ last' = [last EXCEPT ![l] = accesses']

Done == accesses = Accesses /\ UNCHANGED vars

Next == (\E l \in Lines : access(l)) \/ Done

Spec == Init /\ [][Next]_vars

------------------------------------------------------------------------------
(* "Evict the least-recently-used line on a miss" (EXERCISES.md:106): over *)
(* any run of hits and misses, in sets that share one clock, a set holds   *)
(* the last WAYS different lines accessed in it, each in one way.          *)
Resident(s) == {line[s][w].tag * SETS + s : w \in WayIds \ Invalid(s)}
AccessedIn(s) == {l \in Lines : Set(l) = s /\ last[l] > 0}
Later(l) == {m \in AccessedIn(Set(l)) : last[m] > last[l]}
MostRecent(s) == {l \in AccessedIn(s) : Cardinality(Later(l)) < WAYS}

HoldsMostRecentlyUsed ==
    \A s \in SetIds :
        /\ Resident(s) = MostRecent(s)
        /\ Cardinality(Resident(s)) = Cardinality(WayIds \ Invalid(s))
==============================================================================
