------------------------------- MODULE Arbiter -------------------------------
(***************************************************************************)
(* src/solutions/s17_pkgc_blocker_arbiter.c: the package state that the    *)
(* votes of cores, links and the rest allow, and the vote it names as the  *)
(* one that blocks a deeper one.  The platform (external) changes one vote *)
(* at a time, between calls.                                               *)
(***************************************************************************)
EXTENDS Integers, Sequences, FiniteSetsExt

CONSTANTS CoreCounts, LinkCounts,   (* values of n_cores and n_links       *)
          CoreStates,               (* values of core_cs                   *)
          AspmStates,               (* values of a link's state            *)
          Latencies,                (* values of ltr_us                    *)
          VotingCores, VotingLinks  (* entries of the arrays that change   *)

VARIABLE platform                   (* platform_t                          *)

arbiterVars == <<platform>>

MaxCores == 8
MaxLinks == 16

(* Every entry that a valid count makes the code read is among those.      *)
ASSUME ArbiterAssumption ==
    /\ CoreCounts \union LinkCounts \union CoreStates \union Latencies \subseteq Int
    /\ \A n \in CoreCounts \union {2} :
          n <= MaxCores => 0..(n - 1) \subseteq VotingCores
    /\ \A n \in LinkCounts \union {1} :
          n <= MaxLinks => 0..(n - 1) \subseteq VotingLinks

Quiet == {"usb_idle", "display_idle", "mc_self_refresh"}

(* platform_t as main starts with it: everything idle, unused entries zero.*)
ArbiterInit ==
    platform = [n_cores |-> 2,
                core_cs |-> [c \in VotingCores |-> IF c < 2 THEN 6 ELSE 0],
                n_links |-> 1,
                links |-> [l \in VotingLinks |->
                             IF l = 0 THEN [state |-> "ASPM_L1_2", ltr_us |-> 1500]
                                      ELSE [state |-> "ASPM_L0", ltr_us |-> 0]],
                idle |-> Quiet]

CoreVotes(c, cs) == platform' = [platform EXCEPT !.core_cs[c] = cs]
LinkVotes(l, s, us) ==
    platform' = [platform EXCEPT !.links[l] = [state |-> s, ltr_us |-> us]]
UnitVotes(u) ==
    platform' = [platform EXCEPT !.idle = IF u \in @ THEN @ \ {u} ELSE @ \union {u}]
CountsChange(cores, links) ==
    platform' = [platform EXCEPT !.n_cores = cores, !.n_links = links]

ArbiterNext ==
    \/ \E c \in VotingCores, cs \in CoreStates : CoreVotes(c, cs)
    \/ \E l \in VotingLinks, s \in AspmStates, us \in Latencies :
            LinkVotes(l, s, us)
    \/ \E u \in Quiet : UnitVotes(u)
    \/ \E cores \in CoreCounts, links \in LinkCounts : CountsChange(cores, links)

ArbiterSpec == ArbiterInit /\ [][ArbiterNext]_arbiterVars

Cores == 0..(platform.n_cores - 1)
Links == 0..(platform.n_links - 1)

BadCount == platform.n_cores \notin 0..MaxCores \/ platform.n_links \notin 0..MaxLinks

(* A test that fails names its first offender and ends the call: level and *)
(* the offenders of each, in the order of the code.                        *)
Test(level, who, offenders) == [level |-> level, who |-> who, offenders |-> offenders]
core_active == Test("PKG_C0", "core", {c \in Cores : platform.core_cs[c] <= 0})
core_shallow == Test("PKG_C2", "core", {c \in Cores : platform.core_cs[c] < 6})
unit_busy(u) == Test("PKG_C2", u, IF u \in platform.idle THEN {} ELSE {0})
link_awake == Test("PKG_C6", "link",
                   {l \in Links : \/ platform.links[l].state # "ASPM_L1_2"
                                  \/ platform.links[l].ltr_us < 1000})

links_first == <<core_active, link_awake, core_shallow, unit_busy("usb_idle"),
                 unit_busy("display_idle"),
                 unit_busy("mc_self_refresh")>>        (* mutated tests    *)
tests == <<core_active, core_shallow, unit_busy("usb_idle"),
           unit_busy("display_idle"), unit_busy("mc_self_refresh"), link_awake>>

arbitrate ==
    LET failed == {k \in 1..Len(tests) : tests[k].offenders # {}}
        first  == tests[Min(failed)]
    IN  IF BadCount THEN [level |-> "PKG_C0", why |-> <<"count", 0>>]
        ELSE IF failed = {} THEN [level |-> "PKG_C10", why |-> <<"all", 0>>]
        ELSE [level |-> first.level, why |-> <<first.who, Min(first.offenders)>>]

(* What one vote allows by itself, in the numbers of pkg_state_t.          *)
Depth == [PKG_C0 |-> 0, PKG_C2 |-> 1, PKG_C6 |-> 2, PKG_C10 |-> 3]
Voters == {<<"core", c>> : c \in Cores} \union {<<"link", l>> : l \in Links}
              \union {<<u, 0>> : u \in Quiet}
Allows(v) ==
    CASE v[1] = "core" -> LET cs == platform.core_cs[v[2]]
                          IN  IF cs <= 0 THEN 0 ELSE IF cs < 6 THEN 1 ELSE 3
      [] v[1] = "link" -> LET link == platform.links[v[2]]
                          IN  IF link.state = "ASPM_L1_2" /\ link.ltr_us >= 1000
                                THEN 3 ELSE 2
      [] OTHER         -> IF v[1] \in platform.idle THEN 3 ELSE 1

(* The package goes exactly as deep as its shallowest vote allows, and the *)
(* vote it blames is one that allows no more: clearing any other would not *)
(* help.  A count out of range keeps it in C0.  (arbitrate, lines 17-53)   *)
DeepestAllowed ==
    LET depth == Depth[arbitrate.level]   why == arbitrate.why
    IN  IF BadCount THEN depth = 0
        ELSE /\ depth = Min({3} \union {Allows(v) : v \in Voters})
             /\ depth < 3 => why \in Voters /\ Allows(why) = depth
==============================================================================
