----------------------------- MODULE CycleDetect -----------------------------
(***************************************************************************)
(* has_cycle of src/solutions/d00_cycle_detect.c, two pointers that run    *)
(* through the same list at different speeds, over any heap whatever.      *)
(***************************************************************************)
EXTENDS Integers, FiniteSets

CONSTANTS Nodes, NoNode     (* the nodes, and NULL                         *)

ASSUME CycleAssumption == IsFiniteSet(Nodes) /\ NoNode \notin Nodes

VARIABLES nextNode, first,  (* the field next of every node; head          *)
          slow, fast,
          found,            (* "searching", then the result                *)
          turns             (* of the loop, which the code does not count  *)

cycleVars == <<nextNode, first, slow, fast, found, turns>>

CycleInit ==
    /\ nextNode \in [Nodes -> Nodes \union {NoNode}]
    /\ first \in Nodes \union {NoNode}
    /\ slow = first /\ fast = first /\ found = "searching" /\ turns = 0

one_on(node) == nextNode[node]                         (* mutated two_on   *)
two_on(node) == nextNode[nextNode[node]]

TwoAhead == fast # NoNode /\ nextNode[fast] # NoNode

SearchStep ==
    /\ found = "searching" /\ TwoAhead
    /\ slow' = nextNode[slow]
    /\ fast' = two_on(fast)
    /\ found' = IF slow' = fast' THEN "cycle" ELSE found
    /\ turns' = turns + 1
    /\ UNCHANGED <<nextNode, first>>

SearchEnds ==
    /\ found = "searching" /\ ~TwoAhead
    /\ found' = "none"
    /\ UNCHANGED <<nextNode, first, slow, fast, turns>>

CycleNext == SearchStep \/ SearchEnds
CycleSpec == CycleInit /\ [][CycleNext]_cycleVars
CycleFairness == WF_cycleVars(CycleNext)

------------------------------------------------------------------------------
(* The list has no end: its first node is one of some that lead only to    *)
(* each other.                                                             *)
Endless ==
    \E nodes \in SUBSET Nodes :
        first \in nodes /\ \A node \in nodes : nextNode[node] \in nodes

(* slow is never NULL where it is followed, and an answer given is right.  *)
SearchSound ==
    /\ found = "searching" /\ TwoAhead => slow # NoNode
    /\ (found = "cycle" => Endless) /\ (found = "none" => ~Endless)

(* The search ends on every list, cyclic or not, after a turn of the loop  *)
(* for every node at most, and says "cycle" exactly if the list has no     *)
(* end.  (has_cycle, lines 21-34)                                          *)
CycleVerdict ==
    /\ [](turns <= Cardinality(Nodes) /\ SearchSound)
    /\ <>(found # "searching")
==============================================================================
