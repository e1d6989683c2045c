------------------------------- MODULE MCPower -------------------------------
(***************************************************************************)
(* The power programs: frequency and voltage, residency counters, package  *)
(* states.  As in MCBringup a behaviour runs one of them.                  *)
(***************************************************************************)
EXTENDS Dvfs, Residency, Arbiter

VARIABLE running

vars == <<running, dvfsVars, residencyVars, arbiterVars>>

Init ==
    /\ running \in {"dvfs", "residency", "arbiter"}
    /\ DvfsInit /\ ArbiterInit
    /\ ResidencyInit
    /\ running # "residency" => start = [tsc |-> 0, count |-> [c \in Counters |-> 0]]

Only(name, others) == running = name /\ UNCHANGED <<running, others>>

Next ==
    \/ DvfsNext /\ Only("dvfs", <<residencyVars, arbiterVars>>)
    \/ ResidencyNext /\ Only("residency", <<dvfsVars, arbiterVars>>)
    \/ ArbiterNext /\ Only("arbiter", <<dvfsVars, residencyVars>>)

Spec == Init /\ [][Next]_vars

(* Counts and states the code must refuse are among the votes.             *)
MCCoreCounts == {-1, 2, 9}
MCCoreStates == {-1, 0, 1, 5, 6}
==============================================================================
