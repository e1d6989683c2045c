--------------------------- MODULE BringupLadder ---------------------------
(***************************************************************************)
(* The boot ladder of src/solutions/s06_cpu_bringup_ladder.c: stages that  *)
(* come up one after another, with a count of retries for each.            *)
(***************************************************************************)
EXTENDS Integers, FiniteSets

CONSTANTS STG_NUM,      (* number of stages: 9                             *)
          Budgets,      (* values of max_retries a caller passes           *)
          MaxFailures   (* bound: failures injected into one stage         *)

ASSUME LadderAssumption ==
    STG_NUM \in Nat \ {0} /\ Budgets \subseteq Nat /\ MaxFailures \in Nat

VARIABLES
    ready, retries, current,   (* bringup_t                                *)
    max_retries,               (* the caller's budget                      *)
    allowed_retries            (* failures of each stage answered "retry"  *)

ladderVars == <<ready, retries, current, max_retries, allowed_retries>>

Stages == 0..(STG_NUM - 1)

LadderInit ==
    /\ ready = [s \in Stages |-> FALSE]
    /\ retries = [s \in Stages |-> 0]
    /\ current = -1
    /\ max_retries \in Budgets
    /\ allowed_retries = [s \in Stages |-> 0]

not_below(next) == next >= current + 1                 (* mutated follows  *)
follows(next) == next = current + 1

(* A refused call returns false and changes nothing: no step.              *)
advance(next) ==
    /\ current \in -1..(STG_NUM - 1) /\ next \in Stages /\ follows(next)
    /\ next > 0 => ready[next - 1]
    /\ ready' = [ready EXCEPT ![next] = TRUE]
    /\ current' = next
    /\ UNCHANGED <<retries, max_retries, allowed_retries>>

one_more(stage) == retries[stage] <= max_retries      (* mutated may_retry *)
may_retry(stage) == retries[stage] + 1 <= max_retries

inject_fail(stage) ==
    /\ retries[stage] < MaxFailures
    /\ retries' = [retries EXCEPT ![stage] = @ + 1]
    /\ allowed_retries' = [allowed_retries EXCEPT
                             ![stage] = @ + (IF may_retry(stage) THEN 1 ELSE 0)]
    /\ UNCHANGED <<ready, current, max_retries>>

(* main asks for stages in and out of turn.                                *)
LadderNext ==
    \/ \E next \in -1..STG_NUM : advance(next)
    \/ \E stage \in Stages : inject_fail(stage)

LadderSpec == LadderInit /\ [][LadderNext]_ladderVars

(* After any mixture of advances and failures the stages that are up are   *)
(* those from the first to the current one.  (advance, lines 13-20)        *)
StagesInOrder == {s \in Stages : ready[s]} = 0..current

(* A stage is given at most its budget of retries, and all of it before it *)
(* is given up, whatever other stages fail.  (inject_fail, lines 22-26)    *)
WithinBudget ==
    \A s \in Stages : /\ allowed_retries[s] <= max_retries
                      /\ allowed_retries[s] < retries[s]
                            => allowed_retries[s] = max_retries

LadderSound == StagesInOrder /\ WithinBudget
==============================================================================
