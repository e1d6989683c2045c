------------------------------- MODULE PmStep -------------------------------
(***************************************************************************)
(* pm_step, the power handshake of d00_csr_model.c and, line for line the  *)
(* same, of the draft d00_csr_init.c.  Events arrive in any order: an      *)
(* acknowledge that was only late comes after the timeout it lost to.      *)
(***************************************************************************)
EXTENDS Naturals

CONSTANT MaxRequests        (* bound: requests made                        *)
ASSUME PmAssumption == MaxRequests \in Nat

VARIABLES state, requests   (* the handshake, requests made so far         *)

pmVars == <<state, requests>>

PmStates == {"PM_IDLE", "PM_REQ", "PM_ACK"}
Events   == {"EV_REQ", "EV_DONE", "EV_ACK", "EV_TIMEOUT"}

(* d00_bench also steps a state that is none of the three.                 *)
PmInit == state \in PmStates \union {"99"} /\ requests = 0

retried == "PM_REQ"            (* mutated given_up: ask once more            *)
given_up == "PM_IDLE"

next_state(event) ==
    CASE state = "PM_IDLE" -> IF event = "EV_REQ" THEN "PM_REQ" ELSE "PM_IDLE"
      [] state = "PM_REQ"  -> IF event = "EV_ACK" THEN "PM_ACK"
                              ELSE IF event = "EV_TIMEOUT" THEN given_up
                              ELSE "PM_REQ"
      [] state = "PM_ACK"  -> IF event = "EV_DONE" THEN "PM_IDLE" ELSE "PM_ACK"
      [] OTHER             -> "PM_IDLE"

pm_step(event) ==
    /\ event = "EV_REQ" => requests < MaxRequests
    /\ requests' = IF event = "EV_REQ" THEN requests + 1 ELSE requests
    /\ state' = next_state(event)

PmNext == \E event \in Events : pm_step(event)

(* The timer expires and finished work is reported; acknowledges may not   *)
(* come at all.                                                            *)
PmFairness == WF_pmVars(pm_step("EV_TIMEOUT")) /\ WF_pmVars(pm_step("EV_DONE"))

(* Once nobody asks any more the handshake comes to rest, from any state   *)
(* and after any late, early or repeated event: no requester is left to    *)
(* wait in PM_REQ or PM_ACK.  (pm_step, lines 75-90)                       *)
RestsWithoutRequests == <>[](state = "PM_IDLE")
==============================================================================
