-------------------------------- MODULE Ltssm --------------------------------
(***************************************************************************)
(* The link state machine of src/solutions/s10_ltssm_walk.c.               *)
(***************************************************************************)
EXTENDS Naturals

CONSTANT RecoveryValues     (* values of recoveries: 2^32                  *)
ASSUME LtssmAssumption == RecoveryValues \in Nat \ {0}

VARIABLES
    st, recoveries,   (* link_t                                            *)
    configured        (* Config entered since the link last trained anew   *)

ltssmVars == <<st, recoveries, configured>>

Training   == {"DETECT", "POLLING", "CONFIG"}
LowPower   == {"L0S", "L1", "L1_1", "L1_2", "L2"}
LinkStates == Training \union {"L0", "RECOVERY"} \union LowPower

LtssmInit == st = "DETECT" /\ recoveries = 0 /\ configured = FALSE

(* The moves the table holds.                                              *)
allowed(from, to) ==
    CASE from = "DETECT"   -> to = "POLLING"
      [] from = "POLLING"  -> to \in {"CONFIG", "DETECT"}
      [] from = "CONFIG"   -> to \in {"L0", "DETECT"}
      [] from = "L0"       -> to \in {"RECOVERY", "L0S", "L1", "L2"}
      [] from = "RECOVERY" -> to \in {"L0", "POLLING"}
      [] from = "L0S"      -> to \in {"L0", "L1"}
      [] from = "L1"       -> to \in {"L0", "L1_1"}
      [] from = "L1_1"     -> to \in {"L1", "L1_2"}
      [] from = "L1_2"     -> to = "L1"
      [] from = "L2"       -> to = "DETECT"
either_way(from, to) == allowed(from, to) \/ allowed(to, from)

may_go_back(to) == either_way(st, to)                 (* mutated may_go    *)
may_go(to) == allowed(st, to)

(* A move the table does not hold is refused and changes nothing: no step. *)
go(to) ==
    /\ to \in LinkStates /\ may_go(to)
    /\ st' = to
    /\ recoveries' = IF to = "RECOVERY" THEN (recoveries + 1) % RecoveryValues
                                        ELSE recoveries
    /\ configured' = (to = "CONFIG" \/ (configured /\ to \notin Training))

LtssmNext == \E to \in LinkStates : go(to)

LtssmSpec == LtssmInit /\ [][LtssmNext]_ltssmVars

(* On a walk of any length the link is up, or in a power state, only if it *)
(* has been through Config since it last was in Detect or Polling; a link  *)
(* that lost Recovery, or woke from L2, trains in full.  (allowed, 12-26)  *)
ConfiguredBeforeUse == st \notin {"DETECT", "POLLING"} => configured
==============================================================================
