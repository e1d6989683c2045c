------------------------------ MODULE MCSqRing ------------------------------
(***************************************************************************)
(* Four slots and indices modulo eight, the fewest values that hold more   *)
(* than one lap; twenty-one submissions take every index over the wrap     *)
(* twice, at every fill level of the queue.                                *)
(***************************************************************************)
EXTENDS SqRing
==============================================================================
