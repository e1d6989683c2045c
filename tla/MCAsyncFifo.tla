----------------------------- MODULE MCAsyncFifo -----------------------------
(***************************************************************************)
(* Depths 2, 4 and 8 with enough values to take both pointers over the wrap*)
(* of their second lap, and depths 0, 1 and 3, which valid_depth turns    *)
(* away.                                                                   *)
(***************************************************************************)
EXTENDS AsyncFifo

MCDepths == {0, 1, 2, 3, 4, 8}
==============================================================================
