----------------------------- MODULE MCSpscRing -----------------------------
(***************************************************************************)
(* A ring of four slots whose index type holds two laps, the fewest the    *)
(* ring can live with.  The indices start where main puts them, five below *)
(* the wrap, so both threads cross it, at different times; thirteen        *)
(* transfers use every slot three times and cross the wrap twice.          *)
(***************************************************************************)
EXTENDS SpscRing

MCStart == (W - 1) - 4    (* UINT32_MAX - 4 *)
==============================================================================
