--------------------------- MODULE MCCdcHandshake ---------------------------
(***************************************************************************)
(* Up to twelve words under a tick counter of sixteen values: like 2^32,   *)
(* sixteen is one more than a multiple of three, so at each wrap two       *)
(* destination edges follow each other without the usual gap, and the      *)
(* twelve words meet that slip at different points of the protocol.        *)
(***************************************************************************)
EXTENDS CdcHandshake
==============================================================================
