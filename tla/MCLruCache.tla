----------------------------- MODULE MCLruCache -----------------------------
(***************************************************************************)
(* Two sets of three ways; five lines compete for set 0 and two for set 1, *)
(* enough for evictions between hits, and accesses to set 1 that make the  *)
(* stamps of set 0 skip.                                                   *)
(***************************************************************************)
EXTENDS LruCache

MCLines == {0, 2, 4, 6, 8, 1, 3}
==============================================================================
