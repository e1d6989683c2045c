---------------------------- MODULE MCEnumWalker ----------------------------
(***************************************************************************)
(* Every inventory of up to four functions on three buses, with bridges to *)
(* any of them, and room for four: among them trees, the four-function     *)
(* chain of the program, bridges to their own or a lower bus, buses behind *)
(* two bridges, buses nobody leads to, and walks that run out of room.     *)
(***************************************************************************)
EXTENDS EnumWalker

Buses == 0..2
Endpoints == [bus : Buses, bridge : {FALSE}, secondary_bus : {0}]
Bridges == [bus : Buses, bridge : {TRUE}, secondary_bus : Buses]
MCInventories == UNION {[1..n -> Endpoints \union Bridges] : n \in 0..4}
==============================================================================
