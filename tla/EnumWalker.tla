----------------------------- MODULE EnumWalker -----------------------------
(***************************************************************************)
(* enumerate of src/solutions/s11_enum_walker.c: the walk over the fake    *)
(* configuration space, one action per turn of the loop and per return,    *)
(* with the recursion as an explicit stack of calls.                       *)
(*                                                                         *)
(* A function of the inventory is its bus and, for a bridge, the bus       *)
(* behind it; the rest of its fields is copied and not looked at.  The     *)
(* inventory is a parameter: the walk should be right for any of them, the *)
(* ill-formed ones included (a bridge to its own bus, two bridges to one). *)
(***************************************************************************)
EXTENDS Integers, Sequences, FiniteSets

CONSTANTS Inventories,   (* sequences of [bus, bridge, secondary_bus]      *)
          MAX_NODES      (* room in the tree: 8                            *)

ASSUME EnumAssumption ==
    /\ MAX_NODES \in Nat
    /\ Inventories \subseteq
          Seq([bus : 0..255, bridge : BOOLEAN, secondary_bus : 0..255])

VARIABLES inventory,
          nodes,         (* inventory numbers discovered, in order         *)
          stack          (* the calls: their bus and loop index            *)

vars == <<inventory, nodes, stack>>

Call(bus) == [bus |-> bus, i |-> 1]
Top == stack[Len(stack)]

OneTooMany == Len(nodes) <= MAX_NODES                  (* mutated HasRoom  *)
HasRoom == Len(nodes) < MAX_NODES

(* Only a bridge to a higher bus is walked through.                        *)
LeadsElsewhere(f, bus) == f.bridge /\ f.secondary_bus # bus  (* mutated    *)
LeadsOn(f, bus) == f.bridge /\ f.secondary_bus > bus

(* main: enumerate(0, &tree) with an empty tree.                           *)
Init ==
    /\ inventory \in Inventories
    /\ nodes = <<>>
    /\ stack = <<Call(0)>>

Turn ==
    /\ stack # <<>> /\ Top.i <= Len(inventory)
    /\ LET f == inventory[Top.i]
           next == [stack EXCEPT ![Len(stack)].i = @ + 1]
           taken == f.bus = Top.bus /\ HasRoom
       IN  /\ nodes' = IF taken THEN Append(nodes, Top.i) ELSE nodes
           /\ stack' = IF taken /\ LeadsOn(f, Top.bus)
                         THEN Append(next, Call(f.secondary_bus))
                         ELSE next
    /\ UNCHANGED inventory

Return ==
    /\ stack # <<>> /\ Top.i > Len(inventory)
    /\ stack' = SubSeq(stack, 1, Len(stack) - 1)
    /\ UNCHANGED <<inventory, nodes>>

Done == stack = <<>> /\ UNCHANGED vars

Next == Turn \/ Return \/ Done

Spec == Init /\ [][Next]_vars

------------------------------------------------------------------------------
(* The ways to walk from bus 0 to a bus, as strictly rising chains of      *)
(* bridges; each is walked once.                                           *)
Rising ==
    {i \in DOMAIN inventory : /\ inventory[i].bridge
                              /\ inventory[i].secondary_bus > inventory[i].bus}
Chains ==
    {c \in UNION {[1..k -> Rising] : k \in 0..Cardinality(Rising)} :
        \A j \in DOMAIN c :
           inventory[c[j]].bus =
              IF j = 1 THEN 0 ELSE inventory[c[j - 1]].secondary_bus}

End(chain) ==
    IF chain = <<>> THEN 0 ELSE inventory[chain[Len(chain)]].secondary_bus

(* A function is met once for every chain of bridges that leads to its bus.*)
Meetings ==
    {m \in Chains \X DOMAIN inventory : inventory[m[2]].bus = End(m[1])}

Count(set) == Cardinality(set)
Occurrences(i) == Count({k \in DOMAIN nodes : nodes[k] = i})

(* The walk finds every function it can reach, as often as there are ways  *)
(* to it and so once in a proper tree, unless the tree is full; and never  *)
(* one it cannot reach.                                                    *)
FindsExactlyReachable ==
    /\ Len(nodes) <= MAX_NODES
    /\ \A i \in DOMAIN inventory :
          Occurrences(i) <= Count({m \in Meetings : m[2] = i})
    /\ stack = <<>> =>
          \/ Len(nodes) = MAX_NODES
          \/ Len(nodes) = Count(Meetings)

(* A bridge is in the tree before anything behind it, as programming its   *)
(* window from the tree needs, and the calls under way are the chain of    *)
(* bridges above the function being looked at: the recursion is never      *)
(* deeper than the buses are many.                                         *)
BridgesFirst ==
    /\ \A k \in DOMAIN nodes : LET b == inventory[nodes[k]].bus IN
          b = 0 \/ \E j \in 1..(k - 1) :
                      /\ inventory[nodes[j]].bridge
                      /\ inventory[nodes[j]].secondary_bus = b
    /\ \A k \in 2..Len(stack) : stack[k - 1].bus < stack[k].bus
==============================================================================
