----------------------------- MODULE ReverseList -----------------------------
(***************************************************************************)
(* src/solutions/d00_reverse_list.c: a list is built, turned round in      *)
(* place, and freed.  malloc and free (external) hand out and take back    *)
(* nodes; malloc may fail at any call.                                     *)
(***************************************************************************)
EXTENDS Integers, Sequences

CONSTANTS Heap,         (* the nodes there are                             *)
          Null

ASSUME ListAssumption == Null \notin Heap

VARIABLES
    phase,              (* "build", "reverse", "free"                      *)
    built,              (* nodes linked so far, in order                   *)
    nextOf,             (* the field next of every node                    *)
    live,               (* nodes allocated                                 *)
    head, prev, curr    (* the pointers; in "build" curr is the tail       *)

listVars == <<phase, built, nextOf, live, head, prev, curr>>

ListInit ==
    /\ phase = "build" /\ built = <<>>
    /\ nextOf = [node \in Heap |-> Null] /\ live = {}
    /\ head = Null /\ prev = Null /\ curr = Null

BuildNode(node) ==
    /\ phase = "build" /\ node \in Heap \ live
    /\ live' = live \union {node}
    /\ nextOf' = [[nextOf EXCEPT ![node] = Null] EXCEPT
                    ![IF head = Null THEN node ELSE curr] =
                       IF head = Null THEN Null ELSE node]
    /\ head' = IF head = Null THEN node ELSE head
    /\ curr' = node
    /\ built' = Append(built, node)
    /\ UNCHANGED <<phase, prev>>

(* All values are in, or an allocation failed: the list as it is goes on   *)
(* to reverse_list.                                                        *)
BuildReturns ==
    /\ phase = "build"
    /\ phase' = "reverse" /\ prev' = Null /\ curr' = head
    /\ UNCHANGED <<built, nextOf, live, head>>

nothing_saved == nextOf'[curr]                         (* mutated saved    *)
saved == nextOf[curr]

ReverseNode ==
    /\ phase = "reverse" /\ curr # Null
    /\ nextOf' = [nextOf EXCEPT ![curr] = prev]
    /\ prev' = curr /\ curr' = saved
    /\ UNCHANGED <<phase, built, live, head>>

ReverseReturns ==
    /\ phase = "reverse" /\ curr = Null
    /\ phase' = "free" /\ head' = prev
    /\ UNCHANGED <<built, nextOf, live, prev, curr>>

FreeNode ==
    /\ phase = "free" /\ head # Null
    /\ live' = live \ {head} /\ head' = nextOf[head]
    /\ UNCHANGED <<phase, built, nextOf, prev, curr>>

ListNext ==
    \/ \E node \in Heap : BuildNode(node)
    \/ BuildReturns \/ ReverseNode \/ ReverseReturns \/ FreeNode

ListSpec == ListInit /\ [][ListNext]_listVars

(* A pointer leads through the nodes as built from the i-th on, or through *)
(* the first i of them backwards; there is no node before and after them.  *)
Built(i) == IF i \in 1..Len(built) THEN built[i] ELSE Null
Onwards(pointer, i) ==
    /\ pointer = Built(i)
    /\ \A j \in i..Len(built) : nextOf[built[j]] = Built(j + 1)
Backwards(pointer, i) ==
    /\ pointer = Built(i)
    /\ \A j \in 1..i : nextOf[built[j]] = Built(j - 1)
FirstBuilt(i) == {built[j] : j \in 1..i}

(* At every step of the reversal the list is in two parts that together    *)
(* are what was built, however much of it malloc allowed: nothing is lost  *)
(* or linked twice, and freeing ends with every node given back and none   *)
(* read after that.  (build_list, reverse_list, free_list, lines 9-64)     *)
ListsReversed ==
    \E k \in 0..Len(built) :
        CASE phase = "build"   -> /\ Onwards(head, 1)
                                  /\ live = FirstBuilt(Len(built))
          [] phase = "reverse" -> /\ Backwards(prev, k) /\ Onwards(curr, k + 1)
                                  /\ live = FirstBuilt(Len(built))
          [] phase = "free"    -> /\ Backwards(head, k)
                                  /\ live = FirstBuilt(k)
=============================================================================
