----------------------------- MODULE BoundedFifo -----------------------------
(***************************************************************************)
(* What every queue of the repository promises: items come out in the      *)
(* order they went in, each exactly once, and at most capacity of them are *)
(* inside at any time.  The single-producer ring of s09, the dual-clock    *)
(* FIFO of s04, the request/ack crossing of s04 (capacity 1) and the       *)
(* submission queue of s12 are each shown to implement it.                 *)
(*                                                                         *)
(* The queue is kept as two histories, so that "nothing lost, duplicated   *)
(* or reordered" can be read off a state.                                  *)
(***************************************************************************)
EXTENDS Integers, Sequences

CONSTANT Items       (* what may be queued                           *)

VARIABLES capacity,  (* the most items inside, fixed at creation     *)
          sent,      (* every item accepted so far, in order         *)
          received   (* every item handed out so far, in order       *)

vars == <<capacity, sent, received>>

Init == capacity \in Int /\ sent = <<>> /\ received = <<>>

Put(item) ==
    /\ Len(sent) - Len(received) < capacity
    /\ sent' = Append(sent, item)
    /\ UNCHANGED <<capacity, received>>

Get ==
    /\ Len(received) < Len(sent)
    /\ received' = Append(received, sent[Len(received) + 1])
    /\ UNCHANGED <<capacity, sent>>

Next == (\E item \in Items : Put(item)) \/ Get

Spec == Init /\ [][Next]_vars

(* The consumer keeps asking: an item inside is eventually handed out.     *)
FairSpec == Spec /\ WF_vars(Get)
==============================================================================
