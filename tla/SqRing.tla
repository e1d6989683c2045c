------------------------------- MODULE SqRing -------------------------------
(***************************************************************************)
(* The submission queue of src/solutions/s12_sq_doorbell.c: sq_submit, one *)
(* action per store a device could observe (the descriptor, the tail, the  *)
(* doorbell), and device_consume_one, which the program calls only between *)
(* submissions.  A refused call returns -1 and changes nothing.            *)
(*                                                                         *)
(* head, tail and the doorbell are unsigned, run freely and wrap.          *)
(***************************************************************************)
EXTENDS Integers, Sequences

CONSTANTS SQ_SIZE,      (* slots: 16                                       *)
          W,            (* values of an index: 2^32                        *)
          Submissions   (* bound: how many descriptors are submitted       *)

(* As for the ring of s09, the slots must divide the index range, and not  *)
(* fill it: a full queue must not look empty.                              *)
ASSUME SqAssumption ==
    /\ SQ_SIZE \in Nat \ {0}
    /\ W \in Nat /\ W > SQ_SIZE /\ W % SQ_SIZE = 0
    /\ Submissions \in Nat

VARIABLES
    queue, head, tail,
    doorbell,           (* what the device has been told                   *)
    pc,                 (* sq_submit: its next store, or "idle"            *)
    sent, received      (* descriptors submitted and consumed so far       *)

vars == <<queue, head, tail, doorbell, pc, sent, received>>

Slots == 0..(SQ_SIZE - 1)

Distance(a, b) == (a - b) % W
Succ(i) == (i + 1) % W

SignedFull == tail - head >= SQ_SIZE                   (* mutated IsFull   *)
OneTooMany == Distance(tail, head) > SQ_SIZE           (* mutated IsFull   *)
IsFull == Distance(tail, head) >= SQ_SIZE
IsEmpty == head = tail

Init ==
    /\ queue = [s \in Slots |-> 0]
    /\ head = 0 /\ tail = 0 /\ doorbell = 0
    /\ pc = "idle"
    /\ sent = <<>> /\ received = <<>>

(* The descriptors are numbered from 1, apart from the zeroed queue.       *)
WriteDescriptor ==
    /\ pc = "idle" /\ Len(sent) < Submissions
    /\ ~IsFull
    /\ queue' = [queue EXCEPT ![tail % SQ_SIZE] = Len(sent) + 1]
    /\ pc' = "publish"
    /\ UNCHANGED <<head, tail, doorbell, sent, received>>

AdvanceTail ==
    /\ pc = "publish"
    /\ tail' = Succ(tail)
    /\ sent' = Append(sent, Len(sent) + 1)
    /\ pc' = "ring"
    /\ UNCHANGED <<queue, head, doorbell, received>>

LastSubmitted == tail - 1                              (* mutated          *)
DoorbellValue == tail

RingDoorbell ==
    /\ pc = "ring"
    /\ doorbell' = DoorbellValue
    /\ pc' = "idle"
    /\ UNCHANGED <<queue, head, tail, sent, received>>

device_consume_one ==
    /\ pc = "idle"
    /\ ~IsEmpty
    /\ received' = Append(received, queue[head % SQ_SIZE])
    /\ head' = Succ(head)
    /\ UNCHANGED <<queue, tail, doorbell, pc, sent>>

(* Everything submitted and consumed: the program is done.                 *)
Done == Len(received) = Submissions /\ UNCHANGED vars

Next == WriteDescriptor \/ AdvanceTail \/ RingDoorbell \/ device_consume_one \/ Done

Spec == Init /\ [][Next]_vars

(* sq_submit runs to its end, and the device keeps consuming.              *)
FairSpec ==
    /\ Spec
    /\ WF_vars(AdvanceTail) /\ WF_vars(RingDoorbell)
    /\ WF_vars(device_consume_one)

------------------------------------------------------------------------------
TypeOK ==
    /\ queue \in [Slots -> Nat]
    /\ head \in 0..(W - 1) /\ tail \in 0..(W - 1) /\ doorbell \in 0..(W - 1)
    /\ pc \in {"idle", "publish", "ring"}
    /\ sent \in Seq(Nat) /\ received \in Seq(Nat)

(* At every store of sq_submit, a device that trusts the doorbell finds,   *)
(* from the head up to it, exactly the oldest descriptors not yet consumed,*)
(* whole: the doorbell never runs ahead of the writes, nor over slots still*)
(* in use ("Publish descriptor fields before the release fence and MMIO    *)
(* doorbell update", EXERCISES.md:130), and once the call has returned it  *)
(* names all of them.                                                      *)
Announced == Distance(doorbell, head)

DoorbellNamesWritten ==
    /\ Announced <= Len(sent) - Len(received)
    /\ \A k \in 1..Announced :
          queue[(head + k - 1) % SQ_SIZE] = sent[Len(received) + k]
    /\ pc = "idle" => Announced = Len(sent) - Len(received)

(* The wrapped comparisons are exact: sq_submit returns -1 iff SQ_SIZE     *)
(* descriptors wait, device_consume_one iff none does.                     *)
RefusalsExact ==
    pc = "idle" =>
        /\ IsFull <=> Len(sent) - Len(received) = SQ_SIZE
        /\ IsEmpty <=> Len(sent) = Len(received)

(* The submission queue is a FIFO of SQ_SIZE descriptors: none is lost,    *)
(* consumed twice or overwritten before it is consumed.                    *)
Fifo == INSTANCE BoundedFifo WITH Items <- 1..Submissions, capacity <- SQ_SIZE
ImplementsFifo == Fifo!FairSpec
==============================================================================
