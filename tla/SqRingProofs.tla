---------------------------- MODULE SqRingProofs ----------------------------
(***************************************************************************)
(* Proofs about the submission queue of s12, for every size of queue and   *)
(* of index that SqAssumption allows.                                      *)
(***************************************************************************)
EXTENDS SqRing, RingArithmetic

(* The index after k submissions (or completions), and the slot that the   *)
(* k-th one uses.                                                          *)
Index(k) == k % W
Slot(k)  == Index(k - 1) % SQ_SIZE

(* Descriptors written: those submitted, and the one of a call that has    *)
(* written it and not yet moved the tail.                                  *)
Writes == IF pc = "publish" THEN Len(sent) + 1 ELSE Len(sent)

(* The last submission the doorbell has announced.                         *)
Rung == IF pc = "ring" THEN Len(sent) - 1 ELSE Len(sent)

IndexInv ==
    /\ head = Index(Len(received)) /\ tail = Index(Len(sent))
    /\ doorbell = Index(Rung)
    /\ Len(received) <= Len(sent) /\ Len(sent) <= Len(received) + SQ_SIZE
    /\ pc = "publish" => /\ Len(sent) < Len(received) + SQ_SIZE
                         /\ Len(sent) < Submissions
    /\ pc = "ring" => Len(received) < Len(sent)

PayloadInv ==
    /\ \A k \in 1..Writes : k > Len(received) => queue[Slot(k)] = k
    /\ \A k \in 1..Len(sent) : sent[k] = k
    /\ \A k \in 1..Len(received) : received[k] = k

IInv == TypeOK /\ IndexInv /\ PayloadInv

------------------------------------------------------------------------------
LEMMA Constants ==
    SQ_SIZE \in Nat \ {0} /\ W \in Nat \ {0} /\ W > SQ_SIZE /\ W % SQ_SIZE = 0
  BY SqAssumption

LEMMA IndexFacts ==
    ASSUME NEW k \in Int
    PROVE  /\ Index(k) \in 0..(W - 1)
           /\ Succ(Index(k)) = Index(k + 1)
           /\ Index(k) % SQ_SIZE = Slot(k + 1)
           /\ Slot(k) \in Slots
<1>1. Index(k) \in 0..(W - 1) /\ Index(k - 1) \in 0..(W - 1)
  BY Constants, DivisionForm DEF Index
<1>2. Succ(Index(k)) = Index(k + 1)
  BY Constants, WrappedSucc DEF Succ, Index
<1>3. Index(k) % SQ_SIZE = Slot(k + 1)
  BY (k + 1) - 1 = k DEF Slot
<1>4. Slot(k) \in Slots
  BY <1>1, Index(k - 1) \in Int, Constants, DivisionForm DEF Slot, Slots
<1> QED
  BY <1>1, <1>2, <1>3, <1>4

LEMMA DistanceExact ==
    ASSUME NEW a \in Int, NEW b \in Int, a - b \in 0..SQ_SIZE
    PROVE  Distance(Index(a), Index(b)) = a - b
<1>1. a - b \in 0..(W - 1)
  BY Constants
<1> QED
  BY <1>1, Constants, WrappedDistance DEF Distance, Index

(* The k-th slot from an index is that of the k-th count from its own.      *)
LEMMA SlotAhead ==
    ASSUME NEW c \in Int, NEW k \in Int
    PROVE  (Index(c) + (k - 1)) % SQ_SIZE = Slot(c + k)
<1>1. k - 1 \in Int /\ c + (k - 1) = (c + k) - 1
  OBVIOUS
<1>2. ((c % W) + (k - 1)) % SQ_SIZE = ((c + (k - 1)) % W) % SQ_SIZE
  BY <1>1, Constants, SlotOfSum, ZenonT(60)
<1> QED
  BY <1>1, <1>2 DEF Slot, Index

LEMMA SlotsApart ==
    ASSUME NEW a \in Int, NEW b \in Int, a < b, Slot(a) = Slot(b)
    PROVE  b >= a + SQ_SIZE
<1>1. (a - 1) % SQ_SIZE = (b - 1) % SQ_SIZE
  BY Constants, SlotOfWrapped, a - 1 \in Int, b - 1 \in Int DEF Slot, Index
<1>2. b - 1 >= (a - 1) + SQ_SIZE
  BY <1>1, Constants, SlotsDistinct, a - 1 \in Int, b - 1 \in Int, a - 1 < b - 1
<1> QED
  BY <1>2, Constants

LEMMA Counts ==
    ASSUME IInv
    PROVE  /\ Len(sent) \in Nat /\ Len(received) \in Nat
           /\ Len(received) <= Len(sent) /\ Len(sent) <= Len(received) + SQ_SIZE
           /\ queue \in [Slots -> Nat]
           /\ sent \in Seq(Nat) /\ received \in Seq(Nat)
           /\ pc \in {"idle", "publish", "ring"}
  BY DEF IInv, TypeOK, IndexInv

(* The unsigned comparisons of the code against the true counts.           *)
LEMMA ComparisonsExact ==
    ASSUME IInv
    PROVE  /\ Distance(tail, head) = Len(sent) - Len(received)
           /\ IsFull <=> Len(sent) - Len(received) = SQ_SIZE
           /\ IsEmpty <=> Len(sent) = Len(received)
<1> USE Constants, Counts
<1>1. tail = Index(Len(sent)) /\ head = Index(Len(received))
  BY DEF IInv, IndexInv
<1>2. Len(sent) - Len(received) \in 0..SQ_SIZE
  OBVIOUS
<1>3. Distance(tail, head) = Len(sent) - Len(received)
  BY <1>1, <1>2, DistanceExact
<1>4. Distance(head, head) = 0
  BY <1>1, DistanceExact, Len(received) - Len(received) \in 0..SQ_SIZE
<1>5. IsEmpty <=> Len(sent) = Len(received)
  BY <1>1, <1>3, <1>4 DEF IsEmpty
<1>6. IsFull <=> Len(sent) - Len(received) = SQ_SIZE
  BY <1>2, <1>3 DEF IsFull
<1> QED
  BY <1>3, <1>5, <1>6

------------------------------------------------------------------------------
LEMMA IInvInit == Init => IInv
<1> SUFFICES ASSUME Init PROVE IInv
  OBVIOUS
<1> USE Constants
<1>1. Len(sent) = 0 /\ Len(received) = 0 /\ Writes = 0 /\ Rung = 0
  BY DEF Init, Writes, Rung
<1>2. Index(0) = 0
  BY RemainderUnique, W * 0 + 0 = 0 DEF Index
<1>3. TypeOK
  BY DEF Init, TypeOK, Slots
<1>4. IndexInv
  BY <1>1, <1>2 DEF Init, IndexInv
<1>5. PayloadInv
  BY <1>1 DEF Init, PayloadInv
<1> QED
  BY <1>3, <1>4, <1>5 DEF IInv

LEMMA WriteStep ==
    ASSUME IInv, WriteDescriptor
    PROVE  IInv'
<1> USE Constants
<1> DEFINE n == Len(sent) + 1
<1>1. /\ pc = "idle" /\ pc' = "publish" /\ Len(sent) < Submissions
      /\ tail % SQ_SIZE = Slot(n) /\ Slot(n) \in Slots /\ n \in Nat
  BY Counts, IndexFacts DEF WriteDescriptor, IInv, IndexInv
<1>2. /\ queue' = [queue EXCEPT ![Slot(n)] = n]
      /\ UNCHANGED <<head, tail, doorbell, sent, received>>
  BY <1>1 DEF WriteDescriptor
<1>3. Len(sent) < Len(received) + SQ_SIZE
  BY Counts, ComparisonsExact DEF WriteDescriptor
<1>4. Writes = Len(sent) /\ Writes' = n /\ Rung' = Rung
  BY <1>1, <1>2 DEF Writes, Rung
<1>5. TypeOK'
  <2>1. queue' \in [Slots -> Nat]
    <3> HIDE DEF n
    <3> QED
      BY <1>1, <1>2, Counts
  <2> QED
    BY <2>1, <1>1, <1>2 DEF IInv, TypeOK
<1>6. IndexInv'
  BY <1>1, <1>2, <1>3, <1>4 DEF IInv, IndexInv, Index
<1>7. PayloadInv'
  <2>1. ASSUME NEW k \in 1..Writes', k > Len(received)
        PROVE  queue'[Slot(k)] = k
    <3>1. CASE k = n
      BY <3>1, <1>1, <1>2, Counts
    <3>2. CASE k < n
      <4>1. k \in 1..Writes /\ n < k + SQ_SIZE
        BY <2>1, <3>2, <1>1, <1>3, <1>4, Counts
      <4>2. Slot(k) # Slot(n)
        BY <4>1, <3>2, <1>1, SlotsApart, k \in Int, n \in Int
      <4>3. Slot(k) \in Slots /\ queue[Slot(k)] = k
        BY <2>1, <4>1, IndexFacts, k \in Int DEF IInv, PayloadInv
      <4> QED
        BY <4>2, <4>3, <1>1, <1>2, Counts
    <3> QED
      BY <2>1, <3>1, <3>2, <1>1, <1>4
  <2> QED
    BY <2>1, <1>2 DEF IInv, PayloadInv, Slot, Index
<1> QED
  BY <1>5, <1>6, <1>7 DEF IInv

LEMMA AdvanceStep ==
    ASSUME IInv, AdvanceTail
    PROVE  /\ IInv'
           /\ Len(sent) - Len(received) < SQ_SIZE
           /\ Len(sent) + 1 \in 1..Submissions
<1> USE Constants
<1> DEFINE n == Len(sent) + 1
<1>1. /\ pc = "publish" /\ pc' = "ring" /\ Len(sent) < Submissions
      /\ Len(sent) < Len(received) + SQ_SIZE
      /\ tail' = Index(n) /\ Index(n) \in 0..(W - 1) /\ n \in Nat
  BY Counts, IndexFacts DEF AdvanceTail, IInv, IndexInv
<1>2. /\ sent' = Append(sent, n)
      /\ UNCHANGED <<queue, head, doorbell, received>>
  BY DEF AdvanceTail
<1>3. /\ sent' \in Seq(Nat) /\ Len(sent') = n /\ sent'[n] = n
      /\ \A k \in 1..Len(sent) : sent'[k] = sent[k]
  <2>1. Len(sent) + 1 = n
    OBVIOUS
  <2> HIDE DEF n
  <2> QED
    BY <2>1, <1>1, <1>2, Counts, AppendFacts
<1>4. Writes = n /\ Writes' = n /\ Rung = Len(sent) /\ Rung' = Len(sent)
  BY <1>1, <1>2, <1>3, Counts DEF Writes, Rung
<1>5. TypeOK'
  BY <1>1, <1>2, <1>3 DEF IInv, TypeOK
<1>6. IndexInv'
  BY <1>1, <1>2, <1>3, <1>4, Counts, SMTT(60) DEF IInv, IndexInv, Index
<1>7. PayloadInv'
  <2>1. ASSUME NEW k \in 1..Len(sent') PROVE sent'[k] = k
    <3>1. k = n \/ k \in 1..Len(sent)
      BY <2>1, <1>1, <1>3, Counts
    <3> QED
      BY <3>1, <1>3 DEF IInv, PayloadInv
  <2> QED
    BY <2>1, <1>2, <1>4 DEF IInv, PayloadInv, Slot, Index
<1>8. Len(sent) - Len(received) < SQ_SIZE /\ Len(sent) + 1 \in 1..Submissions
  BY <1>1, Counts, SqAssumption
<1> QED
  BY <1>5, <1>6, <1>7, <1>8 DEF IInv

LEMMA RingStep ==
    ASSUME IInv, RingDoorbell
    PROVE  IInv'
<1>1. /\ pc = "ring" /\ pc' = "idle" /\ doorbell' = tail
      /\ UNCHANGED <<queue, head, tail, sent, received>>
  BY DEF RingDoorbell, DoorbellValue
<1>2. Writes' = Writes /\ Rung' = Len(sent)
  BY <1>1 DEF Writes, Rung
<1>3. TypeOK'
  BY <1>1 DEF IInv, TypeOK
<1>4. IndexInv'
  BY <1>1, <1>2 DEF IInv, IndexInv, Index
<1>5. PayloadInv'
  BY <1>1, <1>2 DEF IInv, PayloadInv, Slot, Index
<1> QED
  BY <1>3, <1>4, <1>5 DEF IInv

LEMMA ConsumeStep ==
    ASSUME IInv, device_consume_one
    PROVE  /\ IInv'
           /\ Len(received) < Len(sent)
           /\ received' = Append(received, sent[Len(received) + 1])
<1> USE Constants
<1> DEFINE n == Len(received) + 1
<1>1. /\ pc = "idle" /\ pc' = "idle" /\ Len(received) < Len(sent)
      /\ head' = Index(n) /\ Index(n) \in 0..(W - 1) /\ n \in Nat
      /\ head % SQ_SIZE = Slot(n)
  <2>1. pc = "idle" /\ pc' = "idle" /\ ~IsEmpty /\ head' = Succ(head)
    BY DEF device_consume_one
  <2>2. Len(received) < Len(sent)
    BY <2>1, Counts, ComparisonsExact
  <2>3. head = Index(Len(received)) /\ Len(received) \in Int /\ n \in Int
    BY Counts DEF IInv, IndexInv
  <2>4. /\ Succ(Index(Len(received))) = Index(n)
        /\ Index(Len(received)) % SQ_SIZE = Slot(n)
        /\ Index(n) \in 0..(W - 1)
    BY <2>3, IndexFacts
  <2> QED
    BY <2>1, <2>2, <2>3, <2>4, Counts
<1>2. queue[Slot(n)] = n /\ sent[n] = n
  <2>1. n \in 1..Writes /\ n > Len(received) /\ n \in 1..Len(sent)
    BY <1>1, Counts DEF Writes
  <2> QED
    BY <2>1 DEF IInv, PayloadInv
<1>3. /\ received' = Append(received, n)
      /\ UNCHANGED <<queue, tail, doorbell, sent>>
  BY <1>1, <1>2 DEF device_consume_one
<1>4. /\ received' \in Seq(Nat) /\ Len(received') = n /\ received'[n] = n
      /\ \A k \in 1..Len(received) : received'[k] = received[k]
  <2>1. Len(received) + 1 = n
    OBVIOUS
  <2> HIDE DEF n
  <2> QED
    BY <2>1, <1>1, <1>3, Counts, AppendFacts
<1>5. Writes' = Writes /\ Rung' = Rung
  BY <1>1, <1>3 DEF Writes, Rung
<1>6. TypeOK'
  BY <1>1, <1>3, <1>4 DEF IInv, TypeOK
<1>7. IndexInv'
  <2>1. /\ head' = Index(Len(received')) /\ tail' = Index(Len(sent'))
        /\ doorbell' = Index(Rung')
    BY <1>1, <1>3, <1>4, <1>5 DEF IInv, IndexInv
  <2>2. Len(received') <= Len(sent') /\ Len(sent') <= Len(received') + SQ_SIZE
    BY <1>1, <1>3, <1>4, Counts DEF IInv, IndexInv
  <2> QED
    BY <1>1, <2>1, <2>2 DEF IndexInv, Index
<1>8. PayloadInv'
  <2>1. ASSUME NEW k \in 1..Len(received') PROVE received'[k] = k
    <3>1. k = n \/ k \in 1..Len(received)
      BY <2>1, <1>1, <1>4, Counts
    <3> QED
      BY <3>1, <1>4 DEF IInv, PayloadInv
  <2>2. \A k \in 1..Writes' : k > Len(received') => queue'[Slot(k)'] = k
    <3> SUFFICES ASSUME NEW k \in 1..Writes, k > n
                 PROVE  queue'[Slot(k)'] = k
      BY <1>4, <1>5
    <3>1. k > Len(received)
      BY <1>1, Counts, k \in Int
    <3> QED
      BY <3>1, <1>3 DEF IInv, PayloadInv, Slot, Index
  <2> QED
    BY <2>1, <2>2, <1>3 DEF IInv, PayloadInv
<1> QED
  BY <1>1, <1>2, <1>3, <1>6, <1>7, <1>8 DEF IInv

LEMMA Stutter ==
    ASSUME IInv, UNCHANGED vars
    PROVE  IInv'
<1>1. UNCHANGED <<queue, head, tail, doorbell, pc, sent, received>>
  BY DEF vars
<1> QED
  BY <1>1 DEF IInv, TypeOK, IndexInv, PayloadInv, Writes, Rung, Slot, Index

LEMMA IInvNext == IInv /\ [Next]_vars => IInv'
  BY WriteStep, AdvanceStep, RingStep, ConsumeStep, Stutter DEF Next, Done

------------------------------------------------------------------------------
(* The invariant holds throughout, for every queue the assumption allows.  *)
THEOREM Invariance == Spec => []IInv
BY IInvInit, IInvNext, PTL DEF Spec

(* Every variable keeps its type; the free-running indices and the doorbell*)
(* stay values of their unsigned type.                                     *)
THEOREM TypeCorrect == Spec => []TypeOK
<1>1. IInv => TypeOK
  BY DEF IInv
<1> QED
  BY <1>1, Invariance, PTL

(* sq_submit refuses exactly when the queue is full and device_consume_one *)
(* exactly when it is empty, whatever the indices have wrapped to.         *)
THEOREM Refusals == Spec => []RefusalsExact
<1>1. IInv => RefusalsExact
  BY ComparisonsExact DEF RefusalsExact
<1> QED
  BY <1>1, Invariance, PTL

(* At every store of sq_submit the doorbell names only descriptors that    *)
(* have been written, in order from the head: all of them once the call    *)
(* has returned.                                                           *)
THEOREM DoorbellSound == Spec => []DoorbellNamesWritten
<1>1. IInv => DoorbellNamesWritten
  <2> SUFFICES ASSUME IInv PROVE DoorbellNamesWritten
    OBVIOUS
  <2> USE Constants, Counts
  <2>1. /\ Rung - Len(received) \in 0..SQ_SIZE /\ Rung \in Int
        /\ Rung <= Len(sent) /\ (pc = "idle" => Rung = Len(sent))
    BY DEF Rung, IInv, IndexInv
  <2>2. Announced = Rung - Len(received)
    BY <2>1, DistanceExact DEF Announced, IInv, IndexInv
  <2>3. ASSUME NEW k \in 1..Announced
        PROVE  queue[(head + k - 1) % SQ_SIZE] = sent[Len(received) + k]
    <3> DEFINE c == Len(received)
    <3>1. /\ c + k \in 1..Len(sent) /\ c + k \in 1..Writes /\ c + k > c
          /\ k \in Int /\ c \in Int
      BY <2>1, <2>2, <2>3 DEF Writes
    <3>2. queue[Slot(c + k)] = c + k /\ sent[c + k] = c + k
      BY <3>1 DEF IInv, PayloadInv
    <3>3. (head + k - 1) % SQ_SIZE = Slot(c + k)
      <4>1. head = Index(c)
        BY DEF IInv, IndexInv
      <4> HIDE DEF c
      <4>2. Index(c) \in Int
        BY <3>1, IndexFacts
      <4>3. head + k - 1 = Index(c) + (k - 1)
        BY <4>1, <4>2, <3>1
      <4> QED
        BY <4>3, <3>1, SlotAhead
    <3> QED
      BY <3>2, <3>3
  <2> QED
    BY <2>1, <2>2, <2>3 DEF DoorbellNamesWritten
<1> QED
  BY <1>1, Invariance, PTL

(* The submission queue is a FIFO of capacity SQ_SIZE (the safety part of  *)
(* ImplementsFifo).                                                        *)
THEOREM RefinesFifo == Spec => Fifo!Spec
<1>1. Init => Fifo!Init
  BY Constants DEF Init, Fifo!Init
<1>2. IInv /\ [Next]_vars => [Fifo!Next]_(Fifo!vars)
  <2> SUFFICES ASSUME IInv, Next PROVE Fifo!Next \/ UNCHANGED <<sent, received>>
    BY DEF vars, Fifo!vars
  <2>1. CASE AdvanceTail
    <3>1. /\ Len(sent) - Len(received) < SQ_SIZE /\ Len(sent) + 1 \in 1..Submissions
          /\ sent' = Append(sent, Len(sent) + 1) /\ received' = received
      BY <2>1, AdvanceStep DEF AdvanceTail
    <3> QED
      BY <3>1 DEF Fifo!Next, Fifo!Put
  <2>2. CASE device_consume_one
    <3>1. /\ Len(received) < Len(sent) /\ sent' = sent
          /\ received' = Append(received, sent[Len(received) + 1])
      BY <2>2, ConsumeStep DEF device_consume_one
    <3> QED
      BY <3>1 DEF Fifo!Next, Fifo!Get
  <2>3. CASE WriteDescriptor \/ RingDoorbell \/ Done
    BY <2>3 DEF WriteDescriptor, RingDoorbell, Done, vars
  <2> QED
    BY <2>1, <2>2, <2>3 DEF Next
<1> QED
  BY <1>1, <1>2, Invariance, PTL DEF Spec, Fifo!Spec
==============================================================================
