--------------------------- MODULE SpscRingProofs ---------------------------
(***************************************************************************)
(* Proofs about the ring of s09, for every size of ring, index type, start *)
(* and number of transfers that RingAssumption allows.                     *)
(***************************************************************************)
EXTENDS SpscRing, RingArithmetic

(* The index after k pushes (or pops), and the slot the k-th one uses.     *)
Index(k) == (Start + k) % W
Slot(k)  == Index(k - 1) % R

(* Payload accesses made: those completed, and the one of a call that has  *)
(* made it and not yet published it.                                       *)
Writes == IF ppc = "publish" THEN Len(sent) + 1 ELSE Len(sent)
Reads  == IF cpc = "release" THEN Len(received) + 1 ELSE Len(received)

(* The k-th store to an index holds the k-th value and the k accesses.     *)
StoresInv ==
    /\ Len(tailStores) = Len(sent) + 1
    /\ Len(headStores) = Len(received) + 1
    /\ \A k \in 1..Len(tailStores) : tailStores[k] = Store(Index(k - 1), k - 1)
    /\ \A k \in 1..Len(headStores) : headStores[k] = Store(Index(k - 1), k - 1)
    /\ pView = pSeen - 1
    /\ cView = cSeen - 1

(* Each thread's stale picture of the other errs on the safe side.         *)
WindowInv ==
    /\ Len(received) <= cSeen - 1
    /\ Len(sent) <= (pSeen - 1) + R
    /\ ppc # "push" => /\ pTail = Index(Len(sent))
                       /\ Len(sent) < (pSeen - 1) + R
                       /\ Len(sent) < Transfers
    /\ cpc # "pop" => /\ cHead = Index(Len(received))
                      /\ Len(received) < cSeen - 1

(* What is inside the ring is what was pushed.                             *)
PayloadInv ==
    /\ \A k \in 1..Writes : k > Len(received) => buf[Slot(k)] = k - 1
    /\ cpc = "release" => cValue = Len(received)
    /\ \A k \in 1..Len(sent) : sent[k] = k - 1
    /\ \A k \in 1..Len(received) : received[k] = k - 1

(* The last access to a slot is one of those made, and was to that slot.   *)
AccessInv ==
    /\ \A s \in Slots : written[s] <= Writes
    /\ \A s \in Slots : written[s] > 0 => Slot(written[s]) = s
    /\ \A s \in Slots : readBy[s] <= Reads
    /\ \A s \in Slots : readBy[s] > 0 => Slot(readBy[s]) = s
    /\ raced = FALSE

IInv == TypeOK /\ StoresInv /\ WindowInv /\ PayloadInv /\ AccessInv

------------------------------------------------------------------------------
(* The constants, in the form the arithmetic lemmas take them.             *)
LEMMA Constants ==
    /\ R \in Nat \ {0} /\ W \in Nat \ {0} /\ W > R /\ W % R = 0
    /\ Start \in Int /\ Transfers \in Nat
  BY RingAssumption

LEMMA IndexFacts ==
    ASSUME NEW k \in Int
    PROVE  /\ Index(k) \in 0..(W - 1)
           /\ Succ(Index(k)) = Index(k + 1)
           /\ Index(k) % R = Slot(k + 1)
           /\ Slot(k) \in Slots
<1>1. Index(k) \in 0..(W - 1) /\ Index(k - 1) \in 0..(W - 1)
  BY Constants, DivisionForm, Start + k \in Int, Start + (k - 1) \in Int DEF Index
<1>2. Succ(Index(k)) = Index(k + 1)
  BY Constants, WrappedSucc, Start + k \in Int, (Start + k) + 1 = Start + (k + 1),
     ZenonT(60) DEF Succ, Index
<1>3. Index(k) % R = Slot(k + 1)
  BY (k + 1) - 1 = k DEF Slot
<1>4. Index(k - 1) \in Int
  BY <1>1
<1>5. Slot(k) \in Slots
  BY <1>4, Constants, DivisionForm DEF Slot, Slots
<1> QED
  BY <1>1, <1>2, <1>3, <1>5

(* The code's unsigned difference of two indices is the number of items    *)
(* between them, as long as that is at most R.                             *)
LEMMA DistanceExact ==
    ASSUME NEW a \in Int, NEW b \in Int, a - b \in 0..R
    PROVE  Distance(Index(a), Index(b)) = a - b
<1>1. (Start + a) - (Start + b) = a - b /\ a - b \in 0..(W - 1)
  BY Constants
<1> QED
  BY <1>1, Constants, WrappedDistance, Start + a \in Int, Start + b \in Int
     DEF Distance, Index

(* Two pushes that share a slot are at least a lap apart.                  *)
LEMMA SlotsApart ==
    ASSUME NEW a \in Int, NEW b \in Int, a < b, Slot(a) = Slot(b)
    PROVE  b >= a + R
<1> DEFINE x == Start + (a - 1)
           y == Start + (b - 1)
<1>1. x \in Int /\ y \in Int /\ x < y
  BY Constants
<1>2. x % R = Slot(a) /\ y % R = Slot(b)
  BY <1>1, Constants, SlotOfWrapped, ZenonT(60) DEF Slot, Index
<1> HIDE DEF x, y
<1>3. y >= x + R
  BY <1>1, <1>2, Constants, SlotsDistinct
<1> QED
  BY <1>3, Constants DEF x, y

------------------------------------------------------------------------------
LEMMA IInvInit == Init => IInv
<1> SUFFICES ASSUME Init PROVE IInv
  OBVIOUS
<1> USE Constants
<1>1. Index(0) = Start
  BY RingAssumption, RemainderUnique, W * 0 + Start = Start DEF Index
<1>2. TypeOK
  <2>1. buf \in [Slots -> Int] /\ written \in [Slots -> Nat] /\ readBy \in [Slots -> Nat]
    BY DEF Init, Slots
  <2>2. Store(Start, 0) \in [val : 0..(W - 1), view : Nat]
    BY RingAssumption DEF Store
  <2>3. /\ tailStores \in Seq([val : 0..(W - 1), view : Nat]) /\ tailStores # <<>>
        /\ headStores \in Seq([val : 0..(W - 1), view : Nat]) /\ headStores # <<>>
        /\ Len(tailStores) = 1 /\ Len(headStores) = 1
    BY <2>2 DEF Init
  <2>4. /\ ppc \in {"push", "write", "publish"} /\ cpc \in {"pop", "read", "release"}
        /\ pTail \in 0..(W - 1) /\ cHead \in 0..(W - 1) /\ cValue \in Int
        /\ pView \in Nat /\ cView \in Nat
    BY RingAssumption DEF Init
  <2>6. raced \in BOOLEAN
    BY DEF Init
  <2>7. sent \in Seq(Int) /\ received \in Seq(Int)
    BY DEF Init
  <2>5. pSeen \in 1..Len(headStores) /\ cSeen \in 1..Len(tailStores)
    BY <2>3 DEF Init
  <2> QED
    BY <2>1, <2>3, <2>4, <2>5, <2>6, <2>7, Zenon DEF TypeOK
<1>3. StoresInv
  BY <1>1 DEF Init, StoresInv, Store
<1>4. Len(sent) = 0 /\ Len(received) = 0 /\ Writes = 0 /\ Reads = 0
  BY DEF Init, Writes, Reads
<1>5. WindowInv
  BY <1>4 DEF Init, WindowInv
<1>6. PayloadInv
  BY <1>4 DEF Init, PayloadInv
<1>7. AccessInv
  BY <1>4 DEF Init, AccessInv
<1> QED
  BY <1>2, <1>3, <1>5, <1>6, <1>7 DEF IInv

(* The counts the invariant relates, and how far apart they can be.        *)
LEMMA Counts ==
    ASSUME IInv
    PROVE  /\ Len(sent) \in Nat /\ Len(received) \in Nat
           /\ Len(tailStores) = Len(sent) + 1
           /\ Len(headStores) = Len(received) + 1
           /\ pSeen \in 1..(Len(received) + 1)
           /\ cSeen \in 1..(Len(sent) + 1)
           /\ Len(received) <= cSeen - 1
           /\ Len(sent) <= (pSeen - 1) + R
           /\ Len(received) <= Len(sent)
           /\ Len(sent) <= Len(received) + R
<1>1. Len(sent) \in Nat /\ Len(received) \in Nat
  <2>1. sent \in Seq(Int) /\ received \in Seq(Int)
    BY Zenon DEF IInv, TypeOK
  <2> QED
    BY <2>1
<1>2. pSeen \in 1..Len(headStores) /\ cSeen \in 1..Len(tailStores)
  BY DEF IInv, TypeOK
<1> QED
  BY <1>1, <1>2, Constants DEF IInv, StoresInv, WindowInv

LEMMA SlotTypes ==
    ASSUME IInv
    PROVE  /\ buf \in [Slots -> Int]
           /\ written \in [Slots -> Nat]
           /\ readBy \in [Slots -> Nat]
  BY DEF IInv, TypeOK

(* What a load of spsc_push decides, from any store it may read.           *)
LEMMA PushLoadExact ==
    ASSUME IInv, NEW i \in HeadLoads
    PROVE  /\ headStores[i] = Store(Index(i - 1), i - 1)
           /\ i - 1 <= Len(received)
           /\ Newest(tailStores).val = Index(Len(sent))
           /\ IsFull(Newest(tailStores).val, headStores[i].val)
                 <=> Len(sent) - (i - 1) = R
<1> USE Constants, Counts
<1>1. i \in 1..Len(headStores) /\ i >= pSeen /\ i \in Int
  BY DEF HeadLoads
<1>2. headStores[i] = Store(Index(i - 1), i - 1)
  BY <1>1 DEF IInv, StoresInv
<1>3. Newest(tailStores) = Store(Index(Len(sent)), Len(sent))
  BY DEF IInv, StoresInv, Newest
<1>4. Len(sent) - (i - 1) \in 0..R
  BY <1>1
<1>5. Distance(Index(Len(sent)), Index(i - 1)) = Len(sent) - (i - 1)
  BY <1>1, <1>4, DistanceExact
<1>6. Newest(tailStores).val = Index(Len(sent)) /\ headStores[i].val = Index(i - 1)
  BY <1>2, <1>3 DEF Store
<1>7. i - 1 <= Len(received)
  BY <1>1
<1> QED
  BY <1>2, <1>5, <1>6, <1>7 DEF IsFull

(* What a load of spsc_pop decides.                                        *)
LEMMA PopLoadExact ==
    ASSUME IInv, NEW i \in TailLoads
    PROVE  /\ tailStores[i] = Store(Index(i - 1), i - 1)
           /\ i - 1 <= Len(sent)
           /\ Newest(headStores).val = Index(Len(received))
           /\ IsEmpty(Newest(headStores).val, tailStores[i].val)
                 <=> i - 1 = Len(received)
<1> USE Constants, Counts
<1>1. i \in 1..Len(tailStores) /\ i >= cSeen /\ i \in Int
  BY DEF TailLoads
<1>2. tailStores[i] = Store(Index(i - 1), i - 1)
  BY <1>1 DEF IInv, StoresInv
<1>3. Newest(headStores) = Store(Index(Len(received)), Len(received))
  BY DEF IInv, StoresInv, Newest
<1>4. (i - 1) - Len(received) \in 0..R
  BY <1>1
<1>5. Distance(Index(i - 1), Index(Len(received))) = (i - 1) - Len(received)
  BY <1>1, <1>4, DistanceExact
<1>6. Distance(Index(Len(received)), Index(Len(received))) = 0
  BY DistanceExact, Len(received) - Len(received) \in 0..R
<1>7. Index(i - 1) = Index(Len(received)) <=> i - 1 = Len(received)
  BY <1>1, <1>5, <1>6, SMTT(60)
<1> QED
  BY <1>1, <1>2, <1>3, <1>7, SMTT(60) DEF Store, IsEmpty

------------------------------------------------------------------------------
(* Each action keeps the invariant.                                        *)
LEMMA PushLoadStep ==
    ASSUME IInv, NEW i \in HeadLoads, PushLoad(i)
    PROVE  IInv'
<1> USE Constants
<1>1. /\ headStores[i] = Store(Index(i - 1), i - 1)
      /\ pTail' = Index(Len(sent)) /\ pSeen' = i
      /\ i \in pSeen..(Len(received) + 1)
      /\ ppc' = "push" \/ (ppc' = "write" /\ Len(sent) - (i - 1) # R)
      /\ Len(sent) < Transfers /\ ppc = "push"
  BY PushLoadExact, Counts DEF PushLoad, HeadLoads
<1>2. pView' = i - 1
  BY <1>1, Counts, SMTT(60) DEF PushLoad, AcquireView, Store, IInv, StoresInv
<1>3. UNCHANGED <<buf, tailStores, headStores, cpc, cHead, cValue, cSeen, cView,
                  written, readBy, raced, sent, received>>
  BY DEF PushLoad, consumer, history
<1>4. Writes' = Writes /\ Reads' = Reads
  BY <1>1, <1>3 DEF Writes, Reads
<1>5. TypeOK'
  <2>1. pTail' \in 0..(W - 1)
    BY <1>1, IndexFacts, Counts
  <2>2. pSeen' \in 1..Len(headStores)' /\ pView' \in Nat
    BY <1>1, <1>2, <1>3, Counts
  <2> QED
    BY <1>1, <1>3, <2>1, <2>2 DEF IInv, TypeOK
<1>6. StoresInv'
  BY <1>1, <1>2, <1>3, Counts DEF IInv, StoresInv
<1>7. WindowInv'
  <2>1. /\ Len(sent) <= (i - 1) + R
        /\ ppc' # "push" => Len(sent) < (i - 1) + R
    BY <1>1, Counts, SMTT(60)
  <2> QED
    BY <2>1, <1>1, <1>3 DEF IInv, WindowInv, Index
<1>8. PayloadInv'
  BY <1>3, <1>4 DEF IInv, PayloadInv, Slot, Index
<1>9. AccessInv'
  BY <1>3, <1>4 DEF IInv, AccessInv, Slot, Index
<1> QED
  BY <1>5, <1>6, <1>7, <1>8, <1>9 DEF IInv

LEMMA PushWriteStep ==
    ASSUME IInv, PushWrite
    PROVE  IInv'
<1> USE Constants
<1> DEFINE n == Len(sent) + 1
<1>1. /\ ppc = "write" /\ ppc' = "publish"
      /\ pTail = Index(Len(sent)) /\ Len(sent) < (pSeen - 1) + R
      /\ n \in Nat /\ n > 0
  BY Counts DEF PushWrite, IInv, WindowInv
<1>2. pTail % R = Slot(n) /\ Slot(n) \in Slots
  BY <1>1, IndexFacts, Counts, n \in Int
<1>3. /\ buf' = [buf EXCEPT ![Slot(n)] = Len(sent)]
      /\ raced' = (raced \/ readBy[Slot(n)] > pView)
      /\ written' = [written EXCEPT ![Slot(n)] = n]
  BY <1>2 DEF PushWrite
<1>4. UNCHANGED <<tailStores, headStores, pTail, pSeen, pView, cpc, cHead, cValue,
                  cSeen, cView, readBy, sent, received>>
  BY DEF PushWrite, consumer, history
<1>5. Writes = Len(sent) /\ Writes' = n /\ Reads' = Reads /\ Reads <= Len(sent)
  <2>1. Writes = Len(sent) /\ Writes' = n /\ Reads' = Reads
    BY <1>1, <1>4 DEF Writes, Reads
  <2>2. Reads <= Len(sent)
    BY Counts DEF Reads, IInv, WindowInv
  <2> QED
    BY <2>1, <2>2
<1>6. TypeOK'
  <2>1. buf' \in [Slots -> Int] /\ written' \in [Slots -> Nat]
    <3>1. Len(sent) \in Int
      BY Counts
    <3> HIDE DEF n
    <3> QED
      BY <3>1, <1>1, <1>3, SlotTypes
  <2>2. raced' \in BOOLEAN
    BY <1>3
  <2> QED
    BY <2>1, <2>2, <1>1, <1>4 DEF IInv, TypeOK
<1>7. StoresInv'
  BY <1>4 DEF IInv, StoresInv, Index
<1>8. WindowInv'
  BY <1>1, <1>4 DEF IInv, WindowInv, Index
<1>9. PayloadInv'
  <2>1. ASSUME NEW k \in 1..Writes', k > Len(received)'
        PROVE  buf'[Slot(k)] = k - 1
    <3>1. CASE k = n
      BY <3>1, <1>1, <1>2, <1>3, Counts DEF IInv, TypeOK
    <3>2. CASE k < n
      <4>1. k \in 1..Writes /\ k > Len(received) /\ n < k + R
        BY <2>1, <3>2, <1>1, <1>4, <1>5, Counts
      <4>2. Slot(k) # Slot(n)
        BY <4>1, <3>2, <1>1, SlotsApart, k \in Int, n \in Int
      <4>3. Slot(k) \in Slots
        BY IndexFacts, k \in Int
      <4> QED
        BY <4>1, <4>2, <4>3, <1>2, <1>3 DEF IInv, PayloadInv, TypeOK
    <3> QED
      BY <2>1, <3>1, <3>2, <1>1, <1>5
  <2> QED
    BY <2>1, <1>4 DEF IInv, PayloadInv, Slot, Index
<1>10. AccessInv'
  <2>1. \A s \in Slots : written'[s] <= Writes'
    <3>1. \A s \in Slots : written[s] \in Nat /\ written[s] <= Len(sent)
      BY <1>5, SlotTypes DEF IInv, AccessInv
    <3>2. \A s \in Slots : written'[s] = IF s = Slot(n) THEN n ELSE written[s]
      BY <1>2, <1>3, SlotTypes
    <3>3. Len(sent) <= n
      BY Counts
    <3> HIDE DEF n
    <3> QED
      BY <3>1, <3>2, <3>3, <1>1, <1>5, Counts, SMTT(60)
  <2>2. \A s \in Slots : written'[s] > 0 => Slot(written'[s]) = s
    BY <1>1, <1>2, <1>3 DEF IInv, AccessInv, TypeOK
  <2>3. readBy[Slot(n)] <= pView
    <3> DEFINE j == readBy[Slot(n)]
    <3>1. j \in Nat /\ j <= Len(sent) /\ pView = pSeen - 1
      <4>1. j \in Nat /\ j <= Reads
        BY <1>2, SlotTypes DEF IInv, AccessInv
      <4>2. Reads \in Nat /\ Len(sent) \in Nat
        BY Counts DEF Reads
      <4>3. pView = pSeen - 1
        BY DEF IInv, StoresInv
      <4> HIDE DEF j
      <4> QED
        BY <4>1, <4>2, <4>3, <1>5
    <3>2. CASE j = 0
      BY <3>1, <3>2, Counts
    <3>3. CASE j > 0
      <4>1. Slot(j) = Slot(n)
        BY <3>1, <3>3, <1>2 DEF IInv, AccessInv
      <4> HIDE DEF j
      <4>2. n >= j + R
        BY <3>1, <4>1, SlotsApart, j < n, j \in Int, n \in Int
      <4> QED
        BY <4>2, <3>1, <1>1, Counts, SMTT(60) DEF j
    <3> QED
      BY <3>1, <3>2, <3>3
  <2>4. raced' = FALSE
    BY <2>3, <1>2, <1>3, Counts DEF IInv, AccessInv, TypeOK
  <2> QED
    BY <2>1, <2>2, <2>4, <1>4, <1>5 DEF IInv, AccessInv, Slot, Index
<1> QED
  BY <1>6, <1>7, <1>8, <1>9, <1>10 DEF IInv

LEMMA PushPublishStep ==
    ASSUME IInv, PushPublish
    PROVE  IInv' /\ Len(sent) - Len(received) < R /\ Len(sent) \in 0..(Transfers - 1)
<1> USE Constants
<1> DEFINE n == Len(sent) + 1
<1>1. /\ ppc = "publish" /\ ppc' = "push"
      /\ pTail = Index(Len(sent)) /\ Len(sent) < (pSeen - 1) + R
      /\ Len(sent) < Transfers
      /\ n \in Nat
  BY Counts DEF PushPublish, IInv, WindowInv
<1>2. Succ(pTail) = Index(n) /\ Index(n) \in 0..(W - 1)
  BY <1>1, IndexFacts, Counts
<1>3. /\ tailStores' = Append(tailStores, Store(Index(n), n))
      /\ sent' = Append(sent, Len(sent))
  BY <1>2 DEF PushPublish, ReleaseView
<1>4. UNCHANGED <<buf, headStores, pTail, pSeen, pView, cpc, cHead, cValue,
                  cSeen, cView, written, readBy, raced, received>>
  BY DEF PushPublish, consumer
<1>5. Len(sent') = n /\ sent' \in Seq(Int) /\ sent'[n] = n - 1
      /\ \A k \in 1..Len(sent) : sent'[k] = sent[k]
  BY <1>3, Counts, AppendFacts DEF IInv, TypeOK
<1>6. Store(Index(n), n) \in [val : 0..(W - 1), view : Nat]
  BY <1>1, <1>2 DEF Store
<1>7. /\ tailStores' \in Seq([val : 0..(W - 1), view : Nat]) /\ tailStores' # <<>>
      /\ Len(tailStores') = n + 1
      /\ tailStores'[n + 1] = Store(Index(n), n)
      /\ \A k \in 1..Len(tailStores) : tailStores'[k] = tailStores[k]
  <2> DEFINE S == [val : 0..(W - 1), view : Nat]
  <2>1. tailStores \in Seq(S)
    BY DEF IInv, TypeOK
  <2>2. Store(Index(n), n) \in S
    BY <1>6
  <2> HIDE DEF S
  <2>3. /\ tailStores' \in Seq(S) /\ tailStores' # <<>>
        /\ Len(tailStores') = Len(tailStores) + 1
        /\ tailStores'[Len(tailStores) + 1] = Store(Index(n), n)
        /\ \A k \in 1..Len(tailStores) : tailStores'[k] = tailStores[k]
    BY <2>1, <2>2, <1>3, AppendFacts
  <2> QED
    BY <2>3, Counts DEF S
<1>8. Writes = n /\ Writes' = n /\ Reads' = Reads
  BY <1>1, <1>4, <1>5 DEF Writes, Reads
<1>9. TypeOK'
  <2>1. cSeen \in 1..Len(tailStores')
    BY <1>1, <1>7, Counts
  <2>2. ppc' \in {"push", "write", "publish"}
    BY <1>1
  <2> QED
    BY <2>1, <2>2, <1>4, <1>5, <1>7, Zenon DEF IInv, TypeOK
<1>10. StoresInv'
  <2>1. \A k \in 1..Len(tailStores') : tailStores'[k] = Store(Index(k - 1), k - 1)
    <3> SUFFICES ASSUME NEW k \in 1..Len(tailStores')
                 PROVE  tailStores'[k] = Store(Index(k - 1), k - 1)
      OBVIOUS
    <3>1. CASE k = n + 1
      <4>1. k - 1 = n
        BY <3>1, <1>1
      <4>2. tailStores'[k] = Store(Index(n), n)
        BY <3>1, <1>7, Zenon
      <4> QED
        BY <4>1, <4>2, Zenon
    <3>2. CASE k \in 1..Len(tailStores)
      BY <3>2, <1>7 DEF IInv, StoresInv
    <3>3. k = n + 1 \/ k \in 1..Len(tailStores)
      <4>1. Len(tailStores) = n /\ Len(tailStores') = n + 1
        BY <1>7, Counts
      <4> HIDE DEF n
      <4> QED
        BY <4>1, <1>1
    <3> QED
      BY <3>1, <3>2, <3>3, Zenon
  <2> QED
    BY <2>1, <1>4, <1>5, <1>7 DEF IInv, StoresInv, Index, Store
<1>11. WindowInv'
  BY <1>1, <1>4, <1>5, Counts, SMTT(60) DEF IInv, WindowInv, Index
<1>12. PayloadInv'
  <2>1. \A k \in 1..Len(sent') : sent'[k] = k - 1
    <3> SUFFICES ASSUME NEW k \in 1..Len(sent')
                 PROVE  sent'[k] = k - 1
      OBVIOUS
    <3>1. CASE k = n
      BY <3>1, <1>5
    <3>2. CASE k \in 1..Len(sent)
      BY <3>2, <1>5 DEF IInv, PayloadInv
    <3> QED
      BY <3>1, <3>2, <1>1, <1>5, Counts
  <2> QED
    BY <2>1, <1>4, <1>8 DEF IInv, PayloadInv, Slot, Index
<1>13. AccessInv'
  BY <1>4, <1>8 DEF IInv, AccessInv, Slot, Index
<1> QED
  BY <1>1, <1>9, <1>10, <1>11, <1>12, <1>13, Counts DEF IInv

LEMMA PopLoadStep ==
    ASSUME IInv, NEW i \in TailLoads, PopLoad(i)
    PROVE  IInv'
<1> USE Constants
<1>1. /\ tailStores[i] = Store(Index(i - 1), i - 1)
      /\ cHead' = Index(Len(received)) /\ cSeen' = i
      /\ i \in cSeen..(Len(sent) + 1)
      /\ cpc' = "pop" \/ (cpc' = "read" /\ i - 1 # Len(received))
      /\ cpc = "pop"
  BY PopLoadExact, Counts DEF PopLoad, TailLoads
<1>2. cView' = i - 1
  BY <1>1, Counts, SMTT(60) DEF PopLoad, AcquireView, Store, IInv, StoresInv
<1>3. UNCHANGED <<buf, tailStores, headStores, ppc, pTail, pSeen, pView, cValue,
                  written, readBy, raced, sent, received>>
  BY DEF PopLoad, producer, history
<1>4. Writes' = Writes /\ Reads' = Reads
  BY <1>1, <1>3 DEF Writes, Reads
<1>5. TypeOK'
  <2>1. cHead' \in 0..(W - 1)
    BY <1>1, IndexFacts, Counts
  <2>2. cSeen' \in 1..Len(tailStores)' /\ cView' \in Nat
    BY <1>1, <1>2, <1>3, Counts
  <2> QED
    BY <1>1, <1>3, <2>1, <2>2 DEF IInv, TypeOK
<1>6. StoresInv'
  BY <1>1, <1>2, <1>3, Counts DEF IInv, StoresInv
<1>7. WindowInv'
  <2>1. /\ Len(received) <= i - 1
        /\ cpc' # "pop" => Len(received) < i - 1
    BY <1>1, Counts
  <2> QED
    BY <2>1, <1>1, <1>3 DEF IInv, WindowInv, Index
<1>8. PayloadInv'
  BY <1>1, <1>3, <1>4 DEF IInv, PayloadInv, Slot, Index
<1>9. AccessInv'
  BY <1>3, <1>4 DEF IInv, AccessInv, Slot, Index
<1> QED
  BY <1>5, <1>6, <1>7, <1>8, <1>9 DEF IInv

LEMMA PopReadStep ==
    ASSUME IInv, PopRead
    PROVE  IInv'
<1> USE Constants
<1> DEFINE n == Len(received) + 1
<1>1. /\ cpc = "read" /\ cpc' = "release"
      /\ cHead = Index(Len(received)) /\ Len(received) < cSeen - 1
      /\ n \in Nat /\ n > 0
  BY Counts DEF PopRead, IInv, WindowInv
<1>2. cHead % R = Slot(n) /\ Slot(n) \in Slots
  BY <1>1, IndexFacts, Counts, n \in Int
<1>3. /\ cValue' = buf[Slot(n)]
      /\ raced' = (raced \/ written[Slot(n)] > cView)
      /\ readBy' = [readBy EXCEPT ![Slot(n)] = n]
  BY <1>2 DEF PopRead
<1>4. UNCHANGED <<buf, tailStores, headStores, ppc, pTail, pSeen, pView, cHead,
                  cSeen, cView, written, sent, received>>
  BY DEF PopRead, producer, history
<1>5. /\ Reads = Len(received) /\ Reads' = n /\ Writes' = Writes
      /\ n <= Len(sent) /\ Len(sent) <= Writes /\ Writes <= Len(received) + R
      /\ Writes \in Nat
  <2>1. Reads = Len(received) /\ Reads' = n /\ Writes' = Writes
    BY <1>1, <1>4 DEF Writes, Reads
  <2>2. n <= Len(sent) /\ Len(sent) <= Writes /\ Writes \in Nat
    BY <1>1, Counts DEF Writes
  <2>3. ppc = "publish" => Len(sent) < (pSeen - 1) + R
    BY DEF IInv, WindowInv
  <2>4. Writes <= Len(received) + R
    BY <2>3, Counts DEF Writes
  <2> QED
    BY <2>1, <2>2, <2>4
<1>6. cValue' = Len(received)
  <2>1. n \in 1..Writes /\ n > Len(received) /\ n - 1 = Len(received)
    BY <1>1, <1>5, Counts
  <2>2. buf[Slot(n)] = n - 1
    BY <2>1 DEF IInv, PayloadInv
  <2> QED
    BY <2>1, <2>2, <1>3
<1>7. TypeOK'
  <2>1. readBy' \in [Slots -> Nat] /\ cValue' \in Int
    <3>1. Len(received) \in Int
      BY Counts
    <3> HIDE DEF n
    <3> QED
      BY <3>1, <1>1, <1>3, <1>6, SlotTypes
  <2>2. raced' \in BOOLEAN
    BY <1>3
  <2> QED
    BY <2>1, <2>2, <1>1, <1>4 DEF IInv, TypeOK
<1>8. StoresInv'
  BY <1>4 DEF IInv, StoresInv, Index
<1>9. WindowInv'
  BY <1>1, <1>4 DEF IInv, WindowInv, Index
<1>10. PayloadInv'
  BY <1>4, <1>5, <1>6 DEF IInv, PayloadInv, Slot, Index
<1>11. AccessInv'
  <2>1. \A s \in Slots : readBy'[s] <= Reads'
    <3>1. \A s \in Slots : readBy[s] \in Nat /\ readBy[s] <= Len(received)
      BY <1>5, SlotTypes DEF IInv, AccessInv
    <3>2. \A s \in Slots : readBy'[s] = IF s = Slot(n) THEN n ELSE readBy[s]
      BY <1>2, <1>3, SlotTypes
    <3>3. Len(received) <= n
      BY Counts
    <3> HIDE DEF n
    <3> QED
      BY <3>1, <3>2, <3>3, <1>1, <1>5, Counts, SMTT(60)
  <2>2. \A s \in Slots : readBy'[s] > 0 => Slot(readBy'[s]) = s
    BY <1>1, <1>2, <1>3 DEF IInv, AccessInv, TypeOK
  <2>3. written[Slot(n)] <= cView
    <3> DEFINE j == written[Slot(n)]
    <3>1. j \in Nat /\ j <= Writes
      BY <1>2, SlotTypes DEF IInv, AccessInv
    <3>2. cView = cSeen - 1 /\ n <= cView
      BY <1>1, Counts DEF IInv, StoresInv
    <3>3. j > 0 => Slot(j) = Slot(n)
      BY <1>2 DEF IInv, AccessInv
    <3> HIDE DEF j
    <3>4. n < j => j >= n + R
      BY <3>1, <3>3, <1>1, SlotsApart, j \in Int, n \in Int
    <3>5. j <= n
      BY <3>1, <3>4, <1>1, <1>5, Counts
    <3> QED
      BY <3>1, <3>2, <3>5, <1>1, Counts DEF j
  <2>4. raced' = FALSE
    BY <2>3, <1>2, <1>3, Counts, SMTT(60) DEF IInv, AccessInv, TypeOK
  <2> QED
    BY <2>1, <2>2, <2>4, <1>4, <1>5 DEF IInv, AccessInv, Slot, Index
<1> QED
  BY <1>7, <1>8, <1>9, <1>10, <1>11 DEF IInv

LEMMA PopReleaseStep ==
    ASSUME IInv, PopRelease
    PROVE  /\ IInv'
           /\ Len(received) < Len(sent)
           /\ received' = Append(received, sent[Len(received) + 1])
<1> USE Constants
<1> DEFINE n == Len(received) + 1
<1>1. /\ cpc = "release" /\ cpc' = "pop"
      /\ cHead = Index(Len(received)) /\ Len(received) < cSeen - 1
      /\ cValue = Len(received)
      /\ n \in Nat
  BY Counts DEF PopRelease, IInv, WindowInv, PayloadInv
<1>2. Succ(cHead) = Index(n) /\ Index(n) \in 0..(W - 1)
  BY <1>1, IndexFacts, Counts
<1>3. /\ headStores' = Append(headStores, Store(Index(n), n))
      /\ received' = Append(received, Len(received))
  BY <1>1, <1>2 DEF PopRelease, ReleaseView
<1>4. UNCHANGED <<buf, tailStores, ppc, pTail, pSeen, pView, cHead, cValue,
                  cSeen, cView, written, readBy, raced, sent>>
  BY DEF PopRelease, producer
<1>5. Len(received') = n /\ received' \in Seq(Int) /\ received'[n] = n - 1
      /\ \A k \in 1..Len(received) : received'[k] = received[k]
  BY <1>3, Counts, AppendFacts DEF IInv, TypeOK
<1>6. Store(Index(n), n) \in [val : 0..(W - 1), view : Nat]
  BY <1>1, <1>2 DEF Store
<1>7. /\ headStores' \in Seq([val : 0..(W - 1), view : Nat]) /\ headStores' # <<>>
      /\ Len(headStores') = n + 1
      /\ headStores'[n + 1] = Store(Index(n), n)
      /\ \A k \in 1..Len(headStores) : headStores'[k] = headStores[k]
  <2> DEFINE S == [val : 0..(W - 1), view : Nat]
  <2>1. headStores \in Seq(S)
    BY DEF IInv, TypeOK
  <2>2. Store(Index(n), n) \in S
    BY <1>6
  <2> HIDE DEF S
  <2>3. /\ headStores' \in Seq(S) /\ headStores' # <<>>
        /\ Len(headStores') = Len(headStores) + 1
        /\ headStores'[Len(headStores) + 1] = Store(Index(n), n)
        /\ \A k \in 1..Len(headStores) : headStores'[k] = headStores[k]
    BY <2>1, <2>2, <1>3, AppendFacts
  <2> QED
    BY <2>3, Counts DEF S
<1>8. Reads = n /\ Reads' = n /\ Writes' = Writes
  BY <1>1, <1>4, <1>5 DEF Writes, Reads
<1>9. TypeOK'
  <2>1. pSeen \in 1..Len(headStores')
    BY <1>1, <1>7, Counts
  <2>2. cpc' \in {"pop", "read", "release"}
    BY <1>1
  <2> QED
    BY <2>1, <2>2, <1>4, <1>5, <1>7, Zenon DEF IInv, TypeOK
<1>10. StoresInv'
  <2>1. \A k \in 1..Len(headStores') : headStores'[k] = Store(Index(k - 1), k - 1)
    <3> SUFFICES ASSUME NEW k \in 1..Len(headStores')
                 PROVE  headStores'[k] = Store(Index(k - 1), k - 1)
      OBVIOUS
    <3>1. CASE k = n + 1
      <4>1. k - 1 = n
        BY <3>1, <1>1
      <4>2. headStores'[k] = Store(Index(n), n)
        BY <3>1, <1>7, Zenon
      <4> QED
        BY <4>1, <4>2, Zenon
    <3>2. CASE k \in 1..Len(headStores)
      BY <3>2, <1>7 DEF IInv, StoresInv
    <3>3. k = n + 1 \/ k \in 1..Len(headStores)
      <4>1. Len(headStores) = n /\ Len(headStores') = n + 1
        BY <1>7, Counts
      <4> HIDE DEF n
      <4> QED
        BY <4>1, <1>1
    <3> QED
      BY <3>1, <3>2, <3>3, Zenon
  <2> QED
    BY <2>1, <1>4, <1>5, <1>7 DEF IInv, StoresInv, Index, Store
<1>11. WindowInv'
  BY <1>1, <1>4, <1>5, Counts, SMTT(60) DEF IInv, WindowInv, Index
<1>12. PayloadInv'
  <2>1. \A k \in 1..Len(received') : received'[k] = k - 1
    <3> SUFFICES ASSUME NEW k \in 1..Len(received')
                 PROVE  received'[k] = k - 1
      OBVIOUS
    <3>1. CASE k = n
      BY <3>1, <1>5
    <3>2. CASE k \in 1..Len(received)
      BY <3>2, <1>5 DEF IInv, PayloadInv
    <3> QED
      BY <3>1, <3>2, <1>1, <1>5, Counts, SMTT(60)
  <2>2. \A k \in 1..Writes' : k > Len(received') => buf'[Slot(k)'] = k - 1
    BY <1>4, <1>5, <1>8, Counts DEF IInv, PayloadInv, Slot, Index
  <2> QED
    BY <2>1, <2>2, <1>1, <1>4 DEF IInv, PayloadInv
<1>13. AccessInv'
  BY <1>4, <1>8 DEF IInv, AccessInv, Slot, Index
<1>14. Len(received) < Len(sent) /\ sent[Len(received) + 1] = Len(received)
  BY <1>1, Counts, SMTT(60) DEF IInv, PayloadInv
<1> QED
  BY <1>3, <1>9, <1>10, <1>11, <1>12, <1>13, <1>14 DEF IInv

LEMMA Stutter ==
    ASSUME IInv, UNCHANGED vars
    PROVE  IInv'
<1>1. UNCHANGED <<buf, tailStores, headStores, ppc, pTail, pSeen, pView, cpc, cHead,
                  cValue, cSeen, cView, written, readBy, raced, sent, received>>
  BY DEF vars, producer, consumer, history
<1>2. TypeOK'
  BY <1>1 DEF IInv, TypeOK
<1>3. StoresInv' /\ WindowInv'
  BY <1>1 DEF IInv, StoresInv, WindowInv, Index
<1>4. PayloadInv' /\ AccessInv'
  BY <1>1 DEF IInv, PayloadInv, AccessInv, Writes, Reads, Slot, Index
<1> QED
  BY <1>2, <1>3, <1>4 DEF IInv

LEMMA IInvNext == IInv /\ [Next]_vars => IInv'
<1> SUFFICES ASSUME IInv, [Next]_vars PROVE IInv'
  OBVIOUS
<1>1. CASE \E i \in HeadLoads : PushLoad(i)
  BY <1>1, PushLoadStep
<1>2. CASE PushWrite
  BY <1>2, PushWriteStep
<1>3. CASE PushPublish
  BY <1>3, PushPublishStep
<1>4. CASE \E i \in TailLoads : PopLoad(i)
  BY <1>4, PopLoadStep
<1>5. CASE PopRead
  BY <1>5, PopReadStep
<1>6. CASE PopRelease
  BY <1>6, PopReleaseStep
<1>7. CASE UNCHANGED vars
  BY <1>7, Stutter
<1> QED
  BY <1>1, <1>2, <1>3, <1>4, <1>5, <1>6, <1>7 DEF Next, Producer, Consumer, Done

------------------------------------------------------------------------------
(* The invariant holds throughout, for every ring the assumption allows.   *)
THEOREM Invariance == Spec => []IInv
BY IInvInit, IInvNext, PTL DEF Spec

(* Every variable keeps its type: both indices stay values of their        *)
(* unsigned type, and each thread has loaded a store that exists.          *)
THEOREM TypeCorrect == Spec => []TypeOK
<1>1. IInv => TypeOK
  BY DEF IInv
<1> QED
  BY <1>1, Invariance, PTL

(* spsc_push and spsc_pop are free of data races: the two release stores   *)
(* and the two acquire loads order every write of a slot with the reads of *)
(* it, whatever stale indices the loads return.                            *)
THEOREM RaceFree == Spec => []NoDataRace
<1>1. IInv => NoDataRace
  BY DEF IInv, AccessInv, NoDataRace
<1> QED
  BY <1>1, Invariance, PTL

(* consume's assertion never fails.                                        *)
THEOREM Ordered == Spec => []InOrder
<1>1. IInv => InOrder
  BY DEF IInv, PayloadInv, InOrder
<1> QED
  BY <1>1, Invariance, PTL

(* A push is refused exactly when the ring is full, and a pop exactly when *)
(* it is empty, at the store the load returned: unsigned wrap-around never *)
(* confuses the two.                                                       *)
THEOREM TestsExact == Spec => TestsAreExact
<1> DEFINE
      A == /\ ppc = "push" /\ producer' # producer =>
                 (ppc' = "push" <=> Len(sent) - (pSeen' - 1) = R)
           /\ cpc = "pop" /\ consumer' # consumer =>
                 (cpc' = "pop" <=> cSeen' - 1 = Len(received))
<1>1. IInv /\ [Next]_vars => [A]_vars
  <2> SUFFICES ASSUME IInv, Next PROVE A
    OBVIOUS
  <2>1. ASSUME NEW i \in HeadLoads, PushLoad(i) PROVE A
    BY <2>1, PushLoadExact DEF PushLoad
  <2>2. ASSUME NEW i \in TailLoads, PopLoad(i) PROVE A
    BY <2>2, PopLoadExact DEF PopLoad
  <2>3. CASE PushWrite \/ PushPublish
    BY <2>3 DEF PushWrite, PushPublish, producer, consumer
  <2>4. CASE PopRead \/ PopRelease
    BY <2>4 DEF PopRead, PopRelease, producer, consumer
  <2>5. CASE Done
    BY <2>5 DEF Done, vars
  <2> QED
    BY <2>1, <2>2, <2>3, <2>4, <2>5 DEF Next, Producer, Consumer
<1> QED
  BY <1>1, Invariance, PTL DEF Spec, TestsAreExact

(* The ring of R slots is a FIFO queue of capacity R: nothing is lost,     *)
(* duplicated, reordered or overwritten (the safety part of                *)
(* ImplementsFifo; that items do come out is checked by TLC).              *)
THEOREM RefinesFifo == Spec => Fifo!Spec
<1>1. Init => Fifo!Init
  BY Constants DEF Init, Fifo!Init
<1>2. IInv /\ [Next]_vars => [Fifo!Next]_(Fifo!vars)
  <2> SUFFICES ASSUME IInv, Next PROVE Fifo!Next \/ UNCHANGED <<sent, received>>
    BY DEF vars, history, Fifo!vars
  <2>1. CASE PushPublish
    <3>1. /\ Len(sent) - Len(received) < R /\ Len(sent) \in 0..(Transfers - 1)
          /\ sent' = Append(sent, Len(sent)) /\ received' = received
      BY <2>1, PushPublishStep DEF PushPublish
    <3> QED
      BY <3>1 DEF Fifo!Next, Fifo!Put
  <2>2. CASE PopRelease
    <3>1. /\ Len(received) < Len(sent) /\ sent' = sent
          /\ received' = Append(received, sent[Len(received) + 1])
      BY <2>2, PopReleaseStep DEF PopRelease
    <3> QED
      BY <3>1 DEF Fifo!Next, Fifo!Get
  <2>3. CASE (\E i \in HeadLoads : PushLoad(i)) \/ PushWrite
    BY <2>3 DEF PushLoad, PushWrite, history
  <2>4. CASE (\E i \in TailLoads : PopLoad(i)) \/ PopRead
    BY <2>4 DEF PopLoad, PopRead, history
  <2>5. CASE Done
    BY <2>5 DEF Done, vars, history
  <2> QED
    BY <2>1, <2>2, <2>3, <2>4, <2>5 DEF Next, Producer, Consumer
<1> QED
  BY <1>1, <1>2, Invariance, PTL DEF Spec, Fifo!Spec
==============================================================================
