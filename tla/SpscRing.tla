------------------------------ MODULE SpscRing ------------------------------
(***************************************************************************)
(* The single-producer/single-consumer ring of                             *)
(* src/solutions/s09_spsc_acqrel.c and the two threads of its concurrent   *)
(* test, one action per access to shared memory.                           *)
(*                                                                         *)
(* The atomics follow C11, not interleaved memory.  An atomic variable is  *)
(* the sequence of the stores made to it; a thread may load any store that *)
(* is not older than the last one it loaded.  A store carries a view: how  *)
(* many of its thread's payload accesses happen before a load that reads   *)
(* it.  A release store carries all of them and a relaxed store none; an   *)
(* acquire load takes the view over and a relaxed load does not.  A payload*)
(* access that conflicts with one outside the thread's view is a data race.*)
(***************************************************************************)
EXTENDS Integers, Sequences

CONSTANTS R,          (* slots of the ring: 8                              *)
          W,          (* values of an index: 2^32                          *)
          Start,      (* value of both indices when the threads start      *)
          Transfers   (* values passed: 100000                             *)

(* The index type holds a whole number of laps, and more than one: without *)
(* it `tail % R` would jump when tail wraps, and a full ring would look    *)
(* empty.                                                                  *)
ASSUME RingAssumption ==
    /\ R \in Nat \ {0}
    /\ W \in Nat /\ W > R /\ W % R = 0
    /\ Start \in 0..(W - 1)
    /\ Transfers \in Nat

VARIABLES
    buf,                 (* the payload slots                              *)
    tailStores,          (* the stores made to ring->tail, oldest first    *)
    headStores,          (* the stores made to ring->head, oldest first    *)
    ppc, pTail,          (* producer: next access, local `tail`            *)
    pSeen, pView,        (* producer: last head store loaded, its view     *)
    cpc, cHead, cValue,  (* consumer: next access, local `head`, `value`   *)
    cSeen, cView,        (* consumer: last tail store loaded, its view     *)
    written, readBy,     (* slot -> number of its last write, last read    *)
    raced,               (* a data race has happened                       *)
    sent, received       (* values pushed and popped so far                *)

producer == <<ppc, pTail, pSeen, pView>>
consumer == <<cpc, cHead, cValue, cSeen, cView>>
history  == <<sent, received>>
vars == <<buf, tailStores, headStores, producer, consumer,
          written, readBy, raced, history>>

Slots == 0..(R - 1)

Store(value, view) == [val |-> value, view |-> view]
Newest(stores) == stores[Len(stores)]

(* Unsigned arithmetic of the index type.                                  *)
Succ(i) == (i + 1) % W
Distance(tail, head) == (tail - head) % W

(* memory_order_release publishes what the thread has done so far;         *)
(* memory_order_acquire adds what the store read publishes.                *)
RelaxedView(done) == 0                                 (* mutated Release.. *)
ReleaseView(done) == done
AcquireView(view, store) == IF store.view > view THEN store.view ELSE view

------------------------------------------------------------------------------
(* main: the single-threaded warm-up has filled and drained the ring, and  *)
(* both indices have been set close to the wrap.  The slots still hold the *)
(* warm-up's values, which no thread may read again.                       *)
Init ==
    /\ buf = [s \in Slots |-> s * s]
    /\ tailStores = <<Store(Start, 0)>>
    /\ headStores = <<Store(Start, 0)>>
    /\ ppc = "push" /\ pTail = Start /\ pSeen = 1 /\ pView = 0
    /\ cpc = "pop" /\ cHead = Start /\ cValue = 0 /\ cSeen = 1 /\ cView = 0
    /\ written = [s \in Slots |-> 0] /\ readBy = [s \in Slots |-> 0]
    /\ raced = FALSE
    /\ sent = <<>> /\ received = <<>>

------------------------------------------------------------------------------
(* spsc_push up to the full test: the relaxed load of its own index, then  *)
(* the acquire load of head, which may be any store not older than seen.   *)
SignedFull(tail, head) == tail - head = R              (* mutated IsFull    *)
OneTooMany(tail, head) == Distance(tail, head) > R     (* mutated IsFull    *)
IsFull(tail, head) == Distance(tail, head) = R

PushLoad(i) ==
    /\ ppc = "push" /\ Len(sent) < Transfers
    /\ pTail' = Newest(tailStores).val
    /\ pSeen' = i
    /\ pView' = AcquireView(pView, headStores[i])
    /\ ppc' = IF IsFull(pTail', headStores[i].val) THEN "push" ELSE "write"
    /\ UNCHANGED <<buf, tailStores, headStores, consumer, written, readBy,
                   raced, history>>

(* ring->buf[tail % R] = value: value is the loop variable of produce,     *)
(* which counts the completed pushes.                                      *)
PushWrite ==
    /\ ppc = "write"
    /\ LET s == pTail % R IN
         /\ buf' = [buf EXCEPT ![s] = Len(sent)]
         /\ raced' = (raced \/ readBy[s] > pView)
         /\ written' = [written EXCEPT ![s] = Len(sent) + 1]
    /\ ppc' = "publish"
    /\ UNCHANGED <<tailStores, headStores, pTail, pSeen, pView, consumer,
                   readBy, history>>

(* The release store of tail + 1; produce then moves to the next value.    *)
PushPublish ==
    /\ ppc = "publish"
    /\ tailStores' = Append(tailStores,
                            Store(Succ(pTail), ReleaseView(Len(sent) + 1)))
    /\ sent' = Append(sent, Len(sent))
    /\ ppc' = "push"
    /\ UNCHANGED <<buf, headStores, pTail, pSeen, pView, consumer, written,
                   readBy, raced, received>>

------------------------------------------------------------------------------
(* spsc_pop up to the empty test: relaxed load of its own index, acquire   *)
(* load of tail.                                                           *)
SignedEmpty(head, tail) == head >= tail                (* mutated IsEmpty   *)
IsEmpty(head, tail) == head = tail

PopLoad(i) ==
    /\ cpc = "pop" /\ Len(received) < Transfers
    /\ cHead' = Newest(headStores).val
    /\ cSeen' = i
    /\ cView' = AcquireView(cView, tailStores[i])
    /\ cpc' = IF IsEmpty(cHead', tailStores[i].val) THEN "pop" ELSE "read"
    /\ UNCHANGED <<buf, tailStores, headStores, producer, cValue, written,
                   readBy, raced, history>>

(* *value = ring->buf[head % R]                                            *)
PopRead ==
    /\ cpc = "read"
    /\ LET s == cHead % R IN
         /\ cValue' = buf[s]
         /\ raced' = (raced \/ written[s] > cView)
         /\ readBy' = [readBy EXCEPT ![s] = Len(received) + 1]
    /\ cpc' = "release"
    /\ UNCHANGED <<buf, tailStores, headStores, producer, cHead, cSeen,
                   cView, written, history>>

(* The release store of head + 1; consume then checks the value and moves  *)
(* to the next one it expects.                                             *)
PopRelease ==
    /\ cpc = "release"
    /\ headStores' = Append(headStores,
                            Store(Succ(cHead), ReleaseView(Len(received) + 1)))
    /\ received' = Append(received, cValue)
    /\ cpc' = "pop"
    /\ UNCHANGED <<buf, tailStores, producer, cHead, cValue, cSeen, cView,
                   written, readBy, raced, sent>>

------------------------------------------------------------------------------
HeadLoads == pSeen..Len(headStores)    (* the head stores push may load    *)
TailLoads == cSeen..Len(tailStores)    (* the tail stores pop may load     *)

(* concurrent_test has joined both threads.                                *)
Joined == Len(sent) = Transfers /\ Len(received) = Transfers

Producer == (\E i \in HeadLoads : PushLoad(i)) \/ PushWrite \/ PushPublish
Consumer == (\E i \in TailLoads : PopLoad(i)) \/ PopRead \/ PopRelease
Done     == Joined /\ UNCHANGED vars

Next == Producer \/ Consumer \/ Done

Spec == Init /\ [][Next]_vars

(* Both threads keep being scheduled (a thread that cannot proceed yields  *)
(* and retries), and a thread that polls an index eventually sees its      *)
(* newest store: C11 7.17.3 asks for stores to become visible to loads     *)
(* within a reasonable time.                                               *)
FairSpec ==
    /\ Spec
    /\ WF_vars(Producer) /\ WF_vars(Consumer)
    /\ WF_vars(PushLoad(Len(headStores)))
    /\ WF_vars(PopLoad(Len(tailStores)))

------------------------------------------------------------------------------
TypeOK ==
    /\ buf \in [Slots -> Int]
    /\ tailStores \in Seq([val : 0..(W - 1), view : Nat]) /\ tailStores # <<>>
    /\ headStores \in Seq([val : 0..(W - 1), view : Nat]) /\ headStores # <<>>
    /\ ppc \in {"push", "write", "publish"}
    /\ cpc \in {"pop", "read", "release"}
    /\ pTail \in 0..(W - 1) /\ cHead \in 0..(W - 1) /\ cValue \in Int
    /\ pSeen \in 1..Len(headStores) /\ cSeen \in 1..Len(tailStores)
    /\ pView \in Nat /\ cView \in Nat
    /\ written \in [Slots -> Nat] /\ readBy \in [Slots -> Nat]
    /\ raced \in BOOLEAN
    /\ sent \in Seq(Int) /\ received \in Seq(Int)

(* Acquire and release are enough: whichever stores the loads return, no   *)
(* payload access conflicts with one of the other thread that does not     *)
(* happen before it.  (spsc_push 22-29 against spsc_pop 31-38)             *)
NoDataRace == ~raced

(* The assertion of consume, line 60: the value popped is the expected one,*)
(* although the producer may be a whole lap ahead in the same slots.       *)
InOrder == cpc = "release" => cValue = Len(received)

(* The wrapped comparisons decide exactly: a push is refused iff all R     *)
(* slots were in use at the head store it loaded, and a pop iff nothing    *)
(* was left at the tail store it loaded - across the index wrap, and for   *)
(* stale stores too.                                                       *)
TestsAreExact ==
    [][/\ ppc = "push" /\ producer' # producer =>
            (ppc' = "push" <=> Len(sent) - (pSeen' - 1) = R)
       /\ cpc = "pop" /\ consumer' # consumer =>
            (cpc' = "pop" <=> cSeen' - 1 = Len(received))]_vars

(* Neither thread is left spinning for ever: all values get across.        *)
AllDelivered == <>Joined

(* The ring is a FIFO of R items: a push takes effect at its release store,*)
(* a pop when it returns.                                                  *)
Fifo == INSTANCE BoundedFifo WITH Items <- 0..(Transfers - 1), capacity <- R
ImplementsFifo == Fifo!FairSpec
==============================================================================
