--------------------------- MODULE CrossingProofs ----------------------------
(***************************************************************************)
(* Proofs about the synchronisers between two clocks.  The request and     *)
(* acknowledge crossing, for any number of words and any width of the tick *)
(* counter: wherever the clocks slip, the protocol has at most one change  *)
(* of level under way.  The toggle, for any ratio of clocks and any events:*)
(* parity gets through.  The backlog model, for any traffic: the peak is   *)
(* what the worst interval brings.                                         *)
(*                                                                         *)
(* The six signals of the handshake form a ring: request is sampled into   *)
(* request_sync1, then request_sync2, copied to acknowledge, sampled into  *)
(* acknowledge_sync1, then acknowledge_sync2, and compared with request.   *)
(* Going round it from request, a prefix has the level of request and the  *)
(* rest the opposite one; a new word is sent only when the prefix has      *)
(* reached acknowledge_sync2, and a word is out once it has reached        *)
(* acknowledge.                                                            *)
(***************************************************************************)
EXTENDS CdcHandshake, ToggleSync, RingArithmetic, FiniteSetTheorems

(* A signal has the level of request only if the one it samples has.       *)
RingInv ==
    /\ acknowledge_sync2 = request => acknowledge_sync1 = request
    /\ acknowledge_sync1 = request => acknowledge = request
    /\ acknowledge = request_sync2
    /\ request_sync2 = request => request_sync1 = request

(* Words are taken and delivered in order, and the one held is submitted   *)
(* but not out exactly while request has not reached acknowledge.          *)
WordsInv ==
    /\ \A k \in 1..Len(submitted) : submitted[k] = k
    /\ \A k \in 1..Len(out) : out[k] = k
    /\ held_data = Len(submitted) /\ Len(submitted) <= n
    /\ acknowledge = request => Len(submitted) = Len(out)
    /\ acknowledge # request => Len(submitted) = Len(out) + 1

IInv == TypeOK /\ RingInv /\ WordsInv

------------------------------------------------------------------------------
LEMMA IInvInit == Init => IInv
BY CdcAssumption DEF Init, IInv, TypeOK, Bit, RingInv, WordsInv

LEMMA Counts ==
    ASSUME IInv
    PROVE  /\ Len(submitted) \in Nat /\ Len(out) \in Nat /\ n \in Nat
           /\ Len(submitted) <= n
           /\ submitted \in Seq(1..n) /\ out \in Seq(1..n)
<1>1. submitted \in Seq(1..n) /\ out \in Seq(1..n) /\ n \in 0..MaxWords
  BY Zenon DEF IInv, TypeOK
<1> QED
  BY <1>1, CdcAssumption DEF IInv, WordsInv

(* The levels of the six signals, one fact for each.                       *)
LEMMA Levels ==
    ASSUME IInv
    PROVE  /\ request \in Bit /\ request_sync1 \in Bit /\ request_sync2 \in Bit
           /\ acknowledge \in Bit /\ acknowledge_sync1 \in Bit
           /\ acknowledge_sync2 \in Bit
  BY DEF IInv, TypeOK

(* A source edge samples the acknowledge, and takes a word only when all   *)
(* six signals agree and every word taken before is out.                   *)
SendsWord ==
    /\ request_sync1 = request /\ request_sync2 = request
    /\ acknowledge = request /\ acknowledge_sync1 = request
    /\ Len(submitted) < n
    /\ held_data' = Len(submitted) + 1
    /\ submitted' = Append(submitted, Len(submitted) + 1)
    /\ request' = 1 - request

SendsNothing ==
    UNCHANGED <<held_data, submitted, request>>

LEMMA SourceEdgeCases ==
    ASSUME IInv, SourceEdge
    PROVE  /\ acknowledge_sync2' = acknowledge_sync1
           /\ acknowledge_sync1' = acknowledge
           /\ \/ SendsWord /\ acknowledge_sync2' = request
              \/ SendsNothing
<1>1. acknowledge_sync2' = acknowledge_sync1 /\ acknowledge_sync1' = acknowledge
  BY DEF SourceEdge
<1>2. CASE MaySend(acknowledge_sync2')
  BY <1>1, <1>2 DEF SourceEdge, MaySend, IInv, RingInv, SendsWord, Toggle
<1>3. CASE ~MaySend(acknowledge_sync2')
  BY <1>3 DEF SourceEdge, SendsNothing
<1> QED
  BY <1>1, <1>2, <1>3

(* In a destination edge, a new request means the word that is held, which *)
(* no source edge of the same tick has touched.                            *)
DeliversWord ==
    /\ SendsNothing
    /\ request_sync1 = request /\ acknowledge # request
    /\ request_sync2' = request /\ request_sync1' = request
    /\ acknowledge' = request
    /\ out' = Append(out, Len(out) + 1) /\ Len(submitted) = Len(out) + 1

DeliversNothing ==
    /\ UNCHANGED <<acknowledge, out>>
    /\ \/ UNCHANGED <<request_sync1, request_sync2>>
       \/ request_sync2' = acknowledge /\ request_sync1' = request'

LEMMA DestinationEdgeCases ==
    ASSUME IInv, SourceEdge, DestinationEdge
    PROVE  DeliversWord \/ DeliversNothing
<1>1. request_sync2' = request_sync1 /\ request_sync1' = request'
  BY DEF DestinationEdge
<1>2. CASE request_sync1 # acknowledge
  <2>1. request_sync1 = request /\ acknowledge # request
    BY <1>2, Levels DEF IInv, RingInv, Bit
  <2>2. SendsNothing
    BY <2>1, SourceEdgeCases DEF SendsWord
  <2>3. out' = Append(out, held_data') /\ acknowledge' = request_sync2'
    BY <1>1, <1>2 DEF DestinationEdge, IsNew
  <2>4. held_data' = Len(out) + 1 /\ Len(submitted) = Len(out) + 1
    BY <2>1, <2>2 DEF SendsNothing, IInv, WordsInv
  <2>5. request' = request
    BY <2>2 DEF SendsNothing
  <2>6. out' = Append(out, Len(out) + 1)
    BY <2>3, <2>4
  <2> QED
    BY <1>1, <2>1, <2>2, <2>3, <2>4, <2>5, <2>6 DEF DeliversWord
<1>3. CASE request_sync1 = acknowledge
  BY <1>1, <1>3 DEF DestinationEdge, IsNew, DeliversNothing
<1> QED
  BY <1>2, <1>3

LEMMA TickCases ==
    ASSUME IInv, Tick
    PROVE  /\ SourceEdge /\ n' = n
           /\ handshake_ticks' \in 0..(W - 1)
           /\ DeliversWord \/ DeliversNothing
<1>1. handshake_ticks' \in 0..(W - 1)
  <2>1. /\ handshake_ticks \in 0..(W - 1)
        /\ handshake_ticks' = (handshake_ticks + 1) % W
    BY Zenon DEF Tick, IInv, TypeOK
  <2>2. W \in Nat \ {0} /\ handshake_ticks + 1 \in Int
    BY <2>1, CdcAssumption
  <2>3. (handshake_ticks + 1) % W \in 0..(W - 1)
    BY <2>2, DivisionForm
  <2> QED
    BY <2>1, <2>3, Zenon
<1>2. SourceEdge /\ n' = n
  BY DEF Tick
<1>3. ASSUME handshake_ticks' % 3 = 0
      PROVE  DeliversWord \/ DeliversNothing
  BY <1>2, <1>3, DestinationEdgeCases, Zenon DEF Tick
<1>4. ASSUME handshake_ticks' % 3 # 0
      PROVE  DeliversWord \/ DeliversNothing
  BY <1>4, Zenon DEF Tick, DeliversNothing
<1> QED
  BY <1>1, <1>2, <1>3, <1>4

------------------------------------------------------------------------------
LEMMA RingStep ==
    ASSUME IInv, Tick
    PROVE  RingInv'
<1>1. CASE DeliversWord
  BY <1>1, TickCases, SourceEdgeCases, Levels
     DEF DeliversWord, SendsNothing, IInv, RingInv, Bit
<1>2. CASE DeliversNothing /\ SendsWord
  BY <1>2, TickCases, SourceEdgeCases, Levels
     DEF DeliversNothing, SendsWord, IInv, RingInv, Bit
<1>3. CASE DeliversNothing /\ SendsNothing
  BY <1>3, TickCases, SourceEdgeCases, Levels
     DEF DeliversNothing, SendsNothing, IInv, RingInv, Bit
<1> QED
  BY <1>1, <1>2, <1>3, TickCases, SourceEdgeCases

LEMMA WordsStep ==
    ASSUME IInv, Tick
    PROVE  /\ WordsInv' /\ submitted' \in Seq(1..n) /\ out' \in Seq(1..n)
           /\ held_data' \in 0..n
<1>1. n' = n /\ n \in Nat /\ Len(submitted) \in Nat /\ Len(out) \in Nat
      /\ Len(submitted) <= n
  BY TickCases, Counts
<1>2. submitted \in Seq(1..n) /\ out \in Seq(1..n)
  BY Counts
<1>3. CASE DeliversWord
  <2>1. /\ submitted' = submitted /\ request' = request /\ acknowledge' = request
        /\ held_data' = held_data /\ Len(submitted) = Len(out) + 1
        /\ out' = Append(out, Len(out) + 1)
    BY <1>3 DEF DeliversWord, SendsNothing
  <2>2. Len(out) + 1 \in 1..n
    BY <1>1, <2>1
  <2>3. /\ out' \in Seq(1..n) /\ Len(out') = Len(out) + 1
        /\ out'[Len(out) + 1] = Len(out) + 1
        /\ \A k \in 1..Len(out) : out'[k] = out[k]
    BY <1>2, <2>1, <2>2, AppendFacts
  <2>4. \A k \in 1..Len(out') : out'[k] = k
    BY <1>1, <2>3 DEF IInv, WordsInv
  <2> QED
    BY <1>1, <1>2, <2>1, <2>3, <2>4 DEF IInv, WordsInv
<1>4. CASE DeliversNothing /\ SendsWord
  <2>1. /\ out' = out /\ acknowledge' = acknowledge /\ acknowledge = request
        /\ request' = 1 - request /\ Len(submitted) < n
        /\ held_data' = Len(submitted) + 1
        /\ submitted' = Append(submitted, Len(submitted) + 1)
    BY <1>4 DEF DeliversNothing, SendsWord
  <2>2. Len(submitted) + 1 \in 1..n
    BY <1>1, <2>1
  <2>3. /\ submitted' \in Seq(1..n) /\ Len(submitted') = Len(submitted) + 1
        /\ submitted'[Len(submitted) + 1] = Len(submitted) + 1
        /\ \A k \in 1..Len(submitted) : submitted'[k] = submitted[k]
    BY <1>2, <2>1, <2>2, AppendFacts
  <2>4. \A k \in 1..Len(submitted') : submitted'[k] = k
    BY <1>1, <2>3, SMTT(60) DEF IInv, WordsInv
  <2>5. acknowledge' # request'
    BY <2>1, Levels DEF Bit
  <2>6. Len(submitted) = Len(out)
    BY <2>1 DEF IInv, WordsInv
  <2> QED
    BY <1>1, <1>2, <2>1, <2>3, <2>4, <2>5, <2>6 DEF IInv, WordsInv
<1>5. CASE DeliversNothing /\ SendsNothing
  BY <1>1, <1>2, <1>5 DEF DeliversNothing, SendsNothing, IInv, WordsInv
<1> QED
  BY <1>3, <1>4, <1>5, TickCases, SourceEdgeCases

LEMMA LevelsStep ==
    ASSUME IInv, Tick
    PROVE  /\ {request, request_sync1, request_sync2}' \subseteq Bit
           /\ {acknowledge, acknowledge_sync1, acknowledge_sync2}' \subseteq Bit
<1>1. request' \in Bit
  BY TickCases, SourceEdgeCases, Levels DEF SendsWord, SendsNothing, Bit
<1>2. acknowledge_sync1' \in Bit /\ acknowledge_sync2' \in Bit
  BY TickCases, SourceEdgeCases, Levels
<1>3. CASE DeliversWord
  BY <1>1, <1>2, <1>3, Levels DEF DeliversWord
<1>4. CASE DeliversNothing
  BY <1>1, <1>2, <1>4, Levels DEF DeliversNothing
<1> QED
  BY <1>3, <1>4, TickCases

LEMMA IInvNext == IInv /\ [Next]_vars => IInv'
<1> SUFFICES ASSUME IInv, [Next]_vars PROVE IInv'
  OBVIOUS
<1>1. CASE Tick
  <2>1. n' = n /\ n \in 0..MaxWords
    BY <1>1, TickCases DEF IInv, TypeOK
  <2>2. TypeOK'
    BY <1>1, <2>1, TickCases, WordsStep, LevelsStep DEF TypeOK, Bit
  <2> QED
    BY <1>1, <2>2, RingStep, WordsStep DEF IInv
<1>2. CASE UNCHANGED vars
  BY <1>2 DEF vars, requestPath, acknowledgePath, IInv, TypeOK, RingInv, WordsInv
<1> QED
  BY <1>1, <1>2 DEF Next, Return

------------------------------------------------------------------------------
(* The invariant holds throughout, for any number of words and whichever   *)
(* tick the clocks slip at.                                                *)
THEOREM Invariance == Spec => []IInv
BY IInvInit, IInvNext, PTL DEF Spec

(* Every signal is a level, the counter stays in its width, and the word   *)
(* held is one of the call's.                                              *)
THEOREM TypeCorrect == Spec => []TypeOK
<1>1. IInv => TypeOK
  BY DEF IInv
<1> QED
  BY <1>1, Invariance, PTL

(* When handshake_xfer returns, all words are out and no signal is still   *)
(* on its way.                                                             *)
THEOREM Quiet == Spec => []QuietOnReturn
<1>1. IInv => QuietOnReturn
  <2> SUFFICES ASSUME IInv, ~Running PROVE QuietOnReturn
    BY DEF QuietOnReturn
  <2>1. ~(Len(out) < n) /\ acknowledge_sync2 = request
    BY DEF Running, received
  <2>2. /\ acknowledge_sync1 = request /\ acknowledge = request
        /\ request_sync2 = request /\ request_sync1 = request
    BY <2>1 DEF IInv, RingInv
  <2>3. Len(out) = n
    BY <2>1, <2>2, Counts DEF IInv, WordsInv
  <2> QED
    BY <2>1, <2>2, <2>3 DEF QuietOnReturn, received
<1> QED
  BY <1>1, Invariance, PTL

(* The data word changes only when what was submitted is out and its       *)
(* acknowledge has come back: no destination edge can catch it changing.   *)
THEOREM Held == Spec => HeldUntilAcknowledged
<1> DEFINE A == held_data' # held_data =>
                    /\ Len(out) = Len(submitted)
                    /\ acknowledge_sync2' = request /\ acknowledge = request
<1>1. IInv /\ [Next]_vars => [A]_vars
  <2> SUFFICES ASSUME IInv, Tick PROVE A
    BY DEF Next, Return
  <2>1. CASE SendsNothing
    BY <2>1 DEF SendsNothing
  <2>2. CASE SendsWord /\ acknowledge_sync2' = request
    BY <2>2 DEF SendsWord, IInv, WordsInv
  <2> QED
    BY <2>1, <2>2, TickCases, SourceEdgeCases
<1> QED
  BY <1>1, Invariance, PTL DEF Spec, HeldUntilAcknowledged

(* The next destination edge is never more than three turns away, and a    *)
(* turn that is not one brings it nearer.                                  *)
LEMMA EdgeNear ==
    ASSUME IInv
    PROVE  UntilEdge \in 1..3
<1> DEFINE t == handshake_ticks
           r == handshake_ticks % 3
<1>1. t \in 0..(W - 1) /\ W \in Nat
  BY CdcAssumption DEF IInv, TypeOK
<1>2. r \in 0..2
  BY <1>1, DivisionForm
<1>3. UntilEdge = IF t + (3 - r) < W THEN 3 - r ELSE W - t
  BY Zenon DEF UntilEdge
<1> HIDE DEF t, r
<1> QED
  BY <1>1, <1>2, <1>3

LEMMA EdgeNearer ==
    ASSUME IInv, Tick, handshake_ticks' % 3 # 0
    PROVE  UntilEdge' = UntilEdge - 1
<1> DEFINE t == handshake_ticks
           r == handshake_ticks % 3
           q == handshake_ticks \div 3
           u == handshake_ticks'
           s == handshake_ticks' % 3
<1>1. t \in 0..(W - 1) /\ W \in Nat \ {0} /\ t \in Int
  BY CdcAssumption DEF IInv, TypeOK
<1>2. r \in 0..2 /\ q \in Int /\ t = 3 * q + r
  BY <1>1, DivisionForm
<1>3. UntilEdge = IF t + (3 - r) < W THEN 3 - r ELSE W - t
  BY Zenon DEF UntilEdge
<1>4. UntilEdge' = IF u + (3 - s) < W THEN 3 - s ELSE W - u
  BY Zenon DEF UntilEdge
<1>5. u = (t + 1) % W /\ s # 0
  BY DEF Tick
<1>6. ASSUME t + 1 = W
      PROVE  FALSE
  <2>1. (W * 1 + 0) % W = 0
    BY <1>1, RemainderUnique
  <2>2. W * 1 + 0 = t + 1
    BY <1>1, <1>6
  <2>3. u = 0
    BY <1>5, <2>1, <2>2, Zenon
  <2>4. (3 * 0 + 0) % 3 = 0
    BY RemainderUnique
  <2>5. 3 * 0 + 0 = 0
    OBVIOUS
  <2> QED
    BY <1>5, <2>3, <2>4, <2>5
<1>7. t + 1 < W
  BY <1>1, <1>6
<1>8. u = t + 1
  <2>1. (W * 0 + (t + 1)) % W = t + 1
    BY <1>1, <1>7, RemainderUnique
  <2>2. W * 0 + (t + 1) = t + 1
    BY <1>1
  <2> QED
    BY <1>5, <2>1, <2>2, Zenon
<1>9. r # 2
  <2> SUFFICES ASSUME r = 2 PROVE FALSE
    OBVIOUS
  <2>1. (3 * (q + 1) + 0) % 3 = 0
    BY <1>2, RemainderUnique
  <2>2. 3 * (q + 1) + 0 = u
    BY <1>2, <1>8
  <2> QED
    BY <1>5, <2>1, <2>2
<1>10. s = r + 1
  <2>1. (3 * q + (r + 1)) % 3 = r + 1
    BY <1>2, <1>9, RemainderUnique
  <2>2. 3 * q + (r + 1) = u
    BY <1>2, <1>8
  <2> QED
    BY <2>1, <2>2
<1> HIDE DEF t, r, q, u, s
<1> QED
  BY <1>1, <1>2, <1>3, <1>4, <1>7, <1>8, <1>9, <1>10

(* What a turn leaves to do, by how far the level has come.                *)
LEMMA LeftByLevel ==
    ASSUME IInv
    PROVE  /\ request_sync1 # request => LevelLeft = 5 + UntilEdge
           /\ request_sync1 = request /\ acknowledge # request =>
                LevelLeft = 2 + UntilEdge
           /\ acknowledge = request /\ acknowledge_sync1 # request =>
                LevelLeft = 2
           /\ acknowledge_sync1 = request /\ acknowledge_sync2 # request =>
                LevelLeft = 1
           /\ acknowledge_sync2 = request =>
                LevelLeft = IF Len(submitted) < n THEN 1 ELSE 0
  BY DEF LevelLeft, IInv, RingInv

LEMMA LeftInBounds ==
    ASSUME IInv
    PROVE  TurnsLeft \in Nat /\ LevelLeft \in 0..8
<1>1. LevelLeft \in 0..8
  BY EdgeNear, LeftByLevel
<1> QED
  BY <1>1, Counts DEF TurnsLeft

(* All of this at once, to be used of the state after a turn as well.      *)
LeftFacts ==
    /\ Len(submitted) \in Nat /\ n \in Nat /\ Len(submitted) <= n
    /\ UntilEdge \in 1..3 /\ TurnsLeft \in Nat /\ LevelLeft \in 0..8
    /\ request_sync1 # request => LevelLeft = 5 + UntilEdge
    /\ request_sync1 = request /\ acknowledge # request =>
         LevelLeft = 2 + UntilEdge
    /\ acknowledge = request /\ acknowledge_sync1 # request => LevelLeft = 2
    /\ acknowledge_sync1 = request /\ acknowledge_sync2 # request =>
         LevelLeft = 1
    /\ acknowledge_sync2 = request =>
         LevelLeft = IF Len(submitted) < n THEN 1 ELSE 0

LEMMA LeftHolds == IInv => LeftFacts
BY Counts, EdgeNear, LeftByLevel, LeftInBounds DEF LeftFacts

LEMMA LeftHoldsNext == IInv' => LeftFacts'
BY LeftHolds, PTL

LEMMA TurnCounts ==
    ASSUME IInv, IInv', Tick
    PROVE  TurnsLeft' < TurnsLeft
<1> DEFINE w == n - Len(submitted)
<1>1. /\ w \in Nat /\ w' \in Nat /\ TurnsLeft = 8 * w + LevelLeft
      /\ TurnsLeft' = 8 * w' + LevelLeft'
      /\ Len(submitted) < n <=> w > 0
      /\ Len(submitted') < n' <=> w' > 0
  <2>1. /\ Len(submitted) \in Nat /\ n \in Nat /\ Len(submitted) <= n
        /\ Len(submitted)' \in Nat /\ n' \in Nat /\ Len(submitted)' <= n'
    BY LeftHolds, LeftHoldsNext DEF LeftFacts
  <2> QED
    BY <2>1 DEF TurnsLeft
<1>2. UntilEdge \in 1..3 /\ UntilEdge' \in 1..3
  BY LeftHolds, LeftHoldsNext DEF LeftFacts
<1>3. /\ request_sync1' # request' => LevelLeft' = 5 + UntilEdge'
      /\ request_sync1' = request' /\ acknowledge' # request' =>
           LevelLeft' = 2 + UntilEdge'
      /\ acknowledge' = request' /\ acknowledge_sync1' # request' =>
           LevelLeft' = 2
      /\ acknowledge_sync1' = request' /\ acknowledge_sync2' # request' =>
           LevelLeft' = 1
      /\ acknowledge_sync2' = request' =>
           LevelLeft' = IF Len(submitted') < n' THEN 1 ELSE 0
  BY LeftHoldsNext DEF LeftFacts
<1>4. acknowledge_sync2' = acknowledge_sync1 /\ acknowledge_sync1' = acknowledge
  BY DEF Tick, SourceEdge
<1>5. n' = n /\ SourceEdge
  BY DEF Tick
<1>6. CASE DeliversWord
  <2>1. /\ acknowledge' = request' /\ acknowledge_sync1' # request'
        /\ request_sync1 = request /\ acknowledge # request /\ w' = w
    BY <1>4, <1>5, <1>6 DEF DeliversWord, SendsNothing
  <2>2. LevelLeft = 2 + UntilEdge /\ LevelLeft' = 2
    BY <1>3, <2>1, LeftByLevel
  <2> QED
    BY <1>1, <1>2, <2>1, <2>2
<1>7. CASE SendsWord /\ DeliversNothing /\ acknowledge_sync2' = request
  <2>1. /\ request' # request /\ acknowledge' # request' /\ w > 0
        /\ acknowledge_sync1 = request
    BY <1>1, <1>4, <1>5, <1>7, Levels
       DEF SendsWord, DeliversNothing, Bit
  <2>2. w' = w - 1
    <3>1. Len(submitted') = Len(submitted) + 1
      BY <1>7, Counts, AppendFacts DEF SendsWord
    <3> QED
      BY <1>5, <3>1, Counts
  <2>3. LevelLeft = 1
    BY <1>1, <1>2, <2>1, LeftByLevel
  <2>4. LevelLeft' \in 0..8
    BY LeftHoldsNext DEF LeftFacts
  <2> QED
    BY <1>1, <1>2, <2>1, <2>2, <2>3, <2>4, SMTT(60)
<1>8. CASE SendsNothing /\ DeliversNothing
  <2>1. request' = request /\ w' = w /\ acknowledge' = acknowledge
    BY <1>5, <1>8 DEF SendsNothing, DeliversNothing
  <2>2. handshake_ticks' % 3 # 0 => /\ UntilEdge' = UntilEdge - 1
                                    /\ request_sync1' = request_sync1
    BY EdgeNearer DEF Tick
  <2>3. handshake_ticks' % 3 = 0 => /\ request_sync2' = request_sync1
                                    /\ request_sync1' = request'
    BY Zenon DEF Tick, DestinationEdge
  <2>4. CASE request_sync1 # request
    <3>1. LevelLeft = 5 + UntilEdge /\ acknowledge # request
      BY <2>4, LeftByLevel DEF IInv, RingInv
    <3>2. CASE handshake_ticks' % 3 # 0
      BY <1>1, <1>2, <1>3, <2>1, <2>2, <2>4, <3>1, <3>2
    <3>3. CASE handshake_ticks' % 3 = 0
      BY <1>1, <1>2, <1>3, <2>1, <2>3, <3>1, <3>3, SMTT(60)
    <3> QED
      BY <3>2, <3>3
  <2>5. CASE request_sync1 = request /\ acknowledge # request
    <3>1. LevelLeft = 2 + UntilEdge
      BY <2>5, LeftByLevel
    <3>2. handshake_ticks' % 3 # 0
      BY <1>8, <2>3, <2>5, Levels DEF DeliversNothing, IInv, RingInv, Bit
    <3> QED
      BY <1>1, <1>2, <1>3, <2>1, <2>2, <2>5, <3>1, <3>2
  <2>6. CASE acknowledge = request /\ acknowledge_sync1 # request
    <3>1. LevelLeft = 2 /\ LevelLeft' = 1
      BY <1>3, <1>4, <2>1, <2>6, LeftByLevel
    <3> QED
      BY <1>1, <2>1, <3>1
  <2>7. CASE acknowledge_sync1 = request
    <3>1. ~MaySend(acknowledge_sync2')
      <4> SUFFICES ASSUME MaySend(acknowledge_sync2') PROVE FALSE
        OBVIOUS
      <4>1. submitted' = Append(submitted, Len(submitted) + 1)
        BY <1>5 DEF SourceEdge
      <4>2. submitted' = submitted
        BY <1>8 DEF SendsNothing
      <4> QED
        BY <4>1, <4>2, Counts
    <3>2. w = 0
      BY <1>1, <1>4, <2>7, <3>1 DEF MaySend
    <3>3. acknowledge_sync2 # request
      BY <1>1, <2>7, <3>2, Counts DEF Tick, Running, received, IInv, RingInv, WordsInv
    <3>4. LevelLeft = 1 /\ LevelLeft' = 0
      BY <1>1, <1>3, <1>4, <2>1, <2>7, <3>2, <3>3, LeftByLevel
    <3> QED
      BY <1>1, <2>1, <3>4
  <2> QED
    BY <2>4, <2>5, <2>6, <2>7 DEF IInv, RingInv
<1> QED
  BY <1>6, <1>7, <1>8, TickCases, SourceEdgeCases DEF DeliversWord

(* Every turn of the loop brings the end of the call nearer, and it is     *)
(* never more than eight turns a word and one away: the clocks cannot wait *)
(* for each other, whatever the width of the tick counter.  Returns adds   *)
(* only that the loop keeps turning.                                       *)
THEOREM NoWaiting == Spec => NoTurnWasted
<1> DEFINE Bounded == TurnsLeft <= 8 * n + 1
<1>1. Init => Bounded
  <2> SUFFICES ASSUME Init PROVE TurnsLeft <= 8 * n + 1
    OBVIOUS
  <2>1. n \in Nat /\ Len(submitted) = 0 /\ LevelLeft \in 0..1
    <3>1. IInv
      BY IInvInit
    <3> QED
      BY <3>1, Counts, LeftByLevel DEF Init
  <2> QED
    BY <2>1 DEF TurnsLeft
<1>2. IInv /\ IInv' /\ [Next]_vars => [TurnsLeft' < TurnsLeft]_vars
  BY TurnCounts DEF Next, Return
<1>3. IInv /\ IInv' /\ [Next]_vars /\ Bounded => Bounded'
  <2> SUFFICES ASSUME IInv, IInv', [Next]_vars, TurnsLeft <= 8 * n + 1
               PROVE  TurnsLeft' <= 8 * n' + 1
    OBVIOUS
  <2>1. CASE Tick
    <3>1. /\ TurnsLeft' < TurnsLeft /\ n' = n /\ n \in Nat
          /\ TurnsLeft \in Nat /\ TurnsLeft' \in Nat
      BY <2>1, TurnCounts, LeftHolds, LeftHoldsNext DEF Tick, LeftFacts
    <3> QED
      BY <3>1
  <2>2. CASE UNCHANGED vars
    <3>1. TurnsLeft' = TurnsLeft /\ n' = n
      BY <2>2 DEF vars, requestPath, acknowledgePath, TurnsLeft, LevelLeft,
                  UntilEdge
    <3> QED
      BY <3>1
  <2> QED
    BY <2>1, <2>2 DEF Next, Return
<1>4. IInv /\ Bounded => TurnsLeft \in 0..(8 * n + 1)
  BY LeftInBounds, Counts
<1> HIDE DEF Bounded
<1> QED
  BY <1>1, <1>2, <1>3, <1>4, Invariance, PTL DEF Spec, NoTurnWasted

(* The crossing is a queue of one word (the safety part of ImplementsFifo; *)
(* that words do come out is checked by TLC).                              *)
THEOREM RefinesFifo == Spec => Fifo!Spec
<1>1. Init => Fifo!Init
  BY DEF Init, Fifo!Init
<1>2. IInv /\ [Next]_vars => [Fifo!Next]_(Fifo!vars)
  <2> SUFFICES ASSUME IInv, Tick PROVE Fifo!Next \/ UNCHANGED <<submitted, out>>
    BY DEF Next, Return, vars, Fifo!vars
  <2>1. /\ Len(submitted) \in Nat /\ Len(out) \in Nat /\ n \in 0..MaxWords
        /\ MaxWords \in Nat
    BY Counts, CdcAssumption DEF IInv, TypeOK
  <2>2. CASE DeliversWord
    <3>1. Len(out) < Len(submitted) /\ submitted[Len(out) + 1] = Len(out) + 1
      BY <2>1, <2>2 DEF DeliversWord, IInv, WordsInv
    <3>2. out' = Append(out, submitted[Len(out) + 1]) /\ submitted' = submitted
      BY <2>2, <3>1 DEF DeliversWord, SendsNothing
    <3> QED
      BY <3>1, <3>2 DEF Fifo!Next, Fifo!Get
  <2>3. CASE DeliversNothing /\ SendsWord
    <3>1. /\ submitted' = Append(submitted, Len(submitted) + 1) /\ out' = out
          /\ Len(submitted) < n /\ Len(submitted) = Len(out)
      BY <2>3 DEF DeliversNothing, SendsWord, IInv, WordsInv
    <3>2. Len(submitted) + 1 \in 1..MaxWords /\ Len(submitted) - Len(out) < 1
      BY <2>1, <3>1
    <3> QED
      BY <3>1, <3>2 DEF Fifo!Next, Fifo!Put
  <2>4. CASE DeliversNothing /\ SendsNothing
    BY <2>4 DEF DeliversNothing, SendsNothing
  <2> QED
    BY <2>2, <2>3, <2>4, TickCases, SourceEdgeCases
<1> QED
  BY <1>1, <1>2, Invariance, PTL DEF Spec, Fifo!Spec

------------------------------------------------------------------------------
(* The clocks of an interval that have an event.                           *)
Ones(q, from, to) == {i \in from..to : q[i] = 1}

LEMMA OnesFinite ==
    ASSUME NEW q, NEW from \in Int, NEW to \in Int
    PROVE  /\ IsFiniteSet(Ones(q, from, to))
           /\ Cardinality(Ones(q, from, to)) \in Nat
           /\ from > to => Cardinality(Ones(q, from, to)) = 0
<1>1. IsFiniteSet(from..to) /\ Ones(q, from, to) \subseteq from..to
  BY FS_Interval DEF Ones
<1>2. IsFiniteSet(Ones(q, from, to))
  BY <1>1, FS_Subset
<1>3. ASSUME from > to PROVE Ones(q, from, to) = {}
  BY <1>3 DEF Ones
<1> QED
  BY <1>2, <1>3, FS_CardinalityType, FS_EmptySet

LEMMA OnesSplit ==
    ASSUME NEW q, NEW from \in Int, NEW mid \in Int, NEW to \in Int,
           from <= mid + 1, mid <= to
    PROVE  Cardinality(Ones(q, from, to))
               = Cardinality(Ones(q, from, mid)) + Cardinality(Ones(q, mid + 1, to))
<1> DEFINE A == Ones(q, from, mid)
           B == Ones(q, mid + 1, to)
<1>1. Ones(q, from, to) = A \cup B /\ A \cap B = {}
  BY DEF Ones
<1>2. /\ IsFiniteSet(A) /\ Cardinality(A) \in Nat
      /\ IsFiniteSet(B) /\ Cardinality(B) \in Nat
  BY OnesFinite, mid + 1 \in Int
<1> HIDE DEF A, B
<1>3. Cardinality(A \cup B) = Cardinality(A) + Cardinality(B) - Cardinality(A \cap B)
  BY <1>2, FS_Union
<1>4. Cardinality(A \cap B) = 0
  BY <1>1, FS_EmptySet
<1>5. Cardinality(A \cup B) = Cardinality(A) + Cardinality(B)
  BY <1>2, <1>3, <1>4
<1> QED
  BY <1>1, <1>5 DEF A, B

LEMMA OnesOfOne ==
    ASSUME NEW q, NEW i \in Int, q[i] \in {0, 1}
    PROVE  Cardinality(Ones(q, i, i)) = q[i]
<1>0. i \in i..i /\ \A k \in i..i : k = i
  OBVIOUS
<1>1. CASE q[i] = 1
  <2>1. Ones(q, i, i) = {} \cup {i}
    BY <1>0, <1>1 DEF Ones
  <2> QED
    <3>1. Cardinality({} \cup {i}) = Cardinality({}) + 1
      BY FS_EmptySet, FS_AddElement, i \notin {}
    <3> QED
      BY <3>1, <2>1, <1>1, FS_EmptySet
<1>2. CASE q[i] = 0
  <2>1. \A k \in i..i : q[k] # 1
    BY <1>0, <1>2
  <2>2. Ones(q, i, i) = {}
    BY <2>1 DEF Ones
  <2> QED
    BY <2>2, <1>2, FS_EmptySet
<1> QED
  BY <1>1, <1>2

(* Appending a clock does not change what came before.                     *)
LEMMA OnesBefore ==
    ASSUME NEW q \in Seq({0, 1}), NEW e \in {0, 1},
           NEW from \in Int, NEW to \in Int, from >= 1, to <= Len(q)
    PROVE  Ones(Append(q, e), from, to) = Ones(q, from, to)
<1>1. \A k \in 1..Len(q) : Append(q, e)[k] = q[k]
  BY AppendFacts
<1>2. \A k \in from..to : k \in 1..Len(q)
  BY Len(q) \in Nat
<1> QED
  BY <1>1, <1>2 DEF Ones

(* Two counts that differ by an odd number differ in parity.               *)
LEMMA Parity ==
    ASSUME NEW a \in Nat, NEW b \in Nat
    PROVE  /\ (a + b) % 2 = a % 2 <=> b % 2 # 1
           /\ a % 2 \in {0, 1}
           /\ ((a % 2) + b) % 2 = (a + b) % 2
  BY SMT

(* Where the sample before a clock was taken.                              *)
LastMultiple(d, c) == d * (c \div d)

LEMMA MultipleFacts ==
    ASSUME NEW d \in Nat \ {0}, NEW c \in Nat
    PROVE  /\ LastMultiple(d, c) \in 0..c
           /\ c % d = 0 => LastMultiple(d, c) = c
<1>1. c \in Int
  OBVIOUS
<1>2. c \div d \in Int /\ c % d \in 0..(d - 1) /\ c = d * (c \div d) + (c % d)
  BY <1>1, DivisionForm
<1> DEFINE k == c \div d
           r == c % d
<1> HIDE DEF k, r
<1>3. k \in Int /\ r \in 0..(d - 1) /\ c = d * k + r
  BY <1>2 DEF k, r
<1>4. k >= 0
  <2> SUFFICES ASSUME k <= -1 PROVE FALSE
    BY <1>3
  <2>1. d * k <= d * (-1)
    BY <1>3
  <2> QED
    BY <1>3, <2>1
<1>5. d * k \in 0..c /\ (r = 0 => d * k = c)
  BY <1>3, <1>4
<1> QED
  BY <1>5 DEF LastMultiple, k, r

(* Between multiples it stays where it is.                                 *)
LEMMA MultipleStays ==
    ASSUME NEW d \in Nat \ {0}, NEW c \in Nat, (c + 1) % d # 0
    PROVE  LastMultiple(d, c + 1) = LastMultiple(d, c)
<1> DEFINE k == (c + 1) \div d
           r == (c + 1) % d
<1>1. k \in Int /\ r \in 0..(d - 1) /\ c + 1 = d * k + r
  BY DivisionForm, c + 1 \in Int
<1>2. r # 0
  OBVIOUS
<1> HIDE DEF k, r
<1>3. c = d * k + (r - 1) /\ r - 1 \in 0..(d - 1)
  BY <1>1, <1>2
<1>4. c \div d = k
  BY <1>1, <1>3, SMT
<1> QED
  BY <1>4 DEF LastMultiple, k

LEMMA EventsAreOnes ==
    /\ \A from, to : Events(from, to) = Cardinality(Ones(src_pulses, from, to))
    /\ \A s : Previous(s) = LastMultiple(dest_div, s - 1)
BY DEF Events, Ones, Previous, LastMultiple

(* The destination holds the parity of the events up to its last sample.   *)
LastSample == IF Len(src_pulses) = clocks
                THEN clocks ELSE LastMultiple(dest_div, Len(src_pulses))
Parity1(to) == Cardinality(Ones(src_pulses, 1, to)) % 2
Odd(s) == Cardinality(Ones(src_pulses, LastMultiple(dest_div, s - 1) + 1, s)) % 2 = 1

ToggleInv ==
    /\ dest_div \in Nat \ {0} /\ clocks \in Nat
    /\ src_pulses \in Seq({0, 1}) /\ Len(src_pulses) <= clocks
    /\ source_toggle = Parity1(Len(src_pulses))
    /\ sampled_toggle = Parity1(LastSample)
    /\ dest_pulses = {s \in 1..Len(src_pulses) : sampled(s) /\ Odd(s)}
    /\ IsFiniteSet(dest_pulses) /\ delivered = Cardinality(dest_pulses)
    /\ delivered % 2 = sampled_toggle

LEMMA ToggleInitially == ToggleInit => ToggleInv
<1> SUFFICES ASSUME ToggleInit PROVE ToggleInv
  OBVIOUS
<1>1. /\ dest_div \in Nat \ {0} /\ clocks \in Nat /\ src_pulses = <<>>
      /\ source_toggle = 0 /\ sampled_toggle = 0 /\ dest_pulses = {} /\ delivered = 0
  BY ToggleAssumption DEF ToggleInit
<1>2. src_pulses \in Seq({0, 1}) /\ Len(src_pulses) = 0
  BY <1>1
<1>3. LastSample = 0
  BY <1>1, <1>2, MultipleFacts, 0 \in Nat DEF LastSample
<1>4. Parity1(0) = 0
  <2>1. Cardinality(Ones(src_pulses, 1, 0)) = 0
    BY OnesFinite, 1 > 0
  <2> QED
    BY <2>1 DEF Parity1
<1>5. dest_pulses = {s \in 1..Len(src_pulses) : sampled(s) /\ Odd(s)}
  BY <1>1, <1>2
<1>6. /\ IsFiniteSet(dest_pulses)
      /\ delivered = Cardinality(dest_pulses) /\ delivered % 2 = 0
  BY <1>1, FS_EmptySet
<1> QED
  BY <1>1, <1>2, <1>3, <1>4, <1>5, <1>6 DEF ToggleInv

LEMMA ToggleInductive == ToggleInv /\ [ToggleNext]_toggleVars => ToggleInv'
<1> SUFFICES ASSUME ToggleInv, [ToggleNext]_toggleVars PROVE ToggleInv'
  OBVIOUS
<1>1. CASE UNCHANGED toggleVars
  BY <1>1 DEF ToggleInv, LastSample, Parity1, Odd, sampled, toggleVars
<1>2. ASSUME NEW event \in {0, 1}, SourceClock(event) PROVE ToggleInv'
  <2>a. dest_div \in Nat \ {0} /\ Len(src_pulses) \in Nat
    BY DEF ToggleInv
  <2>b. PICK now \in Nat : now = Len(src_pulses)
    BY <2>a
  <2>c. PICK last : last = LastMultiple(dest_div, now)
    OBVIOUS
  <2> DEFINE tick == now + 1
             pulse == sampled(tick) /\ source_toggle' # sampled_toggle
  <2>1. /\ now = Len(src_pulses) /\ last = LastMultiple(dest_div, now)
        /\ dest_div \in Nat \ {0} /\ clocks \in Nat /\ src_pulses \in Seq({0, 1})
        /\ now \in Nat /\ tick <= clocks /\ tick \in Nat
        /\ source_toggle = Parity1(now) /\ sampled_toggle = Parity1(last)
        /\ delivered \in Nat
    BY <1>2, <2>b, <2>c, FS_CardinalityType DEF ToggleInv, SourceClock, LastSample
  <2>2. /\ dest_div' = dest_div /\ clocks' = clocks
        /\ src_pulses' = Append(src_pulses, event)
        /\ source_toggle' = (source_toggle + event) % 2
    BY <1>2 DEF SourceClock
  <2>3. /\ src_pulses' \in Seq({0, 1}) /\ Len(src_pulses') = tick
        /\ src_pulses'[tick] = event
    BY <2>1, <2>2, AppendFacts
  <2>4. last \in 0..now
    BY <2>1, MultipleFacts
  <2>5. \A to \in 0..now : Parity1(to)' = Parity1(to)
    <3> SUFFICES ASSUME NEW to \in 0..now
                 PROVE  Ones(src_pulses', 1, to) = Ones(src_pulses, 1, to)
      BY DEF Parity1
    <3> QED
      BY <2>1, <2>2, OnesBefore, 1 \in Int, to \in Int, 1 >= 1, to <= now
  <2>6. source_toggle' = Parity1(tick)'
    <3>1. /\ Cardinality(Ones(src_pulses', 1, tick))
                = Cardinality(Ones(src_pulses', 1, now))
                      + Cardinality(Ones(src_pulses', tick, tick))
          /\ Cardinality(Ones(src_pulses', 1, now)) \in Nat
      <4>1. 1 <= now + 1 /\ now <= tick /\ now \in Int /\ tick \in Int /\ 1 \in Int
        BY <2>1
      <4>2. Cardinality(Ones(src_pulses', 1, now)) \in Nat
        BY <4>1, OnesFinite
      <4> HIDE DEF tick
      <4>3. Cardinality(Ones(src_pulses', 1, tick))
                = Cardinality(Ones(src_pulses', 1, now))
                      + Cardinality(Ones(src_pulses', now + 1, tick))
        BY <4>1, OnesSplit
      <4> QED
        BY <4>2, <4>3 DEF tick
    <3>2. Cardinality(Ones(src_pulses', tick, tick)) = event
      BY <2>3, <2>1, OnesOfOne
    <3>3. source_toggle = Cardinality(Ones(src_pulses', 1, now)) % 2
      BY <2>1, <2>5 DEF Parity1
    <3>4. Cardinality(Ones(src_pulses', 1, tick)) % 2
             = ((Cardinality(Ones(src_pulses', 1, now)) % 2) + event) % 2
      BY <3>1, <3>2, Parity, event \in Nat
    <3> QED
      BY <3>3, <3>4, <2>2 DEF Parity1
  <2>7. Odd(tick)' <=> source_toggle' # sampled_toggle
    <3> DEFINE a == Cardinality(Ones(src_pulses', 1, last))
               b == Cardinality(Ones(src_pulses', last + 1, tick))
    <3>1. /\ Cardinality(Ones(src_pulses', 1, tick)) = a + b /\ a \in Nat /\ b \in Nat
      BY <2>1, <2>4, OnesSplit, OnesFinite, 1 <= last + 1, last <= tick,
         last \in Int, last + 1 \in Int
    <3>2. sampled_toggle = a % 2
      BY <2>1, <2>4, <2>5 DEF Parity1
    <3>3. source_toggle' = (a + b) % 2
      BY <2>6, <3>1 DEF Parity1
    <3>4. Odd(tick)' <=> b % 2 = 1
      <4>1. tick - 1 = now
        BY <2>1
      <4> QED
        BY <4>1, <2>1, <2>2 DEF Odd
    <3> HIDE DEF a, b
    <3> QED
      BY <3>1, <3>2, <3>3, <3>4, Parity
  <2>8. sampled(tick)' <=> sampled(tick)
    BY <2>2 DEF sampled
  <2>9. \A s \in 1..now : (sampled(s)' <=> sampled(s)) /\ (Odd(s)' <=> Odd(s))
    <3> SUFFICES ASSUME NEW s \in 1..now
                 PROVE  (sampled(s)' <=> sampled(s)) /\ (Odd(s)' <=> Odd(s))
      OBVIOUS
    <3> DEFINE l == LastMultiple(dest_div, s - 1)
    <3>1. l \in Int /\ l >= 0
      <4>1. s - 1 \in Nat
        BY <2>1
      <4>2. l \in 0..(s - 1)
        BY <4>1, <2>1, MultipleFacts
      <4> QED
        BY <4>1, <4>2
    <3>2. Ones(src_pulses', l + 1, s) = Ones(src_pulses, l + 1, s)
      BY <3>1, <2>1, <2>2, OnesBefore, l + 1 \in Int, s \in Int, l + 1 >= 1, s <= now
    <3> QED
      BY <3>2, <2>2 DEF sampled, Odd
  <2>10. dest_pulses' = {s \in 1..tick : sampled(s)' /\ Odd(s)'}
    <3>1. dest_pulses' = IF pulse THEN dest_pulses \cup {tick} ELSE dest_pulses
      BY <1>2, <2>1 DEF SourceClock
    <3>2. dest_pulses = {s \in 1..now : sampled(s) /\ Odd(s)}
      BY <2>1 DEF ToggleInv
    <3>3. pulse <=> sampled(tick)' /\ Odd(tick)'
      BY <2>7, <2>8
    <3>4. \A s : s \in 1..tick <=> s \in 1..now \/ s = tick
      BY <2>1
    <3> HIDE DEF pulse, tick
    <3> QED
      BY <3>1, <3>2, <3>3, <3>4, <2>9
  <2>11. /\ IsFiniteSet(dest_pulses') /\ delivered' = Cardinality(dest_pulses')
         /\ delivered' = IF pulse THEN delivered + 1 ELSE delivered
         /\ sampled_toggle' = IF pulse THEN source_toggle' ELSE sampled_toggle
    <3>1. /\ dest_pulses' = IF pulse THEN dest_pulses \cup {tick} ELSE dest_pulses
          /\ delivered' = IF pulse THEN delivered + 1 ELSE delivered
          /\ sampled_toggle' = IF pulse THEN source_toggle' ELSE sampled_toggle
      BY <1>2, <2>1 DEF SourceClock
    <3>2. /\ IsFiniteSet(dest_pulses) /\ delivered = Cardinality(dest_pulses)
          /\ tick \notin dest_pulses
      BY <2>1 DEF ToggleInv
    <3> QED
      BY <3>1, <3>2, FS_AddElement
  <2>12. sampled_toggle' = Parity1(LastSample)'
    <3>1. CASE sampled(tick)
      <4>1. LastSample' = tick
        <5>1. CASE tick = clocks
          BY <5>1, <2>2, <2>3 DEF LastSample
        <5>2. CASE tick # clocks /\ tick % dest_div = 0
          BY <5>2, <2>1, <2>2, <2>3, MultipleFacts DEF LastSample
        <5> QED
          BY <5>1, <5>2, <3>1 DEF sampled
      <4>2. sampled_toggle' = source_toggle'
        BY <2>11, <3>1
      <4> QED
        BY <4>1, <4>2, <2>6
    <3>2. CASE ~sampled(tick)
      <4>1. tick # clocks /\ tick % dest_div # 0
        BY <3>2 DEF sampled
      <4>2. LastSample' = last
        BY <4>1, <2>1, <2>2, <2>3, MultipleStays DEF LastSample
      <4>3. sampled_toggle' = sampled_toggle
        BY <2>11, <3>2
      <4> QED
        BY <4>2, <4>3, <2>1, <2>4, <2>5
    <3> QED
      BY <3>1, <3>2
  <2>13. delivered' % 2 = sampled_toggle'
    <3>1. delivered % 2 = sampled_toggle
      BY DEF ToggleInv
    <3>2. source_toggle' \in {0, 1}
      <4>1. Cardinality(Ones(src_pulses', 1, tick)) \in Nat
        BY <2>1, OnesFinite
      <4> QED
        BY <4>1, <2>6, Parity DEF Parity1
    <3>3. CASE pulse
      <4>1. (delivered + 1) % 2 # delivered % 2 /\ (delivered + 1) % 2 \in {0, 1}
            /\ delivered % 2 \in {0, 1}
        BY <2>1, SMT
      <4> QED
        BY <4>1, <3>1, <3>2, <3>3, <2>11
    <3>4. CASE ~pulse
      BY <3>1, <3>4, <2>11
    <3> QED
      BY <3>3, <3>4
  <2> QED
    BY <2>1, <2>2, <2>3, <2>6, <2>10, <2>11, <2>12, <2>13 DEF ToggleInv
<1> QED
  BY <1>1, <1>2 DEF ToggleNext

(* Whatever the clocks' ratio, a sample pulses exactly if an odd number of *)
(* events came since the one before, and a run that is over has delivered  *)
(* its events modulo two, the last, shorter period included.               *)
THEOREM ParityGetsThrough == ToggleSpec => []ParityDelivered
<1>1. ToggleInv => ParityDelivered
  <2> SUFFICES ASSUME ToggleInv PROVE ParityDelivered
    OBVIOUS
  <2>1. dest_pulses = {s \in 1..Len(src_pulses) :
                          /\ s % dest_div = 0 \/ s = clocks
                          /\ Events(Previous(s) + 1, s) % 2 = 1}
    BY EventsAreOnes DEF ToggleInv, sampled, Odd
  <2>2. Len(src_pulses) = clocks
           => delivered % 2 = Events(1, Len(src_pulses)) % 2
    BY EventsAreOnes DEF ToggleInv, LastSample, Parity1
  <2> QED
    BY <2>1, <2>2 DEF ParityDelivered, ToggleInv
<1> QED
  BY <1>1, ToggleInitially, ToggleInductive, PTL DEF ToggleSpec

------------------------------------------------------------------------------
(* The backlog is the worst excess of an interval that ends now, and the   *)
(* peak that of any interval.                                              *)
BacklogInv ==
    /\ net \in Seq(Int) /\ net # <<>> /\ backlog \in Nat /\ peak \in Int
    /\ \A from \in 1..Len(net) : net[Len(net)] - net[from] <= backlog
    /\ \E from \in 1..Len(net) : net[Len(net)] - net[from] = backlog
    /\ PeakIsWorstInterval

LEMMA BacklogInitially == BacklogInit => BacklogInv
<1> SUFFICES ASSUME BacklogInit PROVE BacklogInv
  OBVIOUS
<1>1. net = <<0>> /\ backlog = 0 /\ peak = 0 /\ Len(net) = 1 /\ net[1] = 0
  BY DEF BacklogInit
<1>2. net \in Seq(Int) /\ net # <<>>
  BY DEF BacklogInit
<1>3. 1..Len(net) = {1}
  BY <1>1
<1> QED
  BY <1>1, <1>2, <1>3 DEF BacklogInv, PeakIsWorstInterval

LEMMA BacklogInductive == BacklogInv /\ [BacklogNext]_backlogVars => BacklogInv'
<1> SUFFICES ASSUME BacklogInv, [BacklogNext]_backlogVars PROVE BacklogInv'
  OBVIOUS
<1>1. CASE UNCHANGED backlogVars
  BY <1>1 DEF BacklogInv, PeakIsWorstInterval, backlogVars
<1>2. ASSUME NEW write \in 0..2, NEW read \in 0..2, BacklogTick(write, read)
      PROVE  BacklogInv'
  <2> DEFINE len == Len(net)
             change == write - read
  <2>0. /\ net \in Seq(Int) /\ len \in Nat \ {0} /\ backlog \in Nat
        /\ peak \in Int /\ change \in Int /\ net[len] \in Int
    BY DEF BacklogInv
  <2>1. CASE ~({write, read} \subseteq {0, 1})
    BY <1>2, <2>1 DEF BacklogInv, BacklogTick, PeakIsWorstInterval
  <2>2. CASE {write, read} \subseteq {0, 1}
    <3>1. /\ net' = Append(net, net[len] + write - read)
          /\ backlog' = clamped(backlog + write - read)
          /\ peak' = IF backlog' > peak THEN backlog' ELSE peak
          /\ peak >= 0
      BY <1>2, <2>2 DEF BacklogTick
    <3>2. net[len] + write - read = net[len] + change /\ net[len] + change \in Int
      BY <2>0
    <3>3. /\ net' \in Seq(Int) /\ net' # <<>> /\ Len(net') = len + 1
          /\ net'[len + 1] = net[len] + change
          /\ \A k \in 1..len : net'[k] = net[k] /\ net[k] \in Int
      BY <2>0, <3>1, <3>2, AppendFacts
    <3>4. /\ backlog' \in Nat /\ backlog' >= backlog + change
          /\ backlog' = 0 \/ backlog' = backlog + change
      BY <2>0, <3>1 DEF clamped
    <3>5. peak' \in Nat /\ peak' >= backlog' /\ peak' >= peak
          /\ (peak' = backlog' \/ peak' = peak)
      BY <2>0, <3>1, <3>4
    <3> HIDE DEF change, len
    <3>6. \A from \in 1..len : net[len] - net[from] <= backlog
      BY DEF BacklogInv, len
    <3>7. PICK low \in 1..len : net[len] - net[low] = backlog
      BY DEF BacklogInv, len
    <3>8. /\ \A from, to \in 1..len : from <= to => net[to] - net[from] <= peak
          /\ \E from, to \in 1..len : from <= to /\ net[to] - net[from] = peak
      BY <3>1 DEF BacklogInv, PeakIsWorstInterval, len
    <3>9. \A from \in 1..(len + 1) : net'[len + 1] - net'[from] <= backlog'
      <4> SUFFICES ASSUME NEW from \in 1..(len + 1)
                   PROVE  net'[len + 1] - net'[from] <= backlog'
        OBVIOUS
      <4>1. CASE from = len + 1
        BY <4>1, <2>0, <3>3, <3>4
      <4>2. CASE from \in 1..len
        <5>1. net[len] - net[from] <= backlog
          BY <4>2, <3>6
        <5>2. net'[from] = net[from] /\ net[from] \in Int
          BY <4>2, <3>3
        <5>3. /\ net'[len + 1] = net[len] + change /\ net[len] \in Int
              /\ change \in Int /\ backlog \in Int
          BY <2>0, <3>3
        <5> QED
          BY <5>1, <5>2, <5>3, <3>4
      <4>3. from = len + 1 \/ from \in 1..len
        BY <2>0
      <4> QED
        BY <4>1, <4>2, <4>3
    <3>10. \E from \in 1..(len + 1) : net'[len + 1] - net'[from] = backlog'
      <4>1. CASE backlog' = 0
        BY <4>1, <2>0, <3>3, len + 1 \in 1..(len + 1)
      <4>2. CASE backlog' = backlog + change
        <5>1. net'[low] = net[low] /\ net[low] \in Int
          BY <3>3
        <5>2. /\ net'[len + 1] = net[len] + change /\ net[len] - net[low] = backlog
              /\ net[len] \in Int /\ change \in Int /\ backlog \in Int
          BY <2>0, <3>3, <3>7
        <5>3. net'[len + 1] - net'[low] = backlog'
          BY <5>1, <5>2, <4>2
        <5> QED
          BY <5>3, <2>0
      <4> QED
        BY <4>1, <4>2, <3>4
    <3>11. \A from, to \in 1..(len + 1) : from <= to => net'[to] - net'[from] <= peak'
      <4> SUFFICES ASSUME NEW from \in 1..(len + 1), NEW to \in 1..(len + 1), from <= to
                   PROVE  net'[to] - net'[from] <= peak'
        OBVIOUS
      <4>1. net'[from] \in Int /\ net'[to] \in Int
        BY <3>3, <2>0
      <4>2. CASE to = len + 1
        <5>1. net'[to] - net'[from] <= backlog'
          BY <4>2, <3>9
        <5> QED
          BY <5>1, <4>1, <3>4, <3>5
      <4>3. CASE to \in 1..len
        <5>1. from \in 1..len
          BY <4>3, <2>0
        <5>2. /\ net[to] - net[from] <= peak
              /\ net'[to] = net[to] /\ net'[from] = net[from]
          BY <5>1, <4>3, <3>8, <3>3
        <5> QED
          BY <5>2, <4>1, <2>0, <3>5
      <4> QED
        BY <4>2, <4>3, <2>0
    <3>12. \E from, to \in 1..(len + 1) : from <= to /\ net'[to] - net'[from] = peak'
      <4>1. CASE peak' = backlog'
        <5>1. PICK from \in 1..(len + 1) : net'[len + 1] - net'[from] = backlog'
          BY <3>10
        <5>2. len + 1 \in 1..(len + 1) /\ from <= len + 1
          BY <2>0
        <5> QED
          BY <5>1, <5>2, <4>1
      <4>2. CASE peak' = peak
        <5>1. PICK from, to \in 1..len : from <= to /\ net[to] - net[from] = peak
          BY <3>8
        <5>2. from \in 1..(len + 1) /\ to \in 1..(len + 1)
          BY <2>0
        <5>3. net'[to] - net'[from] = peak'
          BY <5>1, <4>2, <3>3
        <5> QED
          BY <5>1, <5>2, <5>3
      <4> QED
        BY <4>1, <4>2, <3>5
    <3>13. peak' \in Int
      BY <3>5
    <3> QED
      BY <3>3, <3>4, <3>9, <3>10, <3>11, <3>12, <3>13
      DEF BacklogInv, PeakIsWorstInterval
  <2> QED
    BY <2>1, <2>2
<1> QED
  BY <1>1, <1>2 DEF BacklogNext

(* For any schedule, the depth returned is the largest excess of writes    *)
(* over reads in any interval of it.                                       *)
THEOREM WorstInterval == BacklogSpec => []PeakIsWorstInterval
<1>1. BacklogInv => PeakIsWorstInterval
  BY DEF BacklogInv
<1> QED
  BY <1>1, BacklogInitially, BacklogInductive, PTL DEF BacklogSpec
==============================================================================
