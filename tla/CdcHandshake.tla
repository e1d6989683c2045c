---------------------------- MODULE CdcHandshake ----------------------------
(***************************************************************************)
(* handshake_xfer of src/solutions/s04_cdc_sync.c: words cross from a      *)
(* source clock to one three times slower under a two-phase request and    *)
(* acknowledge, each seen by the other side through two stages.            *)
(*                                                                         *)
(* The loop body is one source clock edge and, on every third tick, one    *)
(* destination edge after it.  The tick counter is unsigned and wraps, at  *)
(* which point the two clocks slip against each other, because the number  *)
(* of its values is not a multiple of three.                               *)
(***************************************************************************)
EXTENDS Integers, Sequences

CONSTANTS W,           (* values of handshake_ticks: 2^32                  *)
          MaxWords     (* bound: the most words of one call                *)

ASSUME CdcAssumption == W \in Nat /\ W > 2 /\ MaxWords \in Nat

VARIABLES
    n,                                     (* words to transfer            *)
    request, acknowledge,                  (* the two toggles              *)
    request_sync1, request_sync2,          (* request, seen by destination *)
    acknowledge_sync1, acknowledge_sync2,  (* acknowledge, seen by source  *)
    held_data, handshake_ticks,
    submitted, out                         (* words taken, words delivered *)

requestPath     == <<request, request_sync1, request_sync2>>
acknowledgePath == <<acknowledge, acknowledge_sync1, acknowledge_sync2>>
vars == <<n, requestPath, acknowledgePath, held_data, handshake_ticks,
          submitted, out>>

(* The words of the call are 1..n: words[k] in the code is k + 1 here, and *)
(* submitted and out are the words taken and delivered, in order.          *)
received == Len(out)
Raise(bit) == 1                                        (* mutated Toggle   *)
Toggle(bit) == 1 - bit

Init ==
    /\ n \in 0..MaxWords
    /\ request = 0 /\ request_sync1 = 0 /\ request_sync2 = 0
    /\ acknowledge = 0 /\ acknowledge_sync1 = 0 /\ acknowledge_sync2 = 0
    /\ held_data = 0 /\ handshake_ticks = 0
    /\ submitted = <<>> /\ out = <<>>

(* The condition of the loop: words to come, or the last one's acknowledge *)
(* still on its way back.                                                  *)
WordsLeft == received < n                              (* mutated Running  *)
Running == received < n \/ acknowledge_sync2 # request

(* May the source take the next word, given the acknowledge it now sees?   *)
SendUnacknowledged(seen) == Len(submitted) < n         (* mutated MaySend  *)
MaySend(seen) == seen = request /\ Len(submitted) < n

SourceEdge ==
    /\ acknowledge_sync2' = acknowledge_sync1
    /\ acknowledge_sync1' = acknowledge
    /\ IF MaySend(acknowledge_sync2')
         THEN /\ held_data' = Len(submitted) + 1
              /\ submitted' = Append(submitted, Len(submitted) + 1)
              /\ request' = Toggle(request)
         ELSE UNCHANGED <<held_data, submitted, request>>

(* The destination samples the request the source edge has just left.      *)
IsNew(seen) == seen # acknowledge

DestinationEdge ==
    /\ request_sync2' = request_sync1
    /\ request_sync1' = request'
    /\ IF IsNew(request_sync2')
         THEN out' = Append(out, held_data') /\ acknowledge' = request_sync2'
         ELSE UNCHANGED <<out, acknowledge>>

Tick ==
    /\ Running
    /\ SourceEdge
    /\ handshake_ticks' = (handshake_ticks + 1) % W
    /\ IF handshake_ticks' % 3 = 0
         THEN DestinationEdge
         ELSE UNCHANGED <<request_sync1, request_sync2, acknowledge, out>>
    /\ UNCHANGED n

Return == ~Running /\ UNCHANGED vars

Next == Tick \/ Return

Spec == Init /\ [][Next]_vars /\ WF_vars(Tick)

------------------------------------------------------------------------------
Bit == {0, 1}

TypeOK ==
    /\ n \in 0..MaxWords
    /\ {request, request_sync1, request_sync2} \subseteq Bit
    /\ {acknowledge, acknowledge_sync1, acknowledge_sync2} \subseteq Bit
    /\ held_data \in 0..n /\ handshake_ticks \in 0..(W - 1)
    /\ submitted \in Seq(1..n) /\ out \in Seq(1..n)

(* "Hold data until acknowledgment" (EXERCISES.md:76): the data word may   *)
(* change only when the destination has delivered everything submitted and *)
(* its acknowledge has come all the way back.                              *)
HeldUntilAcknowledged ==
    [][held_data' # held_data =>
          /\ Len(out) = Len(submitted)
          /\ acknowledge_sync2' = request /\ acknowledge = request]_vars

(* The two-phase protocol is at rest when the call returns: every word has *)
(* come out and all six signals agree, so nothing is still on its way.     *)
QuietOnReturn ==
    ~Running =>
        /\ received = n
        /\ \A bit \in {request_sync1, request_sync2, acknowledge,
                       acknowledge_sync1, acknowledge_sync2} : bit = request

(* Turns to the next destination edge, which a slip brings forward.        *)
UntilEdge ==
    LET gap == 3 - (handshake_ticks % 3)
    IN  IF handshake_ticks + gap < W THEN gap ELSE W - handshake_ticks

(* Turns of the loop that the level on its way still needs at most.        *)
LevelLeft ==
    CASE request_sync1 # request -> 5 + UntilEdge
      [] request_sync1 = request /\ acknowledge # request -> 2 + UntilEdge
      [] request_sync1 = request /\ acknowledge = request ->
           IF acknowledge_sync1 # request THEN 2
           ELSE IF acknowledge_sync2 # request \/ Len(submitted) < n THEN 1
           ELSE 0
TurnsLeft == 8 * (n - Len(submitted)) + LevelLeft

(* Eight turns carry a word across and back, wherever the clocks slip, and *)
(* one more begins: no turn of the loop passes without progress.           *)
NoTurnWasted ==
    /\ [](TurnsLeft \in 0..(8 * n + 1))
    /\ [][TurnsLeft' < TurnsLeft]_vars

(* The loop ends: neither clock waits for ever for the other, nor any word *)
(* for more than eight turns.  (handshake_xfer, lines 32-48)               *)
Returns == NoTurnWasted /\ <>[](~Running)

(* The crossing is a queue of one word: each word is taken only when the   *)
(* one before has come out, and comes out once, whole and in order.        *)
Fifo == INSTANCE BoundedFifo
          WITH Items <- 1..MaxWords, capacity <- 1, sent <- submitted,
               received <- out
ImplementsFifo == Fifo!FairSpec
==============================================================================
