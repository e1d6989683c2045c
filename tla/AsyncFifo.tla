------------------------------ MODULE AsyncFifo ------------------------------
(***************************************************************************)
(* The dual-clock FIFO of src/solutions/s04_async_fifo.c.  Each side owns  *)
(* a binary pointer that runs over two laps of the memory, and learns of   *)
(* the other side's pointer through a Gray-coded copy that takes two of    *)
(* its own clock edges to arrive.                                          *)
(*                                                                         *)
(* An action is one call of the code's interface: fifo_write, fifo_read    *)
(* and the two clock edges come in any order, as the clocks are unrelated. *)
(* A call that the code refuses returns -1 and changes nothing.            *)
(***************************************************************************)
EXTENDS Integers, Sequences

CONSTANTS Depths,    (* depths a FIFO may be created with, valid or not    *)
          Writes     (* bound: how many values are written                 *)

ASSUME AsyncFifoAssumption == Depths \subseteq Int /\ Writes \in Nat

VARIABLES
    depth,                     (* fixed when the FIFO is created           *)
    mem, wptr, rptr,
    write_sync1, write_sync2,  (* Gray wptr on its way to the read side    *)
    read_sync1, read_sync2,    (* Gray rptr on its way to the write side   *)
    sent, received,            (* values accepted and handed out so far    *)
    writesSeen, readsSeen      (* Len(sent), Len(received) when the value  *)
                               (* now in sync1 (1) and sync2 (2) was taken *)

writeSide == <<wptr, read_sync1, read_sync2, readsSeen>>
readSide  == <<rptr, write_sync1, write_sync2, writesSeen>>
history   == <<sent, received>>
vars == <<depth, mem, writeSide, readSide, history>>

(* Bits of a pointer.  The deepest FIFO, 256, has pointers of nine bits.   *)
Bits == 0..8
Bit(value, i) == (value \div 2^i) % 2

(* A plain binary copy, in which a step changes many bits (mutated form).  *)
bin_to_bin(value) == [i \in Bits |-> Bit(value, i)]
bin_to_gray(value) == [i \in Bits |-> (Bit(value, i) + Bit(value, i + 1)) % 2]

(* Depth 2..256 with depth & (depth - 1) = 0.                              *)
valid_depth(d) == d \in {2^k : k \in 1..8}

(* Bit address_bits, the largest power of two in the depth, and the one    *)
(* below it: where the Gray codes of pointers one lap apart differ.        *)
top_bit_only(d) == {i \in Bits : 2^i <= d /\ d < 2^(i + 1)}   (* mutated   *)
no_mask(d) == {}                                      (* mutated           *)
wrap_mask(d) == {i \in Bits : 2^i <= d /\ d < 2^(i + 2)}

Flip(code, mask) == [i \in Bits |-> IF i \in mask THEN 1 - code[i] ELSE code[i]]

early_fifo_empty == valid_depth(depth) /\ write_sync1 = bin_to_gray(rptr)
fifo_empty == valid_depth(depth) /\ write_sync2 = bin_to_gray(rptr)

fifo_full ==
    /\ valid_depth(depth)
    /\ bin_to_gray(wptr) = Flip(read_sync2, wrap_mask(depth))

------------------------------------------------------------------------------
(* A zeroed afifo_t with its depth: both sides are reset together.         *)
Init ==
    /\ depth \in Depths
    /\ mem = [a \in 0..255 |-> 0]
    /\ wptr = 0 /\ rptr = 0
    /\ write_sync1 = bin_to_gray(0) /\ write_sync2 = bin_to_gray(0)
    /\ read_sync1 = bin_to_gray(0) /\ read_sync2 = bin_to_gray(0)
    /\ sent = <<>> /\ received = <<>>
    /\ writesSeen = <<0, 0>> /\ readsSeen = <<0, 0>>

next_pointer(p) == (p + 1) % (2 * depth)

(* The values written are numbered from 1, apart from the zeroed memory.   *)
fifo_write ==
    /\ Len(sent) < Writes
    /\ valid_depth(depth) /\ ~fifo_full
    /\ mem' = [mem EXCEPT ![wptr % depth] = Len(sent) + 1]
    /\ wptr' = next_pointer(wptr)
    /\ sent' = Append(sent, Len(sent) + 1)
    /\ UNCHANGED <<depth, read_sync1, read_sync2, readsSeen, readSide, received>>

fifo_read ==
    /\ valid_depth(depth) /\ ~fifo_empty
    /\ received' = Append(received, mem[rptr % depth])
    /\ rptr' = next_pointer(rptr)
    /\ UNCHANGED <<depth, mem, write_sync1, write_sync2, writesSeen, writeSide,
                   sent>>

write_clock ==
    /\ read_sync2' = read_sync1
    /\ read_sync1' = bin_to_gray(rptr)
    /\ readsSeen' = <<Len(received), readsSeen[1]>>
    /\ UNCHANGED <<depth, mem, wptr, readSide, history>>

read_clock ==
    /\ write_sync2' = write_sync1
    /\ write_sync1' = bin_to_gray(wptr)
    /\ writesSeen' = <<Len(sent), writesSeen[1]>>
    /\ UNCHANGED <<depth, mem, rptr, writeSide, history>>

Next == fifo_write \/ fifo_read \/ write_clock \/ read_clock

Spec == Init /\ [][Next]_vars

(* Both clocks run for ever, and both sides keep asking.                   *)
FairSpec ==
    /\ Spec
    /\ WF_vars(fifo_write) /\ WF_vars(fifo_read)
    /\ WF_vars(write_clock) /\ WF_vars(read_clock)

------------------------------------------------------------------------------
Codes == [Bits -> 0..1]

TypeOK ==
    /\ depth \in Depths
    /\ mem \in [0..255 -> Nat]
    /\ {wptr, rptr} \subseteq {0} \union 0..(2 * depth - 1)
    /\ {write_sync1, write_sync2, read_sync1, read_sync2} \subseteq Codes
    /\ sent \in Seq(Nat) /\ received \in Seq(Nat)
    /\ writesSeen \in Nat \X Nat /\ readsSeen \in Nat \X Nat

(* The flags lag by exactly the synchroniser and never lie: the writer sees*)
(* full iff Depth values were inside counting the reads of two write edges *)
(* ago, the reader sees empty iff everything written up to two read edges  *)
(* ago has been read.  (fifo_empty 16-18, fifo_full 30-36)                 *)
FlagsLagExactly ==
    valid_depth(depth) =>
        /\ fifo_full <=> Len(sent) - readsSeen[2] = depth
        /\ fifo_empty <=> writesSeen[2] = Len(received)

(* What crosses between the clocks changes in one bit at a time, over every*)
(* step of either pointer, the wrap from the second lap to the first       *)
(* included, so a sampling edge can only see the old or the new pointer.   *)
(* main, line 92, asserts this of the one step 7 -> 8.                     *)
DifferingBits(a, b) == {i \in Bits : a[i] # b[i]}
AtMostOne(set) == \A x, y \in set : x = y
OneBitSteps ==
    [][/\ AtMostOne(DifferingBits(bin_to_gray(wptr), bin_to_gray(wptr')))
       /\ AtMostOne(DifferingBits(bin_to_gray(rptr), bin_to_gray(rptr')))]_vars

(* Neither flag stays asserted for ever: a FIFO of a valid depth takes and *)
(* hands out every value, a full memory and an empty one included.         *)
AllDelivered == <>(valid_depth(depth) => Len(received) = Writes)

(* The FIFO is a queue that holds at most depth values.                    *)
Fifo == INSTANCE BoundedFifo WITH Items <- 1..Writes, capacity <- depth
ImplementsFifo == Fifo!FairSpec
==============================================================================
