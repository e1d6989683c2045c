------------------------------- MODULE MemCopy -------------------------------
(***************************************************************************)
(* my_memmove and my_memcpy of src/solutions, byte by byte within one      *)
(* array, so that source and destination may overlap.                      *)
(***************************************************************************)
EXTENDS Integers

CONSTANT Size               (* bytes of the array                          *)
ASSUME MemAssumption == Size \in Nat

VARIABLES
    copier,                 (* the function called                         *)
    dst, src, size,         (* its arguments                               *)
    left,                   (* n, as the loop counts it down               *)
    mem                     (* the array                                   *)

memVars == <<copier, dst, src, size, left, mem>>

Bytes == 0..(Size - 1)
Original == [at \in Bytes |-> at]                      (* all different    *)

(* memcpy is called for regions that do not overlap.                       *)
MemInit ==
    /\ copier \in {"my_memmove", "my_memcpy"}
    /\ dst \in Bytes /\ src \in Bytes
    /\ size \in 0..(Size - dst) \intersect 0..(Size - src)
    /\ copier = "my_memcpy" => dst + size <= src \/ src + size <= dst
    /\ left = size /\ mem = Original

CopyByte(k) ==
    /\ left > 0 /\ left' = left - 1
    /\ mem' = [mem EXCEPT ![dst + k] = mem[src + k]]
    /\ UNCHANGED <<copier, dst, src, size>>

my_memcpy == copier = "my_memcpy" /\ CopyByte(size - left)

always_forward == TRUE                                 (* mutated forward  *)
forward == dst < src

my_memmove ==
    /\ copier = "my_memmove" /\ dst # src
    /\ CopyByte(IF forward THEN size - left ELSE left - 1)

MemNext == my_memcpy \/ my_memmove
MemSpec == MemInit /\ [][MemNext]_memVars

(* However the regions overlap, a byte is still what it was until it has   *)
(* been copied, and when no byte is left the destination is the source as  *)
(* it was and nothing else has changed.  (my_memmove, lines 4-25)          *)
MoveIsCopy ==
    LET Copied(k) == IF copier = "my_memcpy" \/ forward THEN k < size - left
                                                        ELSE k >= left
    IN  /\ \A k \in 0..(size - 1) :
              /\ Copied(k) => mem[dst + k] = Original[src + k]
              /\ ~Copied(k) => mem[src + k] = Original[src + k]
        /\ \A at \in Bytes \ (dst..(dst + size - 1)) : mem[at] = Original[at]
==============================================================================
