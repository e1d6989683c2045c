------------------------------ MODULE TlbIommu ------------------------------
(***************************************************************************)
(* src/solutions/s13_tlb_iommu.c: the translation cache of the processor,  *)
(* replaced first in first out, and the two-level tables of the IOMMU.     *)
(* They share no state.  Addresses are page numbers: the offset within a   *)
(* page passes through both unchanged.  The driver that edits the IOMMU's  *)
(* tables between requests is external.                                    *)
(***************************************************************************)
EXTENDS Integers, Sequences

CONSTANTS
    TLB_ENTRIES,    (* 4                                                   *)
    Pages,          (* pages translated                                    *)
    Frames, Factor, (* page frames: 2^20; multiplier: 2654435761           *)
    MaxMisses,      (* bound: misses between two flushes                   *)
    IO_L1_ENTRIES, IO_L2_ENTRIES,   (* 16 and 256                          *)
    Pfns            (* frames the driver maps                              *)

ASSUME TlbAssumption ==
    /\ TLB_ENTRIES \in Nat \ {0} /\ Frames \in Nat \ {0} /\ Factor \in Nat
    /\ Pages \subseteq Nat /\ MaxMisses \in Nat
    /\ IO_L1_ENTRIES \in Nat \ {0} /\ IO_L2_ENTRIES \in Nat \ {0}

VARIABLES
    tlb, evict_next,    (* the cache                                       *)
    missed,             (* pages missed since the last flush, in order     *)
    answer,             (* of the last call of translate: page and frame   *)
    pd, pt,             (* the IOMMU's directories and their tables        *)
    pa, fault, granted, (* what its last translation left behind           *)
    request,            (* its last request                                *)
    mapped              (* for the properties: the driver's idea of a flat *)
                        (* table, with the pages it has mapped             *)

tlbVars   == <<tlb, evict_next, missed, answer>>
iommuVars == <<pd, pt, pa, fault, granted, request, mapped>>

Slots == 0..(TLB_ENTRIES - 1)
None == [page |-> -1]

TlbInit ==
    /\ tlb = [i \in Slots |-> [vpn |-> 0, pfn |-> 0, valid |-> FALSE]]
    /\ evict_next = 0 /\ missed = <<>> /\ answer = None

walk(vpn) == (vpn * Factor) % Frames

page_only(i, vpn) == tlb[i].vpn = vpn                  (* mutated matches  *)
matches(i, vpn) == tlb[i].valid /\ tlb[i].vpn = vpn

translate_hit(vpn) ==
    \E i \in Slots :
        /\ matches(i, vpn) /\ \A j \in Slots : j < i => ~matches(j, vpn)
        /\ answer' = [page |-> vpn, frame |-> tlb[i].pfn]
        /\ UNCHANGED <<tlb, evict_next, missed>>

translate_miss(vpn) ==
    /\ \A i \in Slots : ~matches(i, vpn)
    /\ Len(missed) < MaxMisses
    /\ missed' = Append(missed, vpn)
    /\ tlb' = [tlb EXCEPT ![evict_next] =
                 [vpn |-> vpn, pfn |-> walk(vpn), valid |-> TRUE]]
    /\ evict_next' = (evict_next + 1) % TLB_ENTRIES
    /\ answer' = [page |-> vpn, frame |-> walk(vpn)]

(* As main empties the cache: the entries keep what they held.             *)
Flush ==
    /\ tlb' = [i \in Slots |-> [tlb[i] EXCEPT !.valid = FALSE]]
    /\ evict_next' = 0 /\ missed' = <<>> /\ answer' = None

TlbNext == Flush \/ \E vpn \in Pages : translate_hit(vpn) \/ translate_miss(vpn)
TlbSpec == TlbInit /\ [][TlbNext]_tlbVars

(* After any accesses and flushes the cache holds the pages of the last    *)
(* TLB_ENTRIES misses, none of them twice, each with the frame a walk      *)
(* gives, and every answer came from an entry held.  (translate, 19-29)    *)
HoldsLastMisses ==
    LET held   == {i \in Slots : tlb[i].valid}
        recent == {k \in 1..Len(missed) : k > Len(missed) - TLB_ENTRIES}
    IN  /\ {tlb[i].vpn : i \in held} = {missed[k] : k \in recent}
        /\ \A i, j \in held : i # j => tlb[i].vpn # tlb[j].vpn
        /\ \A i \in held : tlb[i].pfn = walk(tlb[i].vpn)
        /\ answer # None => \E i \in held : /\ tlb[i].vpn = answer.page
                                            /\ tlb[i].pfn = answer.frame

------------------------------------------------------------------------------
L1 == 0..(IO_L1_ENTRIES - 1)
L2 == 0..(IO_L2_ENTRIES - 1)
InRange == 0..(IO_L1_ENTRIES * IO_L2_ENTRIES - 1)

Pte(pfn, present, writable) ==
    [pfn |-> pfn, present |-> present, writable |-> writable]
Unmapped == Pte(0, FALSE, FALSE)
PtesWritten == {Pte(pfn, TRUE, writable) : pfn \in Pfns, writable \in BOOLEAN}
                   \union {Unmapped}

IommuInit ==
    /\ pd = [i \in L1 |-> "null"]
    /\ pt = [i \in L1 |-> [j \in L2 |-> Unmapped]]
    /\ pa = -1 /\ fault = "none" /\ granted = FALSE /\ request = None
    /\ mapped = [page \in {} |-> Unmapped]

from_bottom(page) == page % IO_L1_ENTRIES               (* mutated l1      *)
l1(page) == (page \div IO_L2_ENTRIES) % IO_L1_ENTRIES
l2(page) == page % IO_L2_ENTRIES

Refuse(reason) == granted' = FALSE /\ fault' = reason /\ pa' = pa

iommu_translate(page, write) ==
    LET pte == pt[l1(page)][l2(page)]
    IN  /\ request' = [page |-> page, write |-> write]
        /\ IF page \notin InRange THEN Refuse("IOVA outside 24-bit model")
           ELSE IF pd[l1(page)] # "present" THEN Refuse("L1 not present")
           ELSE IF ~pte.present THEN Refuse("L2 not present")
           ELSE IF write /\ ~pte.writable THEN Refuse("write to read-only page")
           ELSE granted' = TRUE /\ fault' = "none" /\ pa' = pte.pfn
        /\ UNCHANGED <<pd, pt, mapped>>

(* The driver attaches an empty directory, or takes one away, in two ways. *)
Beneath(i) == {page \in InRange : page \div IO_L2_ENTRIES = i}
SetDirectory(i, to) ==
    /\ pd[i] # to
    /\ pd' = [pd EXCEPT ![i] = to]
    /\ pt' = [pt EXCEPT ![i] = [j \in L2 |-> Unmapped]]
    /\ mapped' = [page \in DOMAIN mapped \ Beneath(i) |-> mapped[page]]
    /\ request' = None /\ UNCHANGED <<pa, fault, granted>>

(* It maps a page, changes its rights or its frame, or takes it away.      *)
SetPage(page, pte) ==
    LET i == page \div IO_L2_ENTRIES
    IN  /\ pd[i] = "present"
        /\ pt' = [pt EXCEPT ![i][page % IO_L2_ENTRIES] = pte]
        /\ mapped' = [p \in (DOMAIN mapped \ {page})
                              \union (IF pte.present THEN {page} ELSE {}) |->
                        IF p = page THEN pte ELSE mapped[p]]
        /\ request' = None /\ UNCHANGED <<pd, pa, fault, granted>>

IommuNext ==
    \/ \E page \in 0..(IO_L1_ENTRIES * IO_L2_ENTRIES), write \in BOOLEAN :
            iommu_translate(page, write)
    \/ \E i \in L1, to \in {"null", "absent", "present"} : SetDirectory(i, to)
    \/ \E page \in InRange : \E pte \in PtesWritten : SetPage(page, pte)

IommuSpec == IommuInit /\ [][IommuNext]_iommuVars

AnsweredByFlatTable ==
    LET page == request'.page
        may  == page \in DOMAIN mapped /\ (request'.write => mapped[page].writable)
    IN  /\ granted' = may
        /\ pa' = IF may THEN mapped[page].pfn ELSE pa
        /\ fault' = IF may THEN "none"
                    ELSE IF page \notin InRange THEN "IOVA outside 24-bit model"
                    ELSE IF page \in DOMAIN mapped THEN "write to read-only page"
                    ELSE IF pd[page \div IO_L2_ENTRIES] = "present"
                           THEN "L2 not present" ELSE "L1 not present"

(* Two levels of tables answer as one flat table would: a request is       *)
(* granted exactly if its page is mapped at the time with the right asked  *)
(* for, with the frame mapped last; otherwise it names the first level     *)
(* that failed and the caller's address is as it was.                      *)
(* (iommu_translate, lines 31-46)                                          *)
AnswersAsFlatTable == [][request' # None => AnsweredByFlatTable]_iommuVars
==============================================================================
