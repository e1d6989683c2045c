------------------------------ MODULE MCMemory ------------------------------
(***************************************************************************)
(* Address translation, lists and memory copies.  As in MCBringup a        *)
(* behaviour runs one of the programs.                                     *)
(***************************************************************************)
EXTENDS TlbIommu, ReverseList, CycleDetect, MemCopy

VARIABLE running

vars == <<running, tlbVars, iommuVars, listVars, cycleVars, memVars>>

(* A program that does not run is past its end, or not begun.              *)
Init ==
    /\ running \in {"tlb", "iommu", "list", "cycle", "copy"}
    /\ TlbInit /\ IommuInit /\ ListInit
    /\ IF running = "cycle" THEN CycleInit
       ELSE /\ nextNode = [node \in Nodes |-> NoNode] /\ first = NoNode
            /\ slow = NoNode /\ fast = NoNode /\ found = "none" /\ turns = 0
    /\ MemInit /\ (running # "copy" => copier = "my_memmove" /\ dst = 0
                                           /\ src = 0 /\ size = 0)

Only(name, others) == running = name /\ UNCHANGED <<running, others>>

Next ==
    \/ TlbNext /\ Only("tlb", <<iommuVars, listVars, cycleVars, memVars>>)
    \/ IommuNext /\ Only("iommu", <<tlbVars, listVars, cycleVars, memVars>>)
    \/ ListNext /\ Only("list", <<tlbVars, iommuVars, cycleVars, memVars>>)
    \/ CycleNext /\ Only("cycle", <<tlbVars, iommuVars, listVars, memVars>>)
    \/ MemNext /\ Only("copy", <<tlbVars, iommuVars, listVars, cycleVars>>)

FairSpec == Init /\ [][Next]_vars /\ CycleFairness
==============================================================================
