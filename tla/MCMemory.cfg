CONSTANTS
    TLB_ENTRIES = 3
    Pages = {0, 1, 2, 3, 4}
    Frames = 8
    Factor = 5
    MaxMisses = 6
    IO_L1_ENTRIES = 2
    IO_L2_ENTRIES = 2
    Pfns = {1, 2}
    Heap = {n1, n2, n3, n4}
    Null = Null
    Nodes = {c1, c2, c3, c4}
    NoNode = NoNode
    Size = 6
SPECIFICATION FairSpec
INVARIANTS
    HoldsLastMisses
    ListsReversed
    MoveIsCopy
PROPERTIES
    AnswersAsFlatTable
    CycleVerdict
CHECK_DEADLOCK FALSE
