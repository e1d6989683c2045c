\* R slots, indices modulo W, Transfers values.
CONSTANTS
    R = 4
    W = 8
    Start <- MCStart
    Transfers = 13
SPECIFICATION FairSpec
INVARIANTS
    NoDataRace
    InOrder
PROPERTIES
    TestsAreExact
    AllDelivered
    ImplementsFifo
