CONSTANTS
    Depths <- MCDepths
    Writes = 17
SPECIFICATION FairSpec
INVARIANTS
    FlagsLagExactly
PROPERTIES
    OneBitSteps
    AllDelivered
    ImplementsFifo
