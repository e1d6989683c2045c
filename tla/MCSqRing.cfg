CONSTANTS
    SQ_SIZE = 4
    W = 8
    Submissions = 21
SPECIFICATION FairSpec
INVARIANTS
    DoorbellNamesWritten
    RefusalsExact
PROPERTIES
    ImplementsFifo
