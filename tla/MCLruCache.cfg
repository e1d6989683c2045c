\* The clock does not wrap within the accesses made.
CONSTANTS
    SETS = 2
    WAYS = 3
    W = 16
    Lines <- MCLines
    Accesses = 7
SPECIFICATION Spec
INVARIANTS
    HoldsMostRecentlyUsed
