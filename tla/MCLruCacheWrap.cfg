\* The clock wraps after four accesses, as the code's does after 2^32.
CONSTANTS
    SETS = 2
    WAYS = 3
    W = 4
    Lines <- MCLines
    Accesses = 7
SPECIFICATION Spec
INVARIANTS
    HoldsMostRecentlyUsed
