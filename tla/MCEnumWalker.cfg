CONSTANTS
    Inventories <- MCInventories
    MAX_NODES = 4
SPECIFICATION Spec
INVARIANTS
    FindsExactlyReachable
    BridgesFirst
