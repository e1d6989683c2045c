CONSTANTS
    W = 16
    MaxWords = 12
SPECIFICATION Spec
INVARIANTS
    QuietOnReturn
PROPERTIES
    HeldUntilAcknowledged
    Returns
    ImplementsFifo
