CONSTANTS
    Divisors = {2, 4, 6, 8}
    NDomains = 3
    STG_NUM = 4
    Budgets = {0, 1, 2}
    MaxFailures = 3
    Tries = {0, 2, 3, 4, 5, 10}
    MaxRequests = 3
    RecoveryValues = 8
    Running = {"mux", "divider", "reset", "ladder", "poll", "pm", "link"}
SPECIFICATION FairSpec
INVARIANTS
    DividesByN
    ReleasedInOrder
    LadderSound
    PollVerdictExact
    ControlAsWritten
    ConfiguredBeforeUse
PROPERTIES
    NoRunt
    RestsWithoutRequests
CHECK_DEADLOCK FALSE
