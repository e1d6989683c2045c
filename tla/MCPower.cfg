CONSTANTS
    Wanted = {0, 400, 401, 800, 1000, 1200, 1201, 1800, 2400, 2401}
    Temperatures = {50, 89, 90, 95}
    CounterValues = 5
    Counters = {cc6, pc10}
    MaxElapsed = 5
    CoreCounts <- MCCoreCounts
    LinkCounts = {0, 2, 17}
    CoreStates <- MCCoreStates
    VotingCores = {0, 1}
    VotingLinks = {0, 1}
    AspmStates = {"ASPM_L1", "ASPM_L1_2"}
    Latencies = {999, 1000}
SPECIFICATION Spec
INVARIANTS
    VoltageSuffices
    ChosenExact
    SharesTrue
    DeepestAllowed
CHECK_DEADLOCK FALSE
