CONSTANTS
    MaxPlen = 3
    MaxBits = 8
    ExtraBits = 1
    Divs = {1, 2, 3, 5}
    MaxClocks = 7
    MaxOnes = 2
    Seconds <- MCSeconds
    Places = {0, 1, 4, 8, 16, 31, 32, 33}
    Arguments <- MCArguments
    Values <- MCValues
    MaxSize = 3
SPECIFICATION Spec
INVARIANT AgreesWithOracle
CHECK_DEADLOCK FALSE
