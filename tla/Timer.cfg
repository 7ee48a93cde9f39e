SPECIFICATION Spec
CONSTANTS
    SeqNums = {10, 11}
    Configs <- MCConfigs
    UnitsPerMs = 2
    Samples = {2, 5}
    MaxTime = 6
    MaxCalls = 3
    MaxSamples = 2
INVARIANTS
    TimersAreOnTime
    RtoFollowsSamples
