\* Four chunks: the bit wraps around more than once.
SPECIFICATION FairSpec
CONSTANTS
    Chunks = 4
    Cap = 3
    Corrupt = Corrupt
    Idle = Idle
INVARIANTS
    TypeOK
    OutputIsPrefix
    InStep
    NoMutualBlock
PROPERTIES
    DeliversTheFile
    TrialEnds
