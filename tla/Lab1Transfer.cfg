SPECIFICATION Spec
CONSTANTS
    PAYLOAD_SIZE = 12
    Words = {0, 6, 8, 13}
    File <- MCFile
    MaxHits = 1
    Half = Half
INVARIANTS
    TypeOK
    FileIsReassembled
    DamageIsNoticed
    BlindSpots
    VerdictsAreAlgebraic
