\* A file of two chunks and a window that holds it and the end of transmission.
SPECIFICATION FairSpec
CONSTANTS
    Chunks = 2
    Sw <- Window4
    SeqSpace = 8
    Cap = 2
    NBuf = 4
    Corrupt = Corrupt
    Unset = Unset
    Idle = Idle
PROPERTIES
    DeliversTheFile
    TrialEnds
