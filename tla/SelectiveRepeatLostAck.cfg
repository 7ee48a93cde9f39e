\* A file longer than the window: the ACK of the last frame of a window may be lost.
SPECIFICATION FairSpec
CONSTANTS
    Chunks = 2
    Sw = 1
    SeqSpace = 8
    Cap = 2
    NBuf = 2
    Corrupt = Corrupt
    Unset = Unset
    Idle = Idle
PROPERTIES
    MainLoopEnds
