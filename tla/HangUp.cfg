\* The receiver is done while the sender still waits for the last ACK.
SPECIFICATION Spec
CONSTANTS
    Chunks = 1
    Cap = 2
    Corrupt = Corrupt
    Idle = Idle
INVARIANTS
    HangUpIsSeenAsEof
