\* More chunks than sequence numbers.  The sender may then stop for good.
SPECIFICATION Spec
CONSTANTS
    Chunks = 6
    Sw <- Window1
    SeqSpace = 4
    Cap = 2
    Corrupt = Corrupt
    Unset = Unset
    Idle = Idle
INVARIANTS
    CompleteMeansDelivered
CHECK_DEADLOCK FALSE
