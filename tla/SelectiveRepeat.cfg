\* A file of two windows.  One slot of the buffer more than the window.
SPECIFICATION Spec
CONSTANTS
    Chunks = 4
    Sw <- Window2
    SeqSpace = 8
    Cap = 3
    NBuf = 3
    Corrupt = Corrupt
    Unset = Unset
    Idle = Idle
INVARIANTS
    TypeOK
    OutputIsPrefix
    CompleteMeansDelivered
    WindowBracketsReceiver
    BufferHoldsWindow
    MainLoopKeepsWindow
    NoMutualBlock
PROPERTIES
    ImplementsContract
