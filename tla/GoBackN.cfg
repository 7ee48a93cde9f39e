\* A file longer than the window, a socket buffer of one window and one frame.
SPECIFICATION Spec
CONSTANTS
    Chunks = 4
    Sw <- Window3
    SeqSpace = 8
    Cap = 4
    Corrupt = Corrupt
    Unset = Unset
    Idle = Idle
INVARIANTS
    TypeOK
    OutputIsPrefix
    CompleteMeansDelivered
    WindowBracketsReceiver
    NoMutualBlock
    MainLoopKeepsWindow
    TimerFollowsWindow
PROPERTIES
    ImplementsContract
