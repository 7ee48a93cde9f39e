\* The window is full when the file ends: the end of transmission is one frame more.
SPECIFICATION Spec
CONSTANTS
    Chunks = 4
    Sw <- Window3
    SeqSpace = 8
    Cap = 4
    Corrupt = Corrupt
    Unset = Unset
    Idle = Idle
INVARIANTS
    ResendsTheWindow
