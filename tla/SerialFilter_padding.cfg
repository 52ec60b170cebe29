SPECIFICATION Spec
CONSTANTS
    Handles = {0, 1}
    Frames <- MCFrames
    Pad = Pad
    MTU = 2
    Faults = {}
    MaxConns = 1
    MaxSends <- OneEach
INVARIANTS
    NothingMadeUp
CHECK_DEADLOCK FALSE
