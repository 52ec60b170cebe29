SPECIFICATION Spec
CONSTANTS
    Handles = {0, 1, 2}
    Frames <- MCFrames
    Pad = Pad
    MTU = 2
    Faults = {}
    MaxConns = 2
    MaxSends <- OneEach
PROPERTIES
    ClosesOwnSocket
CHECK_DEADLOCK FALSE
