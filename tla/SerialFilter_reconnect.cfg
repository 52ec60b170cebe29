SPECIFICATION Spec
CONSTANTS
    Handles = {0, 1, 2}
    Frames <- MCFrames
    Pad = Pad
    MTU = 2
    Faults = {"accept"}
    MaxConns = 2
    MaxSends <- NoSends
INVARIANTS
    ClientAlive
PROPERTIES
    ClosesOwnConnection
CHECK_DEADLOCK FALSE
