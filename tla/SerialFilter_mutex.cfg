SPECIFICATION FairSpec
CONSTANTS
    Handles = {0, 1}
    Frames <- MCFrames
    Pad = Pad
    MTU = 2
    Faults = {}
    MaxConns = 2
    MaxSends <- OneEach
PROPERTIES
    MutexReleased
CHECK_DEADLOCK FALSE
