SPECIFICATION FairSpec
CONSTANTS
    Handles = {0, 1}
    Frames <- MCFrames
    Pad = Pad
    MTU = 2
    Faults = {}
    MaxConns = 1
    MaxSends <- OneEach
PROPERTIES
    PX4DataServed
CHECK_DEADLOCK FALSE
