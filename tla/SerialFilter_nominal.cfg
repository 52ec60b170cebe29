SPECIFICATION FairSpec
CONSTANTS
    Handles = {0, 1}
    Frames <- MCFrames
    Pad = Pad
    MTU = 2
    Faults = {}
    MaxConns = 1
    MaxSends <- TwoAndOne
INVARIANTS
    Responsive
PROPERTIES
    CallbacksReturn
    VMDataServed
CHECK_DEADLOCK FALSE
