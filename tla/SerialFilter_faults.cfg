SPECIFICATION Spec
CONSTANTS
    Handles = {0, 1}
    Frames <- MCFrames
    Pad = Pad
    MTU = 2
    Faults <- AllFaults
    MaxConns = 1
    MaxSends <- TwoAndOne
INVARIANTS
    TypeOK
    MutualExclusion
    OnlyPermitted
    RelayInOrder
PROPERTIES
    ImplementsRelay
CHECK_DEADLOCK FALSE
