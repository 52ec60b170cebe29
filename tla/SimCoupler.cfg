SPECIFICATION FairSpec
CONSTANTS
    Handles = {0, 1}
    Frames <- MCFrames
    Pad = Pad
    MTU = 2
    Faults <- Survivable
    MaxConns = 1
    MaxSends <- MCSends
INVARIANTS
    TypeOK
    MutualExclusion
    VMClientAlive
    Responsive
PROPERTIES
    ImplementsRelay
    ServerSurvivesClients
    CallbacksReturn
    EachArrivalRead
CHECK_DEADLOCK FALSE
