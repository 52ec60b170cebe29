SPECIFICATION FairSpec
CONSTANTS
    Mark <- MCMark
    BUF = 4
INVARIANTS
    TypeOK
    PrintsEachMessage
    NeverAborts
    BufferBounded
PROPERTIES
    FlightEnds
CHECK_DEADLOCK FALSE
