SPECIFICATION Spec
CONSTANTS
    Messages <- MCMessages
    Length <- MCLength
    MaxLength = 5
    MTU = 4
    MaxMessages = 4
    MaxBreaks = 2
INVARIANTS
    CutsDoNotMatter
    NothingSpliced
    Resynchronises
    OverrunWithinCarried
CHECK_DEADLOCK FALSE
