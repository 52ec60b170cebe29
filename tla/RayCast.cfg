SPECIFICATION Spec
CONSTANTS
    Points <- MCPoints
INVARIANTS
    RayCastCorrect
    ParityIsTheLoop
CHECK_DEADLOCK FALSE
