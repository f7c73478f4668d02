SPECIFICATION Spec
CONSTANTS
    Modulus = 20
    Capacity = 16
    CountPerOp = 1
    FirstCount = 1
    ViDelay = 6
    PiDelays = {3}
    CountValues = {0, 9}
    CompareValues = {0, 8}
    MaxBlock = 2
    MaxLate = 3
    Disciplines = {TRUE}
INVARIANTS
    TimerIsDue
