SPECIFICATION Spec
CONSTANTS
    Modulus = 10
    Capacity = 5
    CountPerOp = 1
    FirstCount = 1
    ViDelay = 3
    PiDelays = {0, 2}
    CountValues = {5}
    CompareValues = {0}
    MaxBlock = 2
    MaxLate = 1
    Disciplines = {TRUE, FALSE}
INVARIANTS
    DueIsSeen
    BusyHasEvent
    CycleIsCurrent
    SelfQueuing
    PendingIsQueued
    TakenIsDue
ACTION_CONSTRAINT
    NoCountOnlyAfterJump
CONSTRAINT
    ShortDmas
