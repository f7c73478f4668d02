SPECIFICATION ThreadSpec
CONSTANTS
    c1 = c1
    c2 = c2
    Clients = {c1, c2}
    NumPlayers = 2
    Owner <- MCOwner
    Keys = {none}
    NoKeys = none
    Modulus = 4
    MaxInputs = 2
    MaxRun = 2
    MaxStale = 1
    BufferTarget = 0
    LagValues = {0}
    CanTimeout = TRUE
    ServerFills = TRUE
CHECK_DEADLOCK FALSE
INVARIANTS
    EventPresent
    StopHasCause
PROPERTIES
    InputReturns
    EveryonePlays
