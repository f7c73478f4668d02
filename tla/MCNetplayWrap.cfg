SPECIFICATION Spec
CONSTANTS
    c1 = c1
    c2 = c2
    Clients = {c1, c2}
    NumPlayers = 1
    Owner <- MCOwner
    Keys = {none, a}
    NoKeys = none
    Modulus = 4
    MaxInputs = 5
    MaxRun = 2
    MaxStale = 2
    BufferTarget = 1
    LagValues = {0, 1}
    CanTimeout = FALSE
    ServerFills = FALSE
CHECK_DEADLOCK FALSE
INVARIANTS
    LimiterOffMeansBehind
    Lockstep
    NoLeftovers
PROPERTY
    ImplementsInputLog
