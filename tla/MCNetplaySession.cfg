SPECIFICATION FairSpec
CONSTANTS
    c1 = c1
    c2 = c2
    c3 = c3
    Clients = {c1, c2, c3}
    NumPlayers = 2
    Wants <- MCWants
    Pads <- MCPads
    Files <- MCFiles
    MaxLost = 1
    StackPaks = {"mempak", none}
    Torn = torn
    None = none
CHECK_DEADLOCK FALSE
INVARIANTS
    OneSource
    OnePlayerEach
    SeenAsPlayed
PROPERTIES
    EveryoneGetsIn
    ImplementsSharedGame
