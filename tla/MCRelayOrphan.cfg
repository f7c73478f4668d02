SPECIFICATION Spec
CONSTANTS
    Clients = {c1, c2}
    Codes = {r1, r2}
    None = None
    MaxMessages = 2
    OneRolePerSocket = FALSE
    UniqueCodes = TRUE
CHECK_DEADLOCK FALSE
INVARIANT
    HostDisconnectClosesRoom
