SPECIFICATION Spec
CONSTANTS
    Clients = {c1, c2, c3}
    Codes = {r1, r2}
    None = None
    MaxMessages = 3
    OneRolePerSocket = TRUE
    UniqueCodes = TRUE
CHECK_DEADLOCK FALSE
SYMMETRY Symmetry
INVARIANTS
    RosterExact
    StateStream
    GuestsReleased
    InputAnnounced
    StateAdmitted
PROPERTY
    ImplementsRooms
