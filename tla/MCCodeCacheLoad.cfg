SPECIFICATION Spec
CONSTANTS
    V = V
    F = F
    G = G
    H = H
    a = a
    b = b
    d = d
    h = h
    Entries = {1}
    Vpns = {V}
    Frames = {F, G, H}
    NoFrame = NoFrame
    NoBlock = NoBlock
    NoHash = NoHash
    Nowhere = Nowhere
    NewEntries <- MCNewEntries
    Files <- MCFiles
    Holds <- MCHolds
    Words = {1}
    Values = {a, b, d, h}
    Vectors = H
SYMMETRY Symmetry
CONSTRAINT Bounded
PROPERTY
    LoadedCodeRuns
