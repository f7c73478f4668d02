SPECIFICATION FairSpec
CONSTANTS
    t1 = t1
    Threads = {t1}
    w1 = w1
    w2 = w2
    w3 = w3
    Works = {w1, w2, w3}
    Dismiss = Dismiss
    NumSlots = 2
    FirstFiles <- MCOldFiles
    Absent = Absent
    Foreign = Foreign
    Torn = Torn
    None = None
    MaxStates = 2
    Autoinc = TRUE
    Faults = TRUE
CHECK_DEADLOCK FALSE
INVARIANTS
    WholeFilesLoad
    LastSaveWins
    FilesAreSnapshots
PROPERTIES
    LoadIsAnsweredUnlessFailed
    ShutdownReturns
