SPECIFICATION FairSpec
CONSTANTS
    t1 = t1
    Threads = {t1}
    w1 = w1
    w2 = w2
    w3 = w3
    Works = {w1}
    Dismiss = Dismiss
    NumSlots = 2
    FirstFiles <- MCNoFiles
    Absent = Absent
    Foreign = Foreign
    Torn = Torn
    None = None
    MaxStates = 2
    Autoinc = FALSE
    Faults = TRUE
CHECK_DEADLOCK FALSE
PROPERTY
    LoadIsAnswered
