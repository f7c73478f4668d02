SPECIFICATION WorkqueueFairSpec
CONSTANTS
    t1 = t1
    t2 = t2
    Threads = {t1, t2}
    w1 = w1
    w2 = w2
    w3 = w3
    Works = {w1, w2, w3}
    Dismiss = Dismiss
CHECK_DEADLOCK FALSE
INVARIANTS
    WorkqueueTypeOK
    WorkHasThread
PROPERTIES
    ImplementsService
    WorkIsDone
    ShutdownEnds
