SPECIFICATION FairSpec
CONSTANTS
    b1 = b1
    b2 = b2
    i1 = i1
    i2 = i2
    i3 = i3
    w1 = w1
    w2 = w2
    NoMap = NoMap
    BaseMap = {b1, b2}
    Instance = {i1, i2, i3}
    parent <- MCParent
    Worker = {w1, w2}
    QueueBound = 2
INVARIANTS
    PendingCount
    Barrier
    EveryMapUpdated
PROPERTIES
    ImplementsTick
    WaitReturns
    UnloadEnds
CHECK_DEADLOCK FALSE
