SPECIFICATION FairSpec
CONSTANTS
    t1 = t1
    t2 = t2
    e1 = e1
    p1 = p1
    c1 = c1
    c2 = c2
    c3 = c3
    NoTask = NoTask
    Task = {t1, e1, p1}
    Plain = {p1}
    size <- MCSize
    Worker = {c1}
    Synch = {c3}
    QueueBound = 2
    Faults = {"dup", "deadlock", "lost", "refused"}
    MaxFaults = 3
INVARIANTS
    NoOpenTransaction
    OutcomeIsStored
    ExecutedInOrder
PROPERTIES
    EveryOperationEnds
    CloseEnds
CHECK_DEADLOCK FALSE
