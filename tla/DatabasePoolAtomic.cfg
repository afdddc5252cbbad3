SPECIFICATION Spec
CONSTANTS
    t1 = t1
    t2 = t2
    e1 = e1
    p1 = p1
    c1 = c1
    c2 = c2
    c3 = c3
    NoTask = NoTask
    Task = {t1, t2, p1}
    Plain = {p1}
    size <- MCSize
    Worker = {c1}
    Synch = {}
    QueueBound = 2
    Faults = {"lost"}
    MaxFaults = 1
INVARIANT AtomicTransactions
CHECK_DEADLOCK FALSE
