SPECIFICATION FairSpec
CONSTANTS
    a1 = a1
    a2 = a2
    a3 = a3
    s1 = s1
    s2 = s2
    s3 = s3
    s4 = s4
    NoSession = NoSession
    NoAccount = NoAccount
    accountOf <- MCAccountOf
    Account = {a1, a2}
    Session = {s1, s2, s4}
    Sender = {}
    SkipQueue = {}
    PlayerLimit = 1
    PLimits = {0, 2}
    Tolerance = 1
    MaxTime = 1
PROPERTIES
    ClosedSessionsLeave
    QueueDrains
CHECK_DEADLOCK FALSE
