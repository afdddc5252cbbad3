SPECIFICATION Spec
CONSTANTS
    a1 = a1
    a2 = a2
    a3 = a3
    s1 = s1
    s2 = s2
    s3 = s3
    s4 = s4
    NoSession = NoSession
    NoAccount = NoAccount
    accountOf <- MCAccountOf
    Account = {a1, a2, a3}
    Session = {s1, s2, s3, s4}
    Sender = {s1, s4}
    SkipQueue = {a3}
    PlayerLimit = 1
    PLimits = {}
    Tolerance = 0
    MaxTime = 0
SYMMETRY ReconnectSymmetry
INVARIANTS
    NoDanglingSession
    QueueOnlyWhenFull
    LimitRespected
    PositionsTold
    CharacterOfAdmittedSession
    ShutdownUnloadsPlayers
PROPERTY NoOvertaking
CHECK_DEADLOCK FALSE
