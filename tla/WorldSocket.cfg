\* Two map threads; a second session can be created on the same socket.
CONSTANTS
    w1 = w1
    w2 = w2
    m1 = m1
    m2 = m2
    Session = {w1, w2}
    MapThread = {m1, m2}
    NoSession = NoSession
SPECIFICATION FairSpec
INVARIANTS ReferencesMatch NoDeletedSessionUsed
PROPERTIES SocketFreed SessionDeleted
