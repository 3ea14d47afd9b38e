SPECIFICATION MCSpec
CONSTANTS
    s1 = s1
    s2 = s2
    Sessions = {s1, s2}
    Clients = {c1, c2}
    NoSession = NoSession
    MaxCommands = 2
INVARIANTS
    FarOnlyAfterAck
    NoOrphanCapture
    FarIsWatched
PROPERTIES
    GateIsKept
CHECK_DEADLOCK FALSE
