SPECIFICATION MCSpec
CONSTANTS
    Monitor = Monitor
    Default = Default
    MaxCalls = 2
    MaxKeys = 2
INVARIANTS
    CapturedHasHeard
    NothingOutlivesTheCall
PROPERTIES
    CallIsAnnounced
CHECK_DEADLOCK FALSE
