SPECIFICATION MCSpec
CONSTANTS
    Clients = {c1, c2}
    Watcher = Watcher
    MaxChanges = 2
    MaxTime = 2
    MaxRestarts = 1
    x1 = x1
    x2 = x2
    Nobody = Nobody
    Sends <- MCSends
    Dnd <- MCDnd
    MaxCalls = 2
    MaxTurns = 3
    MaxFailures = 1
    MaxNumber = 2400
    MaxDays = 500
INVARIANTS
    SettledUnlessRaced
    AcksAreOwn
    EventAfterAck
    ExtractsAreTrue
PROPERTIES
    DndIsNotLost
    TimedDndEnds
    EndIsTold
CHECK_DEADLOCK FALSE
