SPECIFICATION MCSpec
CONSTANTS
    Workers = {w1, w2, w3}
    None = None
    MaxTakes = 2
    Topics <- MCTopics
    Exact <- MCExact
    WindowMaxlen = 2
    MaxAdded = 5
SYMMETRY Symmetry
INVARIANTS
    NothingIsLeftBehind
    SilentUnless
    SaidIsFound
CHECK_DEADLOCK FALSE
