SPECIFICATION MCSpec
CONSTANTS
    Calls = {k1, k2}
    Vip = Vip
    Friend = Friend
    Pest = Pest
    Contacts <- MCContacts
    Rule <- MCRule
    NoContact = NoContact
    NoCall = NoCall
    MaxStops = 1
    MaxCalls = 2
    MaxRaises = 2
    People <- MCPeople
    Threads = {t1, t2}
    MaxBegun = 2
    WindowMax = 1
    EvictBatch = 1
    MaxTurns = 2
    MaxNotes = 1
    MaxFails = 1
SYMMETRY Symmetry
INVARIANTS
    CallersAreServed
    ContextIsTheCallers
    CallersAreDealtWith
PROPERTIES
    ArchiveIsOfItsCall
CHECK_DEADLOCK FALSE
