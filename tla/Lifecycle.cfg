SPECIFICATION MCSpec
CONSTANTS
    Calls = {k1}
    Contacts <- MCContacts
    Rule <- MCRule
    NoContact = NoContact
    NoCall = NoCall
    MaxStops = 0
    MaxProcs = 4
    MaxCommands = 2
    MaxFaults = 1
INVARIANTS
    OneDaemonAndItsNames
PROPERTIES
    
    LossIsNoticedAndMended
CHECK_DEADLOCK FALSE
