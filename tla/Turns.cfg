SPECIFICATION MCSpec
CONSTANTS
    roster = roster
    delegate = delegate
    Trios <- MCTrios
    Privileged <- MCPrivileged
    Registries <- MCRegistries
    MaxTurns = 3
    MaxCalls = 1
    MaxLive = 2
    Mails = {1, 2}
    Workers = {1, 2}
    alice = alice
    Contacts <- MCContacts
    Limit = 1
    MailTurns = 2
    MaxFailures = 1
INVARIANTS
    ConfirmedOnceAsAsked
    MailIsAsHeard
PROPERTIES
    OperatorActs
    EveryTurnEnds
CHECK_DEADLOCK FALSE
