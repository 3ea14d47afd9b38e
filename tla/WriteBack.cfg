SPECIFICATION Spec
CONSTANTS
    Turns = {1, 2}
    Own = {2}
    Facts = {f}
    Clients = {c1, c2}
    MaxExtracts = 2
    MaxConfirms = 2
    MaxAttempts = 2
    MaxItems = 2
SYMMETRY Symmetry
INVARIANTS
    WrittenBackMeansAll
    PromisesAreAsAgreed
    EveryExtractHasItsRow
CHECK_DEADLOCK FALSE
