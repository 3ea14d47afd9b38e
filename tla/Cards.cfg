SPECIFICATION MCSpec
CONSTANTS
    Monitor = Monitor
    Default = Default
    MaxKeys = 1
    f1 = f1
    i1 = i1
    Facts <- MCFacts
    Items <- MCItems
    MaxCalls = 2
    MaxFinds = 1
    MaxFaults = 1
    Sessions <- MCSessions
    ItemTexts <- MCItemTexts
    Alike <- MCAlike
    Lookups = {t1, t2}
    MaxLists = 2
    MaxItems = 1
INVARIANTS
    AnswersAreTheOperators
    FindsAreKept
    ListsAreTrue
PROPERTIES
    AnswerIsHeard
CHECK_DEADLOCK FALSE
