SPECIFICATION MCSpec
CONSTANTS
    Voices = {}
    Screens = {}
    Names = {}
    Phones = {}
    MaxId = 1
    Notes = {}
    NotesMax = 0
    InitialRules = {}
    VoiceRules = {}
    EditorRules = {}
    m1 = m1
    Meetings <- MCMeetings
    Classes <- MCClasses
    MinPriority = 2
    MaxItems = 2
    MaxFaults = 1
INVARIANTS
    NothingIsToldTwice
    CyclingLosesNothing
PROPERTIES
    WantedIsNoticed
CHECK_DEADLOCK FALSE
