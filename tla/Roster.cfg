SPECIFICATION MCSpec
CONSTANTS
    Voices = {daemon}
    Screens = {console}
    Names = {alice, bob}
    Phones = {p1, p2}
    MaxId = 2
    Notes = {n1, n2}
    NotesMax = 1
    InitialRules <- MCInitialRules
    VoiceRules <- MCVoiceRules
    EditorRules <- MCEditorRules
SYMMETRY MCSymmetry
INVARIANTS RosterIsSound
PROPERTIES WritesAreOfTheNamed
CHECK_DEADLOCK FALSE
