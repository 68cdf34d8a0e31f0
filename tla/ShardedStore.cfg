SPECIFICATION Spec
CONSTANTS
    N = 3
    Home <- MCHome
    DeleteRequiresMinWrites = FALSE
    Settings <- MCSettings
CHECK_DEADLOCK FALSE
INVARIANTS
    LiveReadsCurrent
    MirrorDeletesHold
    AckedSurvives
