SPECIFICATION Spec
CONSTANTS
    N = 3
    Home <- MCHome
    DeleteRequiresMinWrites = FALSE
    Settings <- MCBothReplicasAway
CHECK_DEADLOCK FALSE
INVARIANT
    AckedSurvives
