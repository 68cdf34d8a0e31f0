SPECIFICATION Spec
CONSTANTS
    N = 3
    Home <- MCHome
    DeleteRequiresMinWrites = FALSE
    Settings <- MCOneOutage
CHECK_DEADLOCK FALSE
INVARIANT
    DeletedStaysDeleted
