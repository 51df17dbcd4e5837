CONSTANTS
    MAX_LOCKOUT_HISTORY = 2
    MAX_EPOCH_CREDITS_HISTORY = 1
    Slots = {0, 1, 2, 3, 7}
    MaxSkip = 3
    MaxCrashes = 2
    MaxQueue = 1
    LosesLedger = FALSE
    MayNotSign = TRUE
SPECIFICATION Spec
CHECK_DEADLOCK FALSE
INVARIANTS
    TypeOK
    TowerAssertionsHold
