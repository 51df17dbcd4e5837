CONSTANTS
    MAX_LOCKOUT_HISTORY = 2
    MAX_EPOCH_CREDITS_HISTORY = 1
    Slots = {0, 1, 2, 3, 4}
    MaxSkip = 0
    MaxCrashes = 0
    MaxQueue = 1
    LosesLedger = FALSE
    MayNotSign = TRUE
SPECIFICATION Spec
CHECK_DEADLOCK FALSE
INVARIANTS
    SavedTowerCoversSentVotes
