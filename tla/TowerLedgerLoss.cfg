CONSTANTS
    MAX_LOCKOUT_HISTORY = 2
    MAX_EPOCH_CREDITS_HISTORY = 1
    Slots = {0, 1, 2, 3, 7}
    MaxSkip = 3
    MaxCrashes = 2
    MaxQueue = 2
    LosesLedger = TRUE
    MayNotSign = FALSE
SPECIFICATION Spec
CHECK_DEADLOCK FALSE
INVARIANTS
    SentVotesRespectLockout
    LedgerLossAssertionsHold
    SavedTowerRestorable
    SavedTowerCoversSentVotes
PROPERTIES
    RestartKeepsLockouts
    SendsInOrder
