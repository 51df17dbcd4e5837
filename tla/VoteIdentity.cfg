CONSTANTS
    Keys = {k1, k2}
    NoKey = NoKey
    Commissions = {100}
    LastSlot = 1
    MaxSkip = 1
    SLOTS_PER_EPOCH = 2
    LEADER_SCHEDULE_SLOT_OFFSET = 3
    MAX_LEADER_SCHEDULE_STAKES = 2
    MAX_ITEMS = 2
    MinimumBalance = 2
    TotalLamports = 2
    FeatureIds = {}
    MaxAccounts = 1
SPECIFICATION Spec
CHECK_DEADLOCK FALSE
PROPERTIES
    IdentityChangeSignedByVoter
