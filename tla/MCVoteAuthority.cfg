CONSTANTS
    Keys = {k1, k2}
    NoKey = NoKey
    Commissions = {100}
    LastSlot = 5
    MaxSkip = 2
    SLOTS_PER_EPOCH = 2
    LEADER_SCHEDULE_SLOT_OFFSET = 3
    MAX_LEADER_SCHEDULE_STAKES = 2
    MAX_ITEMS = 2
    MinimumBalance = 2
    TotalLamports = 3
    FeatureIds = {"vote_withdraw_authority_may_change_authorized_voter", "reject_vote_account_close_unless_zero_credit_epoch", "commission_updates_only_allowed_in_first_half_of_epoch"}
    MaxAccounts = 2
SPECIFICATION Spec
SYMMETRY KeySymmetry
CHECK_DEADLOCK FALSE
INVARIANTS
    TypeOK
    FixedVoterIsInForce
    EpochStakesForOwnEpoch
    PriorVotersAreHistory
    AuthorizeAssertionsHold
    OpenAccountIsRentExempt
