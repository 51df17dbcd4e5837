SPECIFICATION Spec
CONSTANTS
    v1 = v1
    v2 = v2
    Blocks <- MCBlocks
    Genesis <- MCGenesis
    ParentOf <- MCParentOf
    Voters = {v1, v2}
    Stake <- MCStake
    Chains <- MCChains
    EpochSlotsTruthful = TRUE
    MaxDumps = 1
INVARIANTS
    TypeOK
    NeverPanics
    WeightsMatchVotes
    BestSlotIsHeaviest
    ExclusionFollowsAncestors
    VerdictMatchesCluster
    KnownDuplicateIsExcluded
CHECK_DEADLOCK FALSE
