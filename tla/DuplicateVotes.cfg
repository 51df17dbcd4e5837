SPECIFICATION Spec
CONSTANTS
    v1 = v1
    v2 = v2
    Blocks <- TwinBlocks
    Genesis <- MCGenesis
    ParentOf <- TwinParentOf
    Voters = {v1}
    Stake <- MCStake
    Chains <- TwinChains
    EpochSlotsTruthful = TRUE
    MaxDumps = 1
INVARIANT
    DuplicateVoteCountsSmallestHash
CHECK_DEADLOCK FALSE
