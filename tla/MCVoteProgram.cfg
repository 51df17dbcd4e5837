CONSTANTS
  MAX_LOCKOUT_HISTORY = 3
  MAX_EPOCH_CREDITS_HISTORY = 2
  MAX_ENTRIES = 3
  SLOTS_PER_EPOCH = 2
  MaxSkip = 5
  FeatureIds = {"vote_state_update_root_fix", "vote_state_update_credit_per_dequeue"}
  Slots = {0, 1, 2, 3, 4, 9, 10}
  VoteSlots <- MCVoteSlots
  ProposedLockouts <- MCProposedLockouts
  ProposedRoots <- MCProposedRoots
  Timestamps <- MCNoTimestamps
SPECIFICATION Spec
INVARIANTS
  TypeOK
  TowerWellFormed
  VotesOnThisFork
  VotesAboveRoot
  CreditsMatchRootedBanks
  EpochCreditsChained
  HonestUpdateAgreesWithVote
  RootFixAssertionHolds
PROPERTIES
  NoRollback
