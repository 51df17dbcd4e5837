CONSTANTS
  MAX_LOCKOUT_HISTORY = 3
  MAX_EPOCH_CREDITS_HISTORY = 2
  MAX_ENTRIES = 2
  SLOTS_PER_EPOCH = 2
  MaxSkip = 2
  FeatureIds = {"filter_votes_outside_slot_hashes"}
  Slots = {0, 1, 2, 3, 4}
  VoteSlots <- MCVoteSlots
  ProposedLockouts <- MCProposedLockouts
  ProposedRoots <- MCProposedRoots
  Timestamps <- MCTimestamps
SPECIFICATION Spec
INVARIANTS
  TimestampNotAheadOfVotes
