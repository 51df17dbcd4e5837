--------------------------- MODULE MCVoteAuthority ----------------------------
\* VoteAuthority for TLC; no key is special.
EXTENDS VoteAuthority, TLC

KeySymmetry == Permutations(Keys)
=============================================================================
