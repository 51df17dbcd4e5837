---------------------------- MODULE MCVoteProgram ----------------------------
(***************************************************************************)
(* Instances of VoteProgram for TLC.                                       *)
(***************************************************************************)
EXTENDS VoteProgram

\* Slot lists of one or two slots, in any order.
MCVoteSlots ==
    LET S == Slots \ {0}
    IN  {<<a>> : a \in S} \cup {<<a, b>> : a, b \in S}

\* The lockout lists with slots in S that pass the order checks, and some that
\* do not: for each pair of slots one with equal confirmations, and for each slot
\* one with no confirmation and one with too many.
OrderedLockouts(S) ==
    LET n        == MAX_LOCKOUT_HISTORY
        lists(k) == {f \in [1..k -> [slot : S, conf : 1..n]] :
                        \A i \in 1..(k - 1) : /\ f[i].slot < f[i + 1].slot
                                              /\ f[i].conf > f[i + 1].conf}
    IN  UNION {lists(k) : k \in 0..n}
            \cup {<<[slot |-> a, conf |-> 1], [slot |-> b, conf |-> 1]>> : a, b \in S}
            \cup {<<[slot |-> a, conf |-> 0]>> : a \in S}
            \cup {<<[slot |-> a, conf |-> n + 1]>> : a \in S}

\* A validator's tower is rooted at slot 0 from the start and never votes on it.
MCProposedLockouts == OrderedLockouts(Slots \ {0})

\* Votes without a timestamp.
MCNoTimestamps == {None}

\* Votes with one of two timestamps, or none.
MCTimestamps == {None, 1, 2}

MCProposedRoots == Slots \cup {None}
=============================================================================
