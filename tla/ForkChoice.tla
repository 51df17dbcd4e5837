----------------------------- MODULE ForkChoice -----------------------------
(***************************************************************************)
(* HeaviestSubtreeForkChoice (core/src/heaviest_subtree_fork_choice.rs):   *)
(* the tree of frozen blocks, weighed by the stake of each voter's latest  *)
(* vote, from which the replay loop takes the block to build and vote on.  *)
(*                                                                         *)
(* A block is a SlotHashKey <<slot, hash>>.  The tree is a record: root,   *)
(* fork_infos (one ForkInfo per block) and latest_votes.  The parent and   *)
(* children links of a ForkInfo follow from ParentOf and the domain of     *)
(* fork_infos, so they are not stored.  Stakes are constant (one epoch).   *)
(* The operators are functions from tree to tree; the actions that apply   *)
(* them are those of ReplayForks.                                          *)
(***************************************************************************)
EXTENDS Integers, FiniteSets, FiniteSetsExt

CONSTANTS Blocks,     \* the SlotHashKeys that may be replayed
          Genesis,    \* the block the tree starts from
          ParentOf,   \* [Blocks \ {Genesis} -> Blocks]
          Voters,     \* vote accounts
          Stake       \* [Voters -> Nat], epoch_stakes.vote_account_stake

None == -1            \* Option::None of a slot
NoKey == <<None, None>>

SlotOf(k) == k[1]
HashOf(k) == k[2]

\* The order of (Slot, Hash) tuples.
KeyLess(k, l) == \/ SlotOf(k) < SlotOf(l)
                 \/ SlotOf(k) = SlotOf(l) /\ HashOf(k) < HashOf(l)

ASSUME BlocksAssumption ==
    /\ Genesis \in Blocks
    /\ \A k \in Blocks : SlotOf(k) \in Nat /\ HashOf(k) \in Nat
    /\ \A k \in Blocks \ {Genesis} : /\ ParentOf[k] \in Blocks
                                     /\ SlotOf(ParentOf[k]) < SlotOf(k)
    /\ \A v \in Voters : Stake[v] \in Nat \ {0}

\* The proper ancestors of a block, whether or not they are in a tree.
AncestorsOf[k \in Blocks] ==
    IF k = Genesis THEN {} ELSE {ParentOf[k]} \cup AncestorsOf[ParentOf[k]]

-----------------------------------------------------------------------------
(* Walking the tree.                                                       *)

ancestor_iterator(info, k) ==
    IF k \in DOMAIN info THEN AncestorsOf[k] \cap DOMAIN info ELSE {}

children(info, k) == {c \in DOMAIN info \ {Genesis} : ParentOf[c] = k}

\* subtree_diff(k, default): the blocks of the tree in the subtree of k.
subtree(info, k) == {d \in DOMAIN info : d = k \/ k \in AncestorsOf[d]}

is_candidate(info, k) == info[k].latest_invalid_ancestor = None
is_unconfirmed_duplicate(info, k) == info[k].latest_invalid_ancestor = SlotOf(k)

\* is_duplicate_confirmed(k).unwrap_or(false)
is_duplicate_confirmed(info, k) ==
    k \in DOMAIN info /\ info[k].is_duplicate_confirmed

\* The child with the most stake; of equal ones the smallest key.
HeaviestOf(cs, weight) ==
    CHOOSE c \in cs : \A d \in cs \ {c} :
        weight[c] > weight[d] \/ (weight[c] = weight[d] /\ KeyLess(c, d))

best_overall_slot(t) == t.fork_infos[t.tree_root].best_slot

-----------------------------------------------------------------------------
(* process_update_operations visits the blocks from the greatest key to    *)
(* the smallest, so a block is aggregated after all of its children: own   *)
(* is each ForkInfo after the Subtract, MarkInvalid, MarkValid and Add     *)
(* operations on it, agg the blocks with an Aggregate operation.           *)

aggregate_slot(k, own, child) ==
    LET cs == DOMAIN child
        candidates == {c \in cs : child[c].latest_invalid_ancestor = None}
        weight == [c \in cs |-> child[c].stake_voted_subtree]
        confirmed == \E c \in cs : child[c].is_duplicate_confirmed
    IN  [stake_voted_at |-> own.stake_voted_at,
         stake_voted_subtree |-> own.stake_voted_at + SumFunction(weight),
         best_slot |-> IF candidates = {} THEN k
                       ELSE child[HeaviestOf(candidates, weight)].best_slot,
         latest_invalid_ancestor |->
             IF confirmed THEN None ELSE own.latest_invalid_ancestor,
         is_duplicate_confirmed |-> confirmed \/ own.is_duplicate_confirmed]

process_update_operations(info, own, agg) ==
    LET new[k \in DOMAIN info] ==
            IF k \in agg
            THEN aggregate_slot(k, own[k], [c \in children(info, k) |-> new[c]])
            ELSE own[k]
    IN  new

\* update_with_newly_invalid_ancestor, without its assertion
\* (see MarkInvalidAsserts).
mark_fork_invalid(i, slot) ==
    IF slot > i.latest_invalid_ancestor
    THEN [i EXCEPT !.latest_invalid_ancestor = slot] ELSE i

\* The assertions of mark_fork_invalid_candidate(k): neither k nor a block
\* of its subtree is duplicate confirmed.
MarkInvalidAsserts(t, k) ==
    \A d \in subtree(t.fork_infos, k) : ~ t.fork_infos[d].is_duplicate_confirmed

mark_fork_invalid_candidate(t, k) ==
    LET info == t.fork_infos
        fork == subtree(info, k)
        own == [d \in DOMAIN info |-> IF d \in fork THEN mark_fork_invalid(info[d], SlotOf(k))
                                                    ELSE info[d]]
    IN  [t EXCEPT !.fork_infos =
            process_update_operations(info, own, fork \cup ancestor_iterator(info, k))]

mark_fork_valid(d, i, slot) ==
    [i EXCEPT !.latest_invalid_ancestor = IF @ <= slot THEN None ELSE @,
              !.is_duplicate_confirmed = @ \/ SlotOf(d) = slot]

mark_fork_valid_candidate(t, k) ==
    LET info == t.fork_infos
        fork == subtree(info, k)
        own == [d \in DOMAIN info |-> IF d \in fork THEN mark_fork_valid(d, info[d], SlotOf(k))
                                                    ELSE info[d]]
    IN  [t EXCEPT !.fork_infos =
            process_update_operations(info, own, fork \cup ancestor_iterator(info, k))]

-----------------------------------------------------------------------------
(* New blocks.                                                             *)

NewForkInfo(k, invalid, confirmed) ==
    [stake_voted_at |-> 0, stake_voted_subtree |-> 0, best_slot |-> k,
     latest_invalid_ancestor |-> invalid, is_duplicate_confirmed |-> confirmed]

HeaviestSubtreeForkChoice_new(root) ==
    [tree_root |-> root, fork_infos |-> [k \in {root} |-> NewForkInfo(root, None, TRUE)],
     latest_votes |-> [v \in Voters |-> NoKey]]

\* Mutant: of equal weights, the newest leaf wins.
is_best_child_last_wins(info, k) ==
    \A c \in children(info, ParentOf[k]) :
        is_candidate(info, c) => info[c].stake_voted_subtree <= info[k].stake_voted_subtree

is_best_child(info, k) ==
    \A c \in children(info, ParentOf[k]) :
        is_candidate(info, c) =>
            ~ \/ info[c].stake_voted_subtree > info[k].stake_voted_subtree
              \/ info[c].stake_voted_subtree = info[k].stake_voted_subtree /\ KeyLess(c, k)

\* When the new leaf is its parent's best child, the ancestors that held the
\* parent's best slot, up to the first that did not, now hold the leaf.
propagate_new_leaf(info, k) ==
    LET old == info[ParentOf[k]].best_slot
        path(a) == {a} \cup {d \in ancestor_iterator(info, k) : a \in ancestor_iterator(info, d)}
        moved == {a \in ancestor_iterator(info, k) : \A d \in path(a) : info[d].best_slot = old}
    IN  IF is_best_child(info, k)
        THEN [a \in DOMAIN info |-> IF a \in moved THEN [info[a] EXCEPT !.best_slot = k]
                                                   ELSE info[a]]
        ELSE info

\* Mutant: a leaf on an excluded fork starts as a candidate.
add_new_leaf_slot_as_candidate(t, k) ==
    LET info == [d \in DOMAIN t.fork_infos \cup {k} |->
                    IF d = k THEN NewForkInfo(k, None, FALSE) ELSE t.fork_infos[d]]
    IN  IF k \in DOMAIN t.fork_infos THEN t
        ELSE [t EXCEPT !.fork_infos = propagate_new_leaf(info, k)]

add_new_leaf_slot(t, k) ==
    LET leaf == NewForkInfo(k, t.fork_infos[ParentOf[k]].latest_invalid_ancestor, FALSE)
        info == [d \in DOMAIN t.fork_infos \cup {k} |-> IF d = k THEN leaf ELSE t.fork_infos[d]]
    IN  IF k \in DOMAIN t.fork_infos THEN t
        ELSE [t EXCEPT !.fork_infos = propagate_new_leaf(info, k)]

\* Mutant: the new root is removed with the blocks before it.
set_tree_root_exclusive(t, k) ==
    [t EXCEPT !.tree_root = k,
              !.fork_infos = [d \in subtree(@, k) \ {k} |-> @[d]]]

set_tree_root(t, k) ==
    [t EXCEPT !.tree_root = k,
              !.fork_infos = [d \in subtree(@, k) |-> @[d]]]

-----------------------------------------------------------------------------
(* Votes.                                                                  *)

\* The stake of the voters of vs whose entry in votes is k.
StakeFor(vs, votes, k) == SumFunctionOnSet(Stake, {v \in vs : votes[v] = k})

\* generate_update_operations: a vote counts when it is not older than the
\* root and newer than the voter's latest, or for the same slot with a
\* smaller hash.
CountedVotes(t, votes) ==
    {v \in DOMAIN votes :
        /\ SlotOf(votes[v]) >= SlotOf(t.tree_root)
        /\ \/ SlotOf(votes[v]) > SlotOf(t.latest_votes[v])
           \/ /\ SlotOf(votes[v]) = SlotOf(t.latest_votes[v])
              /\ HashOf(votes[v]) < HashOf(t.latest_votes[v])}

\* Mutant: the stake of the voter's previous vote is not taken back.
add_votes_without_subtracting(t, votes) ==
    LET info == t.fork_infos
        counted == CountedVotes(t, votes)
        own == [k \in DOMAIN info |->
                   [info[k] EXCEPT !.stake_voted_at = @ + StakeFor(counted, votes, k),
                                   !.stake_voted_subtree = @ + StakeFor(counted, votes, k)]]
        agg == UNION {ancestor_iterator(info, votes[v]) : v \in counted}
    IN  [t EXCEPT !.fork_infos = process_update_operations(info, own, agg),
                  !.latest_votes = [v \in Voters |-> IF v \in counted THEN votes[v] ELSE @[v]]]

\* add_votes(votes), votes being one vote for each voter of its domain.
add_votes(t, votes) ==
    LET info == t.fork_infos
        counted == CountedVotes(t, votes)
        gain(k) == StakeFor(counted, votes, k) - StakeFor(counted, t.latest_votes, k)
        own == [k \in DOMAIN info |->
                   [info[k] EXCEPT !.stake_voted_at = @ + gain(k),
                                   !.stake_voted_subtree = @ + gain(k)]]
        agg == UNION {ancestor_iterator(info, votes[v])
                        \cup ancestor_iterator(info, t.latest_votes[v]) : v \in counted}
    IN  [t EXCEPT !.fork_infos = process_update_operations(info, own, agg),
                  !.latest_votes = [v \in Voters |-> IF v \in counted THEN votes[v] ELSE @[v]]]
=============================================================================
