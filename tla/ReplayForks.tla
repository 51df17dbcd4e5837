---------------------------- MODULE ReplayForks ----------------------------
(***************************************************************************)
(* The replay loop's handling of forks and duplicate blocks: ReplayStage   *)
(* (core/src/replay_stage.rs) composed with HeaviestSubtreeForkChoice,     *)
(* with check_slot_agrees_with_cluster                                     *)
(* (core/src/cluster_slot_state_verifier.rs) and with                      *)
(* LatestValidatorVotesForFrozenBanks.                                     *)
(*                                                                         *)
(* A leader may produce several versions of its slot.  A validator replays *)
(* one version at a time, learns in any order that the slot is a duplicate,*)
(* which version EpochSlots samples report and which version the cluster   *)
(* confirmed, and must exclude, dump, repair or re-admit its own version.  *)
(*                                                                         *)
(* truth is the chain of blocks the cluster confirms: at most one version  *)
(* of a slot reaches 52% of the stake, and a confirmed block's ancestors   *)
(* are confirmed with it.                                                  *)
(***************************************************************************)
EXTENDS ForkChoice

CONSTANTS Chains,             \* the chains the cluster may confirm
          EpochSlotsTruthful, \* whether every EpochSlots sample reports truth
          MaxDumps            \* bound: dumps of one slot

VARIABLES
    truth,                             \* the chain the cluster confirms
    tree,                              \* heaviest_subtree_fork_choice
    bank,                              \* per slot: the version in bank_forks or None
    dead,                              \* slots of those banks whose replay failed
    computed,                          \* slots whose ForkStats are computed
    duplicate_slots_tracker,
    gossip_duplicate_confirmed_slots,  \* per slot: a hash or None
    epoch_slots_frozen_slots,          \* per slot: a hash or None
    duplicate_slots_to_repair,         \* per slot: the correct hash or None
    purge_repair_slot_counter,
    max_replay_frozen_votes,           \* per voter: slot and hashes voted
    panicked                           \* an assertion of the code has failed

cluster == <<duplicate_slots_tracker, gossip_duplicate_confirmed_slots,
             epoch_slots_frozen_slots>>
repairs == <<duplicate_slots_to_repair, purge_repair_slot_counter>>
vars == <<truth, tree, bank, dead, computed, cluster, repairs, max_replay_frozen_votes, panicked>>

\* Hash::default(), the bank hash of a dead slot.
DefaultHash == 0

Slots == {SlotOf(k) : k \in Blocks} \ {SlotOf(Genesis)}
Root == SlotOf(tree.tree_root)

\* bank[s] is None while slot s is not replayed to its end.
Replayed(k) == k = tree.tree_root \/ (SlotOf(k) \in Slots /\ bank[SlotOf(k)] = HashOf(k))
Frozen(k) == Replayed(k) /\ SlotOf(k) \notin dead
FrozenKeys == {k \in Blocks : Frozen(k)}

\* BankStatus::bank_hash()
bank_hash(s) == IF s \in dead THEN DefaultHash ELSE bank[s]

Init ==
    /\ truth \in Chains
    /\ tree = HeaviestSubtreeForkChoice_new(Genesis)
    /\ bank = [s \in Slots |-> None]
    /\ dead = {}
    /\ computed = {}
    /\ duplicate_slots_tracker = {}
    /\ gossip_duplicate_confirmed_slots = [s \in Slots |-> None]
    /\ epoch_slots_frozen_slots = [s \in Slots |-> None]
    /\ duplicate_slots_to_repair = [s \in Slots |-> None]
    /\ purge_repair_slot_counter = [s \in Slots |-> 0]
    /\ max_replay_frozen_votes = [v \in Voters |-> [slot |-> None, hashes |-> {}]]
    /\ panicked = FALSE

-----------------------------------------------------------------------------
(* The verifier: what an event asks to be done to our version of a slot.   *)

Nothing == [mark |-> "no", repair |-> None]
MarkSlotDuplicate == [mark |-> "duplicate", repair |-> None]
RepairVersion(h) == [mark |-> "duplicate", repair |-> h]
MatchesCluster == [mark |-> "matches", repair |-> None]

check_duplicate_confirmed_hash_against_frozen_hash(confirmed, frozen) ==
    IF confirmed # frozen THEN RepairVersion(confirmed) ELSE MatchesCluster

check_epoch_slots_hash_against_frozen_hash(sampled, frozen) ==
    IF sampled # frozen THEN RepairVersion(sampled) ELSE Nothing

\* The hash this validator knows to be duplicate confirmed: its own when
\* fork choice says so, else the one gossip reported.
get_duplicate_confirmed_hash(t, s, frozen) ==
    IF is_duplicate_confirmed(t.fork_infos, <<s, frozen>>)
    THEN frozen ELSE gossip_duplicate_confirmed_slots[s]

\* Mutant: an EpochSlots sample is consulted before the confirmed hash.
on_frozen_samples_first(t, s, frozen) ==
    LET confirmed == get_duplicate_confirmed_hash(t, s, frozen)
        sampled == epoch_slots_frozen_slots[s]
    IN  CASE sampled # None -> check_epoch_slots_hash_against_frozen_hash(sampled, frozen)
          [] sampled = None /\ confirmed # None ->
                check_duplicate_confirmed_hash_against_frozen_hash(confirmed, frozen)
          [] OTHER -> IF s \in duplicate_slots_tracker THEN MarkSlotDuplicate ELSE Nothing

\* Mutant: a duplicate proof that came before the replay is forgotten.
on_frozen_forgets_duplicate(t, s, frozen) ==
    LET confirmed == get_duplicate_confirmed_hash(t, s, frozen)
        sampled == epoch_slots_frozen_slots[s]
    IN  CASE confirmed # None ->
                check_duplicate_confirmed_hash_against_frozen_hash(confirmed, frozen)
          [] confirmed = None /\ sampled # None ->
                check_epoch_slots_hash_against_frozen_hash(sampled, frozen)
          [] OTHER -> Nothing

\* on_frozen_slot and on_dead_slot, which differ only in what they report.
on_frozen_or_dead_slot(t, s, frozen) ==
    LET confirmed == get_duplicate_confirmed_hash(t, s, frozen)
        sampled == epoch_slots_frozen_slots[s]
    IN  CASE confirmed # None ->
                check_duplicate_confirmed_hash_against_frozen_hash(confirmed, frozen)
          [] confirmed = None /\ sampled # None ->
                check_epoch_slots_hash_against_frozen_hash(sampled, frozen)
          [] OTHER -> IF s \in duplicate_slots_tracker THEN MarkSlotDuplicate ELSE Nothing

on_duplicate_confirmed(confirmed, frozen) ==
    IF frozen = None THEN Nothing
    ELSE check_duplicate_confirmed_hash_against_frozen_hash(confirmed, frozen)

\* Mutant: a duplicate proof excludes a version that is confirmed too.
on_duplicate_even_if_confirmed(s, frozen) ==
    IF frozen = None THEN Nothing ELSE MarkSlotDuplicate

on_duplicate(s, frozen) ==
    IF frozen = None \/ get_duplicate_confirmed_hash(tree, s, frozen) # None
    THEN Nothing ELSE MarkSlotDuplicate

on_epoch_slots_frozen(s, sampled, frozen) ==
    IF frozen = None \/ get_duplicate_confirmed_hash(tree, s, frozen) # None
    THEN Nothing ELSE check_epoch_slots_hash_against_frozen_hash(sampled, frozen)

\* Apply a change to fork choice t and to the slots to repair.
apply_state_changes(t, s, frozen, change) ==
    LET k == <<s, frozen>> IN
    /\ tree' = CASE change.mark = "duplicate" -> mark_fork_invalid_candidate(t, k)
                 [] change.mark = "matches"   -> mark_fork_valid_candidate(t, k)
                 [] OTHER                     -> t
    /\ panicked' = (panicked \/ (change.mark = "duplicate" /\ ~ MarkInvalidAsserts(t, k)))
    /\ duplicate_slots_to_repair' =
          IF change.mark = "matches" THEN [duplicate_slots_to_repair EXCEPT ![s] = None]
          ELSE IF change.repair # None
               THEN [duplicate_slots_to_repair EXCEPT ![s] = change.repair]
               ELSE duplicate_slots_to_repair
    /\ purge_repair_slot_counter' =
          IF change.mark = "matches" THEN [purge_repair_slot_counter EXCEPT ![s] = 0]
          ELSE purge_repair_slot_counter

-----------------------------------------------------------------------------
(* Replay of a slot ends: its bank is frozen, or the slot is dead.         *)

Replayable(k) ==
    /\ k # Genesis
    /\ SlotOf(k) > Root
    /\ bank[SlotOf(k)] = None
    /\ Frozen(ParentOf[k])

ProcessReplayResults(k) ==
    LET s == SlotOf(k)
        t == add_new_leaf_slot(tree, k)
    IN  /\ Replayable(k)
        /\ bank' = [bank EXCEPT ![s] = HashOf(k)]
        /\ apply_state_changes(t, s, HashOf(k), on_frozen_or_dead_slot(t, s, HashOf(k)))
        /\ UNCHANGED <<truth, dead, computed, cluster, max_replay_frozen_votes>>

MarkDeadSlot(k) ==
    LET s == SlotOf(k) IN
    /\ Replayable(k)
    /\ bank' = [bank EXCEPT ![s] = HashOf(k)]
    /\ dead' = dead \cup {s}
    /\ apply_state_changes(tree, s, DefaultHash, on_frozen_or_dead_slot(tree, s, DefaultHash))
    /\ UNCHANGED <<truth, computed, cluster, max_replay_frozen_votes>>

(* Events about a slot, in any order and before or after its replay.       *)

\* Window service has proof of two versions of the slot.
ProcessDuplicateSlots(s) ==
    /\ s > Root
    /\ \E k, l \in Blocks : k # l /\ SlotOf(k) = s /\ SlotOf(l) = s
    /\ s \notin duplicate_slots_tracker
    /\ duplicate_slots_tracker' = duplicate_slots_tracker \cup {s}
    /\ apply_state_changes(tree, s, bank_hash(s), on_duplicate(s, bank_hash(s)))
    /\ UNCHANGED <<truth, bank, dead, computed, gossip_duplicate_confirmed_slots,
                   epoch_slots_frozen_slots, max_replay_frozen_votes>>

\* The early return of check_slot_agrees_with_cluster on a slot whose
\* version here is already duplicate confirmed.
ConfirmedChange(s, confirmed) ==
    IF is_duplicate_confirmed(tree.fork_infos, <<s, bank_hash(s)>>) THEN Nothing
    ELSE on_duplicate_confirmed(confirmed, bank_hash(s))

ProcessGossipDuplicateConfirmedSlots(k) ==
    LET s == SlotOf(k)
        prev == gossip_duplicate_confirmed_slots[s]
    IN  /\ k \in truth
        /\ s > Root
        /\ prev = None      \* a repeated signal is dropped
        /\ gossip_duplicate_confirmed_slots' =
              [gossip_duplicate_confirmed_slots EXCEPT ![s] = HashOf(k)]
        /\ apply_state_changes(tree, s, bank_hash(s), ConfirmedChange(s, HashOf(k)))
        /\ UNCHANGED <<truth, bank, dead, computed, duplicate_slots_tracker,
                       epoch_slots_frozen_slots, max_replay_frozen_votes>>

ProcessEpochSlotsFrozen(k) ==
    LET s == SlotOf(k) IN
    /\ EpochSlotsTruthful => k \in truth
    /\ k # Genesis
    /\ s > Root
    /\ epoch_slots_frozen_slots[s] # HashOf(k)
    /\ epoch_slots_frozen_slots' = [epoch_slots_frozen_slots EXCEPT ![s] = HashOf(k)]
    /\ apply_state_changes(tree, s, bank_hash(s), on_epoch_slots_frozen(s, HashOf(k), bank_hash(s)))
    /\ UNCHANGED <<truth, bank, dead, computed, duplicate_slots_tracker,
                   gossip_duplicate_confirmed_slots, max_replay_frozen_votes>>

-----------------------------------------------------------------------------
(* Votes found in a frozen bank.                                           *)

\* check_add_vote(v, slot, Some(hash), is_replay_vote = true), then
\* take_votes_dirty_set: the vote handed to fork choice, NoKey when there is
\* none.  The dirty entry made for a further hash of the latest slot is
\* entry(v).or_default(), whose slot is 0: the set was taken after the
\* previous bank, so there is no entry to add the hash to.
DirtyVote(v, k) ==
    LET latest == max_replay_frozen_votes[v]
        dirty == CASE SlotOf(k) > latest.slot -> k
                   [] SlotOf(k) = latest.slot /\ HashOf(k) \notin latest.hashes
                        -> <<0, HashOf(k)>>
                   [] OTHER -> NoKey
    IN  IF SlotOf(dirty) >= Root THEN dirty ELSE NoKey

check_add_vote(v, k) ==
    LET latest == max_replay_frozen_votes[v] IN
    IF SlotOf(k) > latest.slot THEN [slot |-> SlotOf(k), hashes |-> {HashOf(k)}]
    ELSE IF SlotOf(k) = latest.slot THEN [latest EXCEPT !.hashes = @ \cup {HashOf(k)}]
    ELSE latest

\* compute_bank_stats for the frozen bank k, whose vote accounts hold a vote
\* for one of its ancestors (bound: after Genesis) or none; banks are taken in
\* order of slot.
ComputeBankStats(k) ==
    /\ k # tree.tree_root /\ Frozen(k) /\ SlotOf(k) \notin computed
    /\ \A l \in FrozenKeys : SlotOf(l) \in Root + 1 .. SlotOf(k) - 1 => SlotOf(l) \in computed
    /\ computed' = computed \cup {SlotOf(k)}
    /\ \E landed \in [Voters -> ((AncestorsOf[k] \ {Genesis}) \cap FrozenKeys) \cup {NoKey}] :
          LET dirty == {v \in Voters : landed[v] # NoKey /\ DirtyVote(v, landed[v]) # NoKey}
          IN  /\ tree' = add_votes(tree, [v \in dirty |-> DirtyVote(v, landed[v])])
              /\ max_replay_frozen_votes' =
                    [v \in Voters |-> IF landed[v] = NoKey THEN max_replay_frozen_votes[v]
                                      ELSE check_add_vote(v, landed[v])]
    /\ UNCHANGED <<truth, bank, dead, cluster, repairs, panicked>>

\* confirm_forks and mark_slots_confirmed: a computed bank shows that its
\* ancestor k has the votes of two thirds of the stake.
MarkSlotsConfirmed(k) ==
    LET s == SlotOf(k) IN
    /\ k \in truth /\ s > Root /\ Frozen(k)
    /\ ~ is_duplicate_confirmed(tree.fork_infos, k)
    /\ \E l \in FrozenKeys : SlotOf(l) \in computed /\ k \in AncestorsOf[l]
    /\ apply_state_changes(tree, s, bank_hash(s), ConfirmedChange(s, HashOf(k)))
    /\ UNCHANGED <<truth, bank, dead, computed, cluster, max_replay_frozen_votes>>

-----------------------------------------------------------------------------
(* dump_then_repair_correct_slots: every slot to repair whose version here *)
(* is frozen or dead and wrong is purged with its descendants.  Of two     *)
(* such slots on one fork the later one is counted only when the unordered *)
(* map happens to yield it first.  The entry of any other slot is dropped. *)

BankOf(s) == <<s, bank[s]>>

Wrong == {s \in Slots : /\ duplicate_slots_to_repair[s] # None
                        /\ bank_hash(s) \notin {None, duplicate_slots_to_repair[s]}}

\* slot d is replayed on top of slot s
Below(d, s) ==
    bank[d] # None /\ BankOf(s) \in AncestorsOf[BankOf(d)]

DumpThenRepairCorrectSlots ==
    /\ \E s \in Slots : duplicate_slots_to_repair[s] # None
    /\ \A s \in Wrong : purge_repair_slot_counter[s] < MaxDumps
    /\ LET purged == {d \in Slots : \E s \in Wrong : d = s \/ Below(d, s)}
           first == {s \in Wrong : ~ \E r \in Wrong : Below(s, r)}
       IN  /\ bank' = [s \in Slots |-> IF s \in purged THEN None ELSE bank[s]]
           /\ dead' = dead \ purged
           /\ computed' = computed \ purged
           /\ \E counted \in SUBSET Wrong :
                 /\ first \subseteq counted
                 /\ purge_repair_slot_counter' =
                       [s \in Slots |-> IF s \in counted THEN purge_repair_slot_counter[s] + 1
                                        ELSE purge_repair_slot_counter[s]]
    /\ duplicate_slots_to_repair' = [s \in Slots |-> None]
    /\ UNCHANGED <<truth, tree, cluster, max_replay_frozen_votes, panicked>>

\* handle_new_root(k): a root is a block the cluster confirmed and this
\* validator votes on, hence a candidate.
HandleNewRoot(k) ==
    LET keep == {s \in Slots : s >= SlotOf(k)}
        alive == {SlotOf(l) : l \in {l \in Blocks : Replayed(l) /\ (l = k \/ k \in AncestorsOf[l])}}
    IN  /\ k \in truth /\ SlotOf(k) > Root /\ Frozen(k) /\ SlotOf(k) \in computed
        /\ is_candidate(tree.fork_infos, k)
        /\ tree' = set_tree_root(tree, k)
        /\ bank' = [s \in Slots |-> IF s \in alive THEN bank[s] ELSE None]
        /\ dead' = dead \cap alive
        /\ computed' = computed \cap alive
        /\ duplicate_slots_tracker' = duplicate_slots_tracker \cap keep
        /\ gossip_duplicate_confirmed_slots' =
              [s \in Slots |-> IF s \in keep THEN gossip_duplicate_confirmed_slots[s] ELSE None]
        /\ epoch_slots_frozen_slots' =
              [s \in Slots |-> IF s \in keep THEN epoch_slots_frozen_slots[s] ELSE None]
        /\ UNCHANGED <<truth, repairs, max_replay_frozen_votes, panicked>>

Next ==
    \/ \E k \in Blocks : \/ ProcessReplayResults(k)
                         \/ ProcessGossipDuplicateConfirmedSlots(k)
                         \/ ProcessEpochSlotsFrozen(k)
                         \/ ComputeBankStats(k)
                         \/ MarkSlotsConfirmed(k)
                         \/ HandleNewRoot(k)
                         \/ MarkDeadSlot(k)
    \/ \E s \in Slots : ProcessDuplicateSlots(s)
    \/ DumpThenRepairCorrectSlots

Spec == Init /\ [][Next]_vars
-----------------------------------------------------------------------------
(* Properties.                                                             *)

Hashes == {HashOf(k) : k \in Blocks}
ForkInfo == [stake_voted_at : Int, stake_voted_subtree : Int, best_slot : Blocks,
             latest_invalid_ancestor : Slots \cup {None}, is_duplicate_confirmed : BOOLEAN]

\* Type invariant: the tree is rooted at a block it contains, and the maps
\* of the replay loop hold slots and hashes.
TypeOK ==
    /\ truth \in Chains
    /\ DOMAIN tree.fork_infos \subseteq Blocks /\ tree.tree_root \in DOMAIN tree.fork_infos
    /\ \A k \in DOMAIN tree.fork_infos : tree.fork_infos[k] \in ForkInfo
    /\ tree.latest_votes \in [Voters -> Blocks \cup {NoKey}]
    /\ bank \in [Slots -> Hashes \cup {None}]
    /\ dead \subseteq {s \in Slots : bank[s] # None} /\ computed \subseteq Slots
    /\ duplicate_slots_tracker \subseteq Slots
    /\ gossip_duplicate_confirmed_slots \in [Slots -> Hashes \cup {None}]
    /\ epoch_slots_frozen_slots \in [Slots -> Hashes \cup {None}]
    /\ duplicate_slots_to_repair \in [Slots -> Hashes \cup {None}]
    /\ purge_repair_slot_counter \in [Slots -> 0..MaxDumps]
    /\ \A v \in Voters : max_replay_frozen_votes[v].hashes \subseteq Hashes
    /\ panicked \in BOOLEAN

\* The asserts and unwraps hold in every order of replay, duplicate,
\* EpochSlots, confirmation, dump and root events.  The verifier never
\* excludes a block that is duplicate confirmed (the assertions of
\* mark_fork_invalid_candidate and update_with_newly_invalid_ancestor), and
\* the blocks fork choice selects are banks in bank_forks (the two unwraps of
\* get_with_checked_hash in select_forks), although fork choice keeps the
\* blocks that dump_then_repair_correct_slots purged.  The second unwrap is
\* for the best block below the last vote, which may be any candidate here.
NeverPanics ==
    /\ ~ panicked
    /\ Frozen(best_overall_slot(tree))
    /\ \A k \in DOMAIN tree.fork_infos :
          is_candidate(tree.fork_infos, k) => Frozen(tree.fork_infos[k].best_slot)

InTree(vote) == {v \in Voters : vote[v] \in DOMAIN tree.fork_infos}

\* The incremental weights of fork choice are those of a recount: the stake
\* at a block is the stake of the voters whose latest vote is for it, and
\* the stake of a subtree is the sum over the subtree, whether or not its
\* blocks are candidates.  (In particular subtract_slot_stake never
\* underflows.)
WeightsMatchVotes ==
    LET info == tree.fork_infos
        vs == InTree(tree.latest_votes)
    IN  \A k \in DOMAIN info :
            /\ info[k].stake_voted_at = StakeFor(vs, tree.latest_votes, k)
            /\ info[k].stake_voted_subtree =
                  SumFunctionOnSet(Stake, {v \in vs : tree.latest_votes[v] \in subtree(info, k)})

\* The block a from-scratch walk finds below k: at each step the heaviest
\* candidate child.
HeaviestBelow[info \in {tree.fork_infos}, k \in Blocks] ==
    LET cs == {c \in children(info, k) : is_candidate(info, c)}
        weight == [c \in cs |-> info[c].stake_voted_subtree]
    IN  IF cs = {} THEN k ELSE HeaviestBelow[info, HeaviestOf(cs, weight)]

\* For every candidate block, the best_slot maintained by propagate_new_leaf
\* and aggregate_slot is the one a walk of the whole tree would find.
BestSlotIsHeaviest ==
    LET info == tree.fork_infos
    IN  \A k \in DOMAIN info :
            is_candidate(info, k) => info[k].best_slot = HeaviestBelow[info, k]

\* Exclusion is inherited and has a cause.  A candidate has only candidate
\* ancestors; a duplicate confirmed block is a candidate whose ancestors are
\* all duplicate confirmed; and the slot an excluded block names as its
\* latest_invalid_ancestor is its own or that of an ancestor which is an
\* unconfirmed duplicate, or which was one until a descendant on another
\* fork was duplicate confirmed (aggregate_slot clears the ancestors of that
\* descendant and not their other descendants).
ExclusionFollowsAncestors ==
    LET info == tree.fork_infos IN
    \A k \in DOMAIN info :
        /\ \A a \in ancestor_iterator(info, k) \ {tree.tree_root} :
              /\ is_candidate(info, k) => is_candidate(info, a)
              /\ is_duplicate_confirmed(info, k) => /\ is_duplicate_confirmed(info, a)
                                                    /\ is_candidate(info, k)
        /\ ~ is_candidate(info, k) =>
              \E a \in {k} \cup AncestorsOf[k] :
                 /\ SlotOf(a) = info[k].latest_invalid_ancestor
                 /\ a \in DOMAIN info => \/ is_unconfirmed_duplicate(info, a)
                                         \/ a # k /\ is_duplicate_confirmed(info, a)

\* Whatever the order of the events, once gossip reported the confirmed
\* version of a slot the verdict on a frozen version is right: the confirmed
\* one is duplicate confirmed and a candidate, another one is excluded and
\* waits to be dumped.
VerdictMatchesCluster ==
    \A s \in Slots : s > Root /\ bank[s] # None /\ gossip_duplicate_confirmed_slots[s] # None =>
        LET confirmed == gossip_duplicate_confirmed_slots[s]
            k == <<s, bank[s]>>
        IN  IF s \in dead THEN duplicate_slots_to_repair[s] = confirmed
            ELSE IF bank[s] = confirmed
            THEN is_duplicate_confirmed(tree.fork_infos, k)
            ELSE /\ ~ is_candidate(tree.fork_infos, k)
                 /\ duplicate_slots_to_repair[s] = confirmed

\* A frozen version of a slot known to be a duplicate is excluded from fork
\* choice until it is duplicate confirmed, unless an EpochSlots sample
\* vouched for this very version.
KnownDuplicateIsExcluded ==
    \A s \in duplicate_slots_tracker : s > Root /\ bank[s] # None /\ s \notin dead =>
        \/ ~ is_candidate(tree.fork_infos, <<s, bank[s]>>)
        \/ is_duplicate_confirmed(tree.fork_infos, <<s, bank[s]>>)
        \/ epoch_slots_frozen_slots[s] = bank[s]

\* generate_update_operations on a second vote for the same slot: "If the
\* new vote is for the same slot, but a different, smaller hash, then allow
\* processing to continue as this is a duplicate version of the same slot."
\* So of the versions a voter was seen to vote for, fork choice counts the
\* one with the smallest hash.
DuplicateVoteCountsSmallestHash ==
    \A v \in Voters :
        LET seen == max_replay_frozen_votes[v]
        IN  \A h \in seen.hashes : HashOf(tree.latest_votes[v]) <= h
=============================================================================
