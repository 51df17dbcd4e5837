------------------------------- MODULE Tower --------------------------------
(***************************************************************************)
(* One validator's tower: the votes its replay stage records, the copy the *)
(* voting service saves before it sends a vote, the roots the blockstore   *)
(* keeps, and how a restart puts the three together again.                 *)
(*                                                                         *)
(*   src/core/src/consensus.rs       Tower, is_locked_out, the restore     *)
(*   src/core/src/replay_stage.rs    compute_bank_stats, voting, roots     *)
(*   src/core/src/voting_service.rs  save, then send                       *)
(*   src/core/src/validator.rs       startup                               *)
(*                                                                         *)
(* Stake is not modelled: the heaviest fork is any fork, and the threshold,*)
(* propagation and switch checks that only stake decides may pass or fail. *)
(***************************************************************************)
EXTENDS VoteState
LOCAL INSTANCE SequencesExt

CONSTANTS
    Slots,          \* the slots blocks are made for, 0 being genesis
    MaxSkip,        \* how many slots the cluster may skip between two blocks
    MaxCrashes,     \* how many crashes a behaviour has
    MaxQueue,       \* how many operations wait for the voting service
    LosesLedger,    \* may a crash lose the newest part of the blockstore?
    MayNotSign      \* may generate_vote_tx have no key, or not be ready, to sign?

ASSUME TowerAssumption ==
    /\ MAX_LOCKOUT_HISTORY > 1
    /\ Slots \subseteq Nat
    /\ 0 \in Slots
    /\ MaxSkip \in Nat
    /\ MaxCrashes \in Nat
    /\ MaxQueue \in Nat \ {0}
    /\ LosesLedger \in BOOLEAN
    /\ MayNotSign \in BOOLEAN

VARIABLES
    anc,        \* the cluster's blocks: the ancestors of each slot that has one
    landed,     \* the validator's vote state in each block
    sent,       \* the vote state updates the validator has sent
    cast,       \* the tower that the votes sent add up to
    ledger,     \* blockstore: the slots that are complete
    roots,      \* blockstore: the latest slot marked as a root
    disk,       \* the saved tower
    up,         \* is the process running?
    banks,      \* bank_forks: the root and what descends from it
    frozen,     \* the banks that are replayed in full
    computed,   \* the frozen banks compute_bank_stats has seen
    votable,    \* and those that it did not find locked out
    tower,      \* replay stage's Tower
    queue,      \* the operations sent to the voting service
    crashes     \* the number of crashes so far

clusterVars == <<anc, landed, sent, cast>>
durableVars == <<ledger, roots, disk>>
memoryVars == <<up, banks, frozen, computed, votable, tower, queue>>
vars == <<clusterVars, durableVars, memoryVars, crashes>>
-----------------------------------------------------------------------------
\* A vote state update, and the tower it is a copy of. last is the last_vote
\* field, a whole update; stray is stray_restored_slot.
NoVote == [votes |-> << >>, root |-> None]
GenesisTower == [votes |-> << >>, root |-> 0, last |-> NoVote, stray |-> None]
NoTower == [GenesisTower EXCEPT !.root = None]

Blocks == DOMAIN anc
Parent(s) == CHOOSE p \in anc[s] : \A a \in anc[s] : a <= p
Root == CHOOSE r \in banks : \A b \in banks : r <= b

\* BankForks::ancestors: nothing below the root of bank_forks.
ancestors(b) == {a \in anc[b] : a >= Root}

LastVotedSlot(t) == last_voted_slot(t.last.votes)

is_stray_last_vote(t) == t.stray # None /\ t.stray = LastVotedSlot(t)

process_slot_vote_unchecked(t, slot) ==
    LET vs == process_next_vote_slot(
                  [EmptyVoteState EXCEPT !.votes = t.votes, !.root_slot = t.root],
                  slot, 0)
    IN  [t EXCEPT !.votes = vs.votes, !.root = vs.root_slot]

is_recent(t, slot) ==
    slot > IF t.votes # << >> THEN last_voted_slot(t.votes) ELSE t.root

\* The votes that keep a validator from voting on slot.
IsOnOneFork(t, slot) ==
    \A v \in SlotsOf(process_slot_vote_unchecked(t, slot).votes) :
        v = slot \/ v \in ancestors(slot)

\* Mutant: any fork will do.
is_locked_out_if_old(t, slot) == ~ is_recent(t, slot)

is_locked_out(t, slot) == ~ (is_recent(t, slot) /\ IsOnOneFork(t, slot))

\* The assertion is_locked_out ends with: the root the vote makes, or leaves.
RootIsAncestor(t, slot) ==
    LET root == process_slot_vote_unchecked(t, slot).root
    IN  slot = root \/ root \in ancestors(slot)

\* Mutant: last_vote stays behind.
record_bank_vote_stale_last(t, slot) == process_slot_vote_unchecked(t, slot)

\* record_bank_vote_and_update_lockouts. SavedTower leaves out the stray slot.
record_bank_vote(t, slot) ==
    LET voted == process_slot_vote_unchecked(t, slot)
    IN  [voted EXCEPT !.last = [votes |-> voted.votes, root |-> voted.root]]
Saved(t) == [t EXCEPT !.stray = None]
-----------------------------------------------------------------------------
\* The part of process_new_vote_state that decides whether an update lands in a
\* block with ancestors A: the vote is new, on this fork and in keeping with the
\* lockouts the account holds.
Lands(account, update, A) ==
    /\ last_voted_slot(update.votes) > last_voted_slot(account.votes)
    /\ SlotsOf(update.votes) \subseteq A
    /\ update.root >= account.root
    /\ IsWellFormed(update.votes, update.root)
    /\ HasNoLockoutConflict(account.votes, update.votes, update.root)

\* The cluster makes a block, with at most one of the validator's votes, which
\* the validator's blockstore receives.
ProduceBlock(s, p) ==
    /\ s \in Slots
    /\ p \in Blocks
    /\ \A b \in Blocks : b < s
    /\ \E b \in Blocks : s <= b + 1 + MaxSkip
    /\ LET A == anc[p] \cup {p}
       IN  /\ anc' = [b \in Blocks \cup {s} |-> IF b = s THEN A ELSE anc[b]]
           /\ \E account \in {landed[p]} \cup {u \in sent : Lands(landed[p], u, A)} :
                 landed' = [b \in Blocks \cup {s} |->
                               IF b = s THEN account ELSE landed[b]]
    /\ ledger' = ledger \cup {s}
    /\ UNCHANGED <<sent, cast, roots, disk, memoryVars, crashes>>

\* Repair fetches again a block that a crash lost.
Repair(s) ==
    /\ s \in Blocks \ ledger
    /\ Parent(s) \in ledger
    /\ ledger' = ledger \cup {s}
    /\ UNCHANGED <<clusterVars, roots, disk, memoryVars, crashes>>

\* generate_new_bank_forks: a bank for a block whose parent is a frozen bank.
NewBank(s) ==
    /\ up
    /\ s \in ledger \ banks
    /\ s # 0
    /\ Parent(s) \in frozen
    /\ banks' = banks \cup {s}
    /\ UNCHANGED <<clusterVars, durableVars, up, frozen, computed, votable,
                   tower, queue, crashes>>

\* Mutant: a slot is replayed before it has a bank.
FreezeBank_unborn(s) ==
    /\ up
    /\ s \in ledger \ frozen
    /\ frozen' = frozen \cup {s}
    /\ UNCHANGED <<clusterVars, durableVars, up, banks, computed, votable,
                   tower, queue, crashes>>

\* replay_active_banks, to the end of one bank.
FreezeBank(s) ==
    /\ up
    /\ s \in banks \ frozen
    /\ frozen' = frozen \cup {s}
    /\ UNCHANGED <<clusterVars, durableVars, up, banks, computed, votable,
                   tower, queue, crashes>>

\* compute_bank_stats, for one bank that it has not seen: a tower t that is behind
\* the bank's vote state becomes a copy of it, without the votes its own root has
\* outdated. last_vote and the root of bank_forks stay as they are.
AdoptsVoteState(t, s) ==
    last_voted_slot(landed[s].votes) > last_voted_slot(t.votes)

\* Mutants: the bank's root and votes are taken over as they are.
AdoptedRoot_of_bank(t, s) == landed[s].root
AdoptedVotes_of_bank(t, s) == landed[s].votes

AdoptedRoot(t, s) ==
    IF t.root > landed[s].root THEN t.root ELSE landed[s].root

AdoptedVotes(t, s) ==
    LET votes == landed[s].votes
    IN  IF t.root > landed[s].root
        THEN Retain(votes, {i \in DOMAIN votes : votes[i].slot > t.root})
        ELSE votes

AdoptVoteState(t, s) ==
    IF AdoptsVoteState(t, s)
    THEN [t EXCEPT !.root = AdoptedRoot(t, s), !.votes = AdoptedVotes(t, s)]
    ELSE t

\* The tower once the new banks of S have had their turn, in the order of their
\* slots, and the tower before and after the turn of bank b.
TowerAfter(S) == FoldLeft(AdoptVoteState, tower, SetToSortSeq(S \ computed, <))
TowerBefore(b) == TowerAfter({s \in frozen : s < b})
TowerAt(b) == TowerAfter({s \in frozen : s <= b})

\* compute_bank_stats: every frozen bank in turn, the flag is_locked_out of a bank
\* being what the tower says at its turn, whatever a later bank makes of the
\* tower. Where the assertion of is_locked_out fails the process ends (Crash).
ComputeBankStats ==
    /\ up
    /\ votable' = {b \in frozen : ~ is_locked_out(TowerAt(b), b)}
    /\ \A b \in votable' : RootIsAncestor(TowerAt(b), b)
    /\ tower' = TowerAfter(frozen)
    /\ computed' = frozen
    /\ UNCHANGED <<clusterVars, durableVars, up, banks, frozen, queue, crashes>>
-----------------------------------------------------------------------------
\* The bank fork choice may take for the heaviest: a tip of the frozen banks.
IsTip(b) == b \in frozen /\ \A f \in frozen : b \notin ancestors(f)

\* make_check_switch_threshold_decision, where stake has no say: the vote is on
\* the fork of the last one, or else it may have a switch proof, unless it is for
\* an ancestor of a last vote that was restored and is being replayed again.
IsSuspended(b) ==
    /\ LastVotedSlot(tower) \in banks
    /\ b \in ancestors(LastVotedSlot(tower))

MaySwitchTo(b) ==
    \/ tower.last = NoVote
    \/ b = LastVotedSlot(tower)
    \/ LastVotedSlot(tower) \in ancestors(b)
    \/ ~ IsSuspended(b)

\* select_vote_and_reset_forks and handle_votable_bank. A vote that makes a root
\* marks it in the blockstore and prunes bank_forks before it is passed on; a
\* vote that cannot be signed is recorded and not passed on. The next vote is for
\* the next pass of compute_bank_stats to allow.
HandleVotableBank(b) ==
    /\ up
    /\ computed = frozen
    /\ IsTip(b)
    /\ MaySwitchTo(b)
    /\ b \in votable
    /\ tower' = record_bank_vote(tower, b)
    /\ IF tower'.root # tower.root
       THEN LET kept == {s \in banks : s = tower'.root \/ tower'.root \in anc[s]}
            IN  /\ roots' = tower'.root
                /\ banks' = kept
                /\ frozen' = frozen \cap kept
                /\ computed' = computed \cap kept
       ELSE UNCHANGED <<roots, banks, frozen, computed>>
    /\ votable' = {}
    /\ \/ /\ Len(queue) < MaxQueue
          /\ queue' = Append(queue, [saved |-> Saved(tower'), vote |-> tower'.last])
       \/ MayNotSign /\ UNCHANGED queue
    /\ UNCHANGED <<clusterVars, ledger, disk, up, crashes>>

\* refresh_last_vote: the last vote again, when the heaviest bank of its fork has
\* an earlier vote of ours and not this one.
RefreshLastVote(b) ==
    /\ up
    /\ computed = frozen
    /\ tower.last # NoVote
    /\ LastVotedSlot(tower) \in frozen
    /\ IsTip(b)
    /\ b = LastVotedSlot(tower) \/ LastVotedSlot(tower) \in ancestors(b)
    /\ landed[b].votes # << >>
    /\ last_voted_slot(landed[b].votes) < LastVotedSlot(tower)
    /\ Len(queue) < MaxQueue
    /\ queue' = Append(queue, [saved |-> NoTower, vote |-> tower.last])
    /\ UNCHANGED <<clusterVars, durableVars, up, banks, frozen, computed,
                   votable, tower, crashes>>

\* VotingService::handle_vote, in two steps that a crash may come between. A
\* refresh saves nothing.
StoreTower ==
    /\ up
    /\ queue # << >>
    /\ Head(queue).saved # NoTower
    /\ disk' = Head(queue).saved
    /\ queue' = [queue EXCEPT ![1].saved = NoTower]
    /\ UNCHANGED <<clusterVars, ledger, roots, up, banks, frozen, computed,
                   votable, tower, crashes>>

\* Mutant: the vote goes out before the tower is saved.
SendVote_unsaved ==
    /\ up
    /\ queue # << >>
    /\ sent' = sent \cup {Head(queue).vote}
    /\ cast' = process_slot_vote_unchecked(cast, last_voted_slot(Head(queue).vote.votes))
    /\ queue' = Tail(queue)
    /\ UNCHANGED <<anc, landed, durableVars, up, banks, frozen, computed,
                   votable, tower, crashes>>

SendVote ==
    /\ up
    /\ queue # << >>
    /\ Head(queue).saved = NoTower
    /\ sent' = sent \cup {Head(queue).vote}
    /\ cast' = process_slot_vote_unchecked(cast, last_voted_slot(Head(queue).vote.votes))
    /\ queue' = Tail(queue)
    /\ UNCHANGED <<anc, landed, durableVars, up, banks, frozen, computed,
                   votable, tower, crashes>>
-----------------------------------------------------------------------------
\* The process ends. What was written stays; where LosesLedger allows it the
\* blockstore may lose its newest roots, and its newest blocks with them.
Crash ==
    /\ up
    /\ crashes < MaxCrashes
    /\ crashes' = crashes + 1
    /\ up' = FALSE
    /\ banks' = {}
    /\ frozen' = {}
    /\ computed' = {}
    /\ votable' = {}
    /\ tower' = NoTower
    /\ queue' = << >>
    /\ \/ UNCHANGED <<ledger, roots>>
       \/ /\ LosesLedger
          /\ roots' \in anc[roots]
          /\ \E newest \in {s \in ledger : s >= roots'} :
                ledger' = {s \in ledger : s <= newest}
    /\ UNCHANGED <<clusterVars, disk>>

\* load_frozen_forks: every complete slot that descends from the root.
ReplayedBanks == {s \in ledger : s = roots \/ (roots \in anc[s] /\ anc[s] \subseteq ledger)}

\* reconcile_blockstore_roots_with_external_source: the saved tower's root, with
\* its ancestors, if the blockstore has it. The root of bank_forks stays.
ReconciledRoot ==
    IF disk.root > roots /\ disk.root \in ledger THEN disk.root ELSE roots

\* adjust_lockouts_with_slot_history: the slots of a tower, its root first, the
\* newest that the history has, and the votes after it.
SlotsInTower(t) == <<t.root>> \o [i \in DOMAIN t.votes |-> t.votes[i].slot]

AnchoredAt(t, history) ==
    {i \in DOMAIN SlotsInTower(t) :
        /\ SlotsInTower(t)[i] \in history
        /\ \A j \in DOMAIN SlotsInTower(t) :
              SlotsInTower(t)[j] \in history => j <= i}

IsConsistent(t, history) ==
    \E i \in AnchoredAt(t, history) :
        \A j \in 1..(i - 1) : SlotsInTower(t)[j] \in history

\* Mutants: the first vote after the anchor goes too; the stray slot is not set.
WithoutHistory_one_more(t, history) ==
    LET anchor == CHOOSE i \in AnchoredAt(t, history) : TRUE
        votes  == Retain(t.votes, {j \in DOMAIN t.votes : j > anchor})
        last   == IF votes = << >> THEN NoVote ELSE t.last
    IN  [t EXCEPT !.votes = votes,
                  !.last  = last,
                  !.stray = IF votes = << >> THEN @ ELSE last_voted_slot(last.votes)]
WithoutHistory_not_stray(t, history) ==
    LET anchor == CHOOSE i \in AnchoredAt(t, history) : TRUE
        votes  == Retain(t.votes, {j \in DOMAIN t.votes : j + 1 > anchor})
    IN  [t EXCEPT !.votes = votes, !.last = IF votes = << >> THEN NoVote ELSE @]

WithoutHistory(t, history) ==
    LET anchor == CHOOSE i \in AnchoredAt(t, history) : TRUE
        votes  == Retain(t.votes, {j \in DOMAIN t.votes : j + 1 > anchor})
        last   == IF votes = << >> THEN NoVote ELSE t.last
    IN  [t EXCEPT !.votes = votes,
                  !.last  = last,
                  !.stray = IF votes = << >> THEN @ ELSE last_voted_slot(last.votes)]

\* adjust_lockouts_after_replay, the slot history being that of the root bank. A
\* tower from the future keeps its root.
ReplayHistory == anc[roots] \cup {roots}

\* Mutant: a tower from the future is looked up as any other.
TowerHistory_no_warp == ReplayHistory

TowerHistory ==
    IF disk.root <= roots THEN ReplayHistory ELSE ReplayHistory \cup {disk.root}

adjust_lockouts_after_replay ==
    LET adjusted == WithoutHistory(disk, TowerHistory)
    IN  IF disk.root <= roots THEN [adjusted EXCEPT !.root = roots] ELSE adjusted

\* Tower::new_from_bankforks, the heaviest bank being b.
new_from_bankforks(b) ==
    LET votes == landed[b].votes
    IN  [GenesisTower EXCEPT
            !.root  = roots,
            !.votes = Retain(votes, {i \in DOMAIN votes : votes[i].slot > roots})]

CanRestore == disk # NoTower /\ IsConsistent(disk, TowerHistory)

\* ProcessBlockStore::process: the blockstore is replayed before the tower is
\* read, so that the root found here is not the reconciled one.
Restart ==
    /\ ~ up
    /\ up' = TRUE
    /\ banks' = ReplayedBanks
    /\ frozen' = ReplayedBanks
    /\ computed' = {}
    /\ votable' = {}
    /\ roots' = IF disk = NoTower THEN roots ELSE ReconciledRoot
    /\ IF CanRestore
       THEN tower' = adjust_lockouts_after_replay
       ELSE \E b \in ReplayedBanks :
               /\ \A s \in ReplayedBanks : b \notin anc[s]
               /\ tower' = new_from_bankforks(b)
    /\ UNCHANGED <<clusterVars, ledger, disk, queue, crashes>>
-----------------------------------------------------------------------------
Init ==
    /\ anc = [s \in {0} |-> {}]
    /\ landed = [s \in {0} |-> NoVote]
    /\ sent = {}
    /\ cast = GenesisTower
    /\ ledger = {0}
    /\ roots = 0
    /\ disk = NoTower
    /\ up = TRUE
    /\ banks = {0}
    /\ frozen = {0}
    /\ computed = {}
    /\ votable = {}
    /\ tower = GenesisTower
    /\ queue = << >>
    /\ crashes = 0

Next ==
    \/ \E s, p \in Slots : ProduceBlock(s, p)
    \/ \E s \in Slots : Repair(s)
    \/ \E s \in Slots : NewBank(s)
    \/ \E s \in Slots : FreezeBank(s)
    \/ ComputeBankStats
    \/ \E b \in Slots : HandleVotableBank(b)
    \/ \E b \in Slots : RefreshLastVote(b)
    \/ StoreTower
    \/ SendVote
    \/ Crash
    \/ Restart

Spec == Init /\ [][Next]_vars
-----------------------------------------------------------------------------
IsUpdate(u) ==
    /\ \A i \in DOMAIN u.votes : u.votes[i] \in Lockout
    /\ u.root \in Slots \cup {None}

\* The variables keep their types, and what is in memory is part of the ledger.
TypeOK ==
    /\ Blocks \subseteq Slots
    /\ \A s \in Blocks : anc[s] \subseteq Blocks /\ IsUpdate(landed[s])
    /\ DOMAIN landed = Blocks
    /\ \A u \in sent : IsUpdate(u)
    /\ \A t \in {cast, disk, tower} : IsUpdate(t) /\ IsUpdate(t.last)
    /\ ledger \subseteq Blocks
    /\ roots \in ledger
    /\ up \in BOOLEAN
    /\ votable \subseteq computed /\ computed \subseteq frozen
    /\ frozen \subseteq banks /\ banks \subseteq ledger
    /\ Len(queue) <= MaxQueue
    /\ crashes \in 0..MaxCrashes

\* A validator never sends a vote its earlier votes lock it out from, whatever
\* crashes come between them: the votes sent that are not expired, and the root
\* they make, are all ancestors of the latest one. This needs every vote to be
\* signed when it is recorded (MayNotSign = FALSE): a vote that is first sent by
\* refresh_last_vote is in no saved tower, and a crash forgets it.
SentVotesRespectLockout ==
    \A s \in SlotsOf(cast.votes) \cup {cast.root} :
        cast.votes # << >> =>
            LET latest == last_voted_slot(cast.votes)
            IN  s = latest \/ s \in anc[latest]

\* A vote is in the saved tower before anybody sees it (handle_vote stores, then
\* sends), and a later save never forgets it.
SavedTowerCoversSentVotes ==
    \A u \in sent :
        /\ disk # NoTower
        /\ LastVotedSlot(disk) >= last_voted_slot(u.votes)
        /\ disk.root >= u.root

\* The assertion of is_locked_out: a bank that is not locked out descends from
\* the tower's root ("bank forks purges all non-descendants of the root").
RootAssertionHolds ==
    up => \A b \in frozen :
             ~ is_locked_out(TowerAt(b), b) => RootIsAncestor(TowerAt(b), b)

\* The assertions of make_check_switch_threshold_decision: a last vote that has
\* no bank, or that the heaviest bank is an ancestor of, was restored.
SwitchAssertionsHold ==
    (up /\ computed = frozen /\ tower.last # NoVote) =>
        \/ is_stray_last_vote(tower)
        \/ /\ LastVotedSlot(tower) \in banks
           /\ \A b \in frozen : IsTip(b) => ~ IsSuspended(b)

\* The assertion of compute_bank_stats: the first vote taken over from a bank has
\* a bank, which descends from the tower's own root.
AdoptionAssertionHolds ==
    \A s \in frozen \ computed :
        LET t     == TowerBefore(s)
            votes == AdoptedVotes(t, s)
        IN  (AdoptsVoteState(t, s) /\ t.root > landed[s].root /\ votes # << >>)
            => votes[1].slot \in banks /\ t.root \in ancestors(votes[1].slot)

\* What the restore asserts of the saved tower (it holds its own last vote, its
\* slots grow) and of the blockstore (its root is an ancestor of the tower's).
RestoreAssertionsHold ==
    disk # NoTower =>
        /\ disk.votes # << >> /\ disk.last # NoVote
        /\ LastVotedSlot(disk) = last_voted_slot(disk.votes)
        /\ \A i, j \in DOMAIN SlotsInTower(disk) :
              i < j => SlotsInTower(disk)[i] < SlotsInTower(disk)[j]
        /\ (~ up /\ disk.root > roots /\ disk.root \in ledger)
              => roots \in anc[disk.root]

\* None of the assertions of replay_stage.rs and consensus.rs about the tower can
\* fail, at any point of voting, adopting a vote state, crashing and restoring,
\* as long as the blockstore keeps its roots (LosesLedger = FALSE).
TowerAssertionsHold ==
    /\ RootAssertionHolds
    /\ SwitchAssertionsHold
    /\ AdoptionAssertionHolds
    /\ RestoreAssertionsHold

\* After a crash that lost roots, those of is_locked_out, of the switch and of the
\* restore hold as well, but for one case: while the restored tower's root is one
\* that bank_forks has yet to reach, a fork without that root is not purged, and a
\* bank of it that is not locked out, once the votes above the root have expired,
\* fails the assertion of is_locked_out. Nothing is said of that case.
LedgerLossAssertionsHold ==
    /\ (up /\ tower.root > Root) \/ RootAssertionHolds
    /\ SwitchAssertionsHold
    /\ RestoreAssertionsHold

\* A restart never has to give up a saved tower: it always meets the slot history
\* of the replayed root, a tower from the future included.
SavedTowerRestorable == (~ up /\ disk # NoTower) => CanRestore

\* Votes are sent in the order of their slots: no second vote on a slot, none on
\* an older one, after any crash and restart.
SendsInOrder ==
    [][\A u \in sent' \ sent, w \in sent :
          last_voted_slot(u.votes) > last_voted_slot(w.votes)]_vars

\* A restart keeps what the saved tower locks: an unexpired vote leaves the tower
\* only if the root bank descends from it.
RestartKeepsLockouts ==
    [][(~ up /\ up' /\ disk # NoTower) =>
          /\ tower'.root >= disk.root
          /\ \A i \in DOMAIN disk.votes :
                \/ \E j \in DOMAIN tower'.votes : tower'.votes[j] = disk.votes[i]
                \/ disk.votes[i].slot \in anc[roots] \cup {roots}]_vars
=============================================================================
