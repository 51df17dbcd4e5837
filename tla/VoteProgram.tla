----------------------------- MODULE VoteProgram -----------------------------
(***************************************************************************)
(* One vote account as the vote program (programs/vote/src/vote_state)     *)
(* drives it, on one fork: the banks of the fork arrive in slot order,     *)
(* each with a bounded SlotHashes sysvar naming its newest ancestors, and  *)
(* transactions carry Vote or VoteStateUpdate instructions.                *)
(*                                                                         *)
(* A Vote instruction works on a local copy of the account's state, one    *)
(* vote slot at a time, and writes it back only if every check passed:     *)
(* `tx` is that copy.  Signatures are assumed right here; who may sign is  *)
(* the subject of VoteAuthority.                                           *)
(*                                                                         *)
(* A bank hash is represented by the slot of its bank; None stands for the *)
(* hash of a bank on some other fork.                                      *)
(***************************************************************************)
EXTENDS VoteState

CONSTANTS
    MAX_ENTRIES,       \* entries kept by the SlotHashes sysvar, 512 in the code
    SLOTS_PER_EPOCH,
    FeatureIds,        \* the feature gates that are ever activated
    Slots,             \* the slots the cluster reaches
    MaxSkip,           \* the largest distance of a bank from its parent
    VoteSlots,         \* the slot lists Vote instructions carry
    ProposedLockouts,  \* the lockout lists VoteStateUpdate instructions carry
    ProposedRoots,     \* the roots they carry
    Timestamps         \* the timestamps votes carry; None when a vote has none

ASSUME ProgramAssumption ==
    /\ MAX_ENTRIES \in Nat \ {0}
    /\ SLOTS_PER_EPOCH \in Nat \ {0}
    /\ Slots \subseteq Nat
    /\ MaxSkip \in Nat
    /\ VoteSlots \subseteq Seq(Nat)
    /\ ProposedLockouts \subseteq Seq(ProposedLockout)
    /\ ProposedRoots \subseteq Nat \cup {None}
    /\ Timestamps \subseteq Nat \cup {None}

VARIABLES
    slot,         \* the slot of the bank being executed
    fork,         \* the slots of its ancestors and itself
    slot_hashes,  \* the SlotHashes sysvar, newest first
    features,     \* the active features
    vs,           \* the account's VoteState
    tx            \* the Vote instruction being executed, if any

vars == <<slot, fork, slot_hashes, features, vs, tx>>

Idle == [active |-> FALSE, vs |-> EmptyVoteState, slots |-> << >>,
         max_slot |-> 0, timestamp |-> None]

Epoch(s) == s \div SLOTS_PER_EPOCH

\* The slots SlotHashes holds, and the oldest of them.
History == {slot_hashes[i] : i \in DOMAIN slot_hashes}
EarliestSlotHash == slot_hashes[Len(slot_hashes)]

-----------------------------------------------------------------------------
(* Vote instructions: process_vote_with_account *)

\* The slots process_vote keeps: those SlotHashes can still know.
FilteredSlots(slots) ==
    LET earliest == IF slot_hashes = << >> THEN 0 ELSE EarliestSlotHash
    IN  IF "filter_votes_outside_slot_hashes" \in features
        THEN Retain(slots, {i \in DOMAIN slots : slots[i] >= earliest})
        ELSE slots

\* check_slots_are_valid: the slots newer than the last vote appear in order in
\* SlotHashes and the vote carries the bank hash of the newest of them.  Slots
\* not newer are passed over, except behind a match with the newest entry, where
\* the scan is already over.
check_slots_are_valid(slots, hash) ==
    LET fresh  == {i \in DOMAIN slots : slots[i] > last_voted_slot(vs.votes)}
        newest == CHOOSE i \in fresh : \A j \in fresh : j <= i
    IN  /\ fresh # {}
        /\ \A i \in fresh : slots[i] \in History
        /\ \A i, j \in fresh : i < j => slots[i] < slots[j]
        /\ newest = Len(slots) \/ slots[newest] # slot_hashes[1]
        /\ hash = slots[newest]

\* Mutant: the slot of the bank that executes the vote.
MaxVoteSlot_of_bank(slots) == slot

\* The slot a Vote's timestamp is for.
MaxVoteSlot(slots) ==
    CHOOSE s \in {slots[i] : i \in DOMAIN slots} : \A i \in DOMAIN slots : slots[i] <= s

\* The checks of the instruction, and the copy it works on.
BeginVote(slots, hash, timestamp) ==
    /\ ~ tx.active
    /\ FilteredSlots(slots) # << >>
    /\ check_slots_are_valid(FilteredSlots(slots), hash)
    /\ tx' = [active    |-> TRUE,
              vs        |-> vs,
              slots     |-> FilteredSlots(slots),
              max_slot  |-> MaxVoteSlot(slots),
              timestamp |-> timestamp]
    /\ UNCHANGED <<slot, fork, slot_hashes, features, vs>>

\* One iteration of the loop over the vote's slots.
ProcessNextSlot ==
    /\ tx.active
    /\ tx.slots # << >>
    /\ tx' = [tx EXCEPT !.vs    = process_next_vote_slot(@, Head(tx.slots), Epoch(slot)),
                        !.slots = Tail(@)]
    /\ UNCHANGED <<slot, fork, slot_hashes, features, vs>>

\* The timestamp, then the write to the account; a timestamp that is too old
\* fails the instruction and the copy is dropped.
FinishVote ==
    /\ tx.active
    /\ tx.slots = << >>
    /\ vs' = IF tx.timestamp = None THEN tx.vs
             ELSE IF TimestampAccepted(tx.vs.last_timestamp, tx.max_slot, tx.timestamp)
             THEN [tx.vs EXCEPT !.last_timestamp =
                                   [slot |-> tx.max_slot, timestamp |-> tx.timestamp]]
             ELSE vs
    /\ tx' = Idle
    /\ UNCHANGED <<slot, fork, slot_hashes, features>>

-----------------------------------------------------------------------------
(* VoteStateUpdate instructions: do_process_vote_state_update *)

\* The first checks of check_update_vote_state_slots_are_valid: the update is
\* not empty, is newer than the account and not older than SlotHashes.
IsRecentUpdate(lockouts) ==
    /\ lockouts # << >>
    /\ lockouts[Len(lockouts)].slot > last_voted_slot(vs.votes)
    /\ slot_hashes # << >>
    /\ lockouts[Len(lockouts)].slot >= EarliestSlotHash

\* The votes the root fix looks at: newest first, up to the first one that is
\* not newer than the proposed root.
ScannedVotes(root) ==
    {i \in DOMAIN vs.votes : \A j \in (i + 1)..Len(vs.votes) : vs.votes[j].slot > root}

\* Mutants: the proposed root is trusted; the account's votes are not consulted.
VerifiedRoot_trusted(root) == root
VerifiedRoot_own_root(root) ==
    IF root = None \/ root >= EarliestSlotHash THEN root ELSE vs.root_slot

\* The root the update is checked and applied with.  A proposed root older than
\* SlotHashes cannot be verified: the account's own latest vote not newer than
\* it is used instead or, without the root fix, the account's own root.
VerifiedRoot(root) ==
    LET older == {i \in ScannedVotes(root) : vs.votes[i].slot <= root}
    IN  IF root = None \/ root >= EarliestSlotHash THEN root
        ELSE IF "vote_state_update_root_fix" \in features /\ older # {}
        THEN vs.votes[CHOOSE i \in older : TRUE].slot
        ELSE vs.root_slot

\* What the two-pointer walk over the update and SlotHashes accepts: an ordered
\* update whose root and slots are on this fork or older than SlotHashes.  A
\* root found above the oldest entry must not be newer than the first slot.
SlotsOnThisFork(lockouts, root) ==
    /\ \A i, j \in DOMAIN lockouts : i < j => lockouts[i].slot < lockouts[j].slot
    /\ root >= EarliestSlotHash => root \in History
    /\ root > EarliestSlotHash => root <= lockouts[1].slot
    /\ \A s \in SlotsOf(lockouts) : s >= EarliestSlotHash => s \in History

\* Slots too old to verify are dropped unless the account already holds them.
FilteredLockouts(lockouts) ==
    Retain(lockouts, {i \in DOMAIN lockouts :
                         \/ lockouts[i].slot >= EarliestSlotHash
                         \/ contains_slot(vs.votes, lockouts[i].slot)})

\* The state process_new_vote_state writes, its timestamp aside.
UpdatedState(new_state, root) ==
    [vs EXCEPT
        !.votes         = new_state,
        !.root_slot     = root,
        !.epoch_credits =
            IF vs.root_slot = root THEN @
            ELSE increment_credits(@, Epoch(slot),
                    IF "vote_state_update_credit_per_dequeue" \in features
                    THEN FinalizedSlotCount(vs.votes, root) ELSE 1)]

\* Whether an update is applied, and the state that results.
UpdateAccepted(lockouts, proposed_root, hash) ==
    LET root      == VerifiedRoot(proposed_root)
        new_state == FilteredLockouts(lockouts)
    IN  /\ IsRecentUpdate(lockouts)
        /\ hash = lockouts[Len(lockouts)].slot
        /\ SlotsOnThisFork(lockouts, root)
        /\ root >= vs.root_slot
        /\ IsWellFormed(new_state, root)
        /\ HasNoLockoutConflict(vs.votes, new_state, root)

ProcessVoteStateUpdate(lockouts, proposed_root, hash, timestamp) ==
    LET last    == lockouts[Len(lockouts)].slot
        updated == UpdatedState(FilteredLockouts(lockouts), VerifiedRoot(proposed_root))
    IN  /\ ~ tx.active
        /\ UpdateAccepted(lockouts, proposed_root, hash)
        /\ \/ /\ timestamp = None
              /\ vs' = updated
           \/ /\ timestamp # None
              /\ TimestampAccepted(vs.last_timestamp, last, timestamp)
              /\ vs' = [updated EXCEPT !.last_timestamp =
                                          [slot |-> last, timestamp |-> timestamp]]
        /\ UNCHANGED <<slot, fork, slot_hashes, features, tx>>

\* An instruction that fails any check leaves the account as it was.
RejectInstruction ==
    /\ ~ tx.active
    /\ UNCHANGED vars

-----------------------------------------------------------------------------
(* The fork grows *)

\* Mutant: nothing is truncated.
SlotHashesAdd_unbounded(hashes, s) == <<s>> \o hashes

\* SlotHashes::add, for a slot newer than all of them.
SlotHashesAdd(hashes, s) ==
    LET all == <<s>> \o hashes
    IN  IF Len(all) > MAX_ENTRIES THEN SubSeq(all, 1, MAX_ENTRIES) ELSE all

\* Bank::new_from_parent: features activate on an epoch boundary, and the
\* parent's hash enters SlotHashes, pushing out the oldest entry when full.
NewBank(s, activated) ==
    /\ ~ tx.active
    /\ s \in (slot + 1)..(slot + MaxSkip)
    /\ activated # {} => Epoch(s) > Epoch(slot)
    /\ slot' = s
    /\ fork' = fork \cup {s}
    /\ slot_hashes' = SlotHashesAdd(slot_hashes, slot)
    /\ features' = features \cup activated
    /\ UNCHANGED <<vs, tx>>

Init ==
    /\ slot = 0
    /\ fork = {0}
    /\ slot_hashes = << >>
    /\ features \in SUBSET FeatureIds
    /\ vs = EmptyVoteState
    /\ tx = Idle

Next ==
    \/ \E s \in Slots, activated \in SUBSET FeatureIds : NewBank(s, activated)
    \/ \E slots \in VoteSlots, timestamp \in Timestamps :
          \E hash \in {slots[i] : i \in DOMAIN slots} \cup {None} :
              BeginVote(slots, hash, timestamp)
    \/ ProcessNextSlot
    \/ FinishVote
    \/ \E lockouts \in ProposedLockouts :
          /\ IsRecentUpdate(lockouts)
          /\ \E root \in ProposedRoots, timestamp \in Timestamps,
                hash \in SlotsOf(lockouts) \cup {None} :
                ProcessVoteStateUpdate(lockouts, root, hash, timestamp)
    \/ RejectInstruction

Spec == Init /\ [][Next]_vars

-----------------------------------------------------------------------------
(* Properties *)

\* Every variable keeps its type; the executing copy is a vote state too.
TypeOK ==
    /\ slot \in Nat
    /\ fork \subseteq Nat
    /\ slot_hashes \in Seq(Nat) /\ Len(slot_hashes) <= MAX_ENTRIES
    /\ features \subseteq FeatureIds
    /\ vs \in VoteStates
    /\ tx \in [active : BOOLEAN, vs : VoteStates, slots : Seq(Nat),
               max_slot : Nat, timestamp : Nat \cup {None}]

\* What the comment above process_new_vote_state promises of every state it
\* writes (order, bounds on confirmations, nested lockouts), for both kinds of
\* vote instruction and at every iteration of process_vote.
TowerWellFormed == IsTower(vs.votes) /\ IsTower(tx.vs.votes)

\* The account only ever holds votes and a root on the fork it is executed on,
\* although SlotHashes can verify none that is older than its oldest entry: what
\* it cannot verify, check_update_vote_state_slots_are_valid takes from the
\* account itself or drops.
VotesOnThisFork ==
    /\ SlotsOf(vs.votes) \subseteq fork
    /\ SlotsOf(tx.vs.votes) \subseteq fork
    /\ vs.root_slot \in fork \cup {None}
    /\ tx.vs.root_slot \in fork \cup {None}

\* Everything voted on is newer than the root; slot 0 is exempt, because a
\* validator's tower has root 0 before it has rooted anything.
VotesAboveRoot ==
    \A i \in DOMAIN vs.votes : vs.votes[i].slot > vs.root_slot \/ vs.root_slot = 0

\* increment_credits is called with what finality justifies: an account never
\* has more credits than its fork has banks up to its root, however roots jump
\* and whichever credit rule is active.
CreditsMatchRootedBanks ==
    credits(vs.epoch_credits) <= Cardinality({s \in fork : s <= vs.root_slot})

\* Reward calculation subtracts prev_credits from credits epoch by epoch: each
\* entry continues the one before it, in a later epoch, and records a gain.
EpochCreditsChained ==
    LET ec == vs.epoch_credits
    IN  /\ Len(ec) <= MAX_EPOCH_CREDITS_HISTORY
        /\ \A i \in DOMAIN ec : ec[i][1] <= Epoch(slot) /\ ec[i][3] < ec[i][2]
        /\ \A i \in 1..(Len(ec) - 1) : ec[i][1] < ec[i + 1][1] /\ ec[i][2] = ec[i + 1][3]

\* A timestamp is recorded with the newest vote only, so it never runs ahead of
\* the votes (a later vote that lowers it is refused by process_timestamp).
TimestampNotAheadOfVotes ==
    vs.last_timestamp.slot <= last_voted_slot(vs.votes) \/ vs.last_timestamp.slot = 0

\* A validator that follows the protocol is never stuck: for every new slot it
\* can vote on, sending its tower as a VoteStateUpdate is accepted, and has the
\* same effect as sending the slot in a Vote.  Without the root fix this fails
\* once a new root is older than SlotHashes.
HonestUpdateAgreesWithVote ==
    ("vote_state_update_root_fix" \in features /\ ~ tx.active) =>
        \A s \in History :
            s > last_voted_slot(vs.votes) =>
                LET voted == process_next_vote_slot(vs, s, Epoch(slot))
                IN  /\ UpdateAccepted(voted.votes, voted.root_slot, s)
                    /\ voted = UpdatedState(FilteredLockouts(voted.votes),
                                            VerifiedRoot(voted.root_slot))

\* The assertion of the root fix, at every vote it scans for any root a
\* VoteStateUpdate may propose: votes go down as it walks from the newest, and
\* are above the account's root.
RootFixAssertionHolds ==
    \A root \in ProposedRoots \ {None} :
        (/\ "vote_state_update_root_fix" \in features
         /\ slot_hashes # << >>
         /\ root < EarliestSlotHash) =>
            \A i \in ScannedVotes(root) :
                /\ vs.votes[i].slot > vs.root_slot
                /\ i < Len(vs.votes) => vs.votes[i].slot < vs.votes[i + 1].slot

\* The new state `new` introduces no rollback with respect to `old`.
IsNoRollback(old, new) ==
    /\ new.root_slot >= old.root_slot
    /\ credits(new.epoch_credits) >= credits(old.epoch_credits)
    /\ new.votes # old.votes =>
          last_voted_slot(new.votes) > last_voted_slot(old.votes)
    /\ \A i \in DOMAIN old.votes :
          \/ old.votes[i].slot <= new.root_slot
          \/ \E j \in DOMAIN new.votes : /\ new.votes[j].slot = old.votes[i].slot
                                          /\ new.votes[j].conf >= old.votes[i].conf
          \/ \E j \in DOMAIN new.votes :
                ~ is_locked_out_at_slot(old.votes[i], new.votes[j].slot)

\* No instruction rolls the account back: the root, the credits and the last vote
\* never go down, and a vote that is locked out at every slot of the new tower
\* stays in it, with no fewer confirmations, until it is rooted. Of a vote that a
\* newer one has expired nothing is said.
NoRollback == [][IsNoRollback(vs, vs')]_vars
=============================================================================
