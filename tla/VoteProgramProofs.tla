-------------------------- MODULE VoteProgramProofs --------------------------
(***************************************************************************)
(* Theorems about VoteProgram, for every value of its constants: whatever  *)
(* instructions a fork executes, its vote account holds a tower, and only  *)
(* votes and roots of that fork.                                           *)
(***************************************************************************)
EXTENDS VoteProgram, VoteStateProofs

\* SlotHashes names only slots of the fork.
SlotHashesOnThisFork == slot \in fork /\ History \subseteq fork

\* What is left of a Vote instruction's slots once they passed the check: slots
\* of the fork, and slots so old that process_next_vote_slot ignores them.
PendingSlotsOnThisFork ==
    \A i \in DOMAIN tx.slots :
        tx.slots[i] \in fork \/ tx.slots[i] <= last_voted_slot(tx.vs.votes)

\* The inductive invariant.
IInv ==
    /\ TypeOK
    /\ TowerWellFormed
    /\ VotesOnThisFork
    /\ SlotHashesOnThisFork
    /\ PendingSlotsOnThisFork

LEMMA EmptyStateOK ==
    EmptyVoteState \in VoteStates /\ IsTower(EmptyVoteState.votes) /\ SlotsOf(EmptyVoteState.votes) = {}
BY ConstantsAssumption DEF EmptyVoteState, VoteStates, BlockTimestamp, IsTower, SlotsOf, None

LEMMA IdleOK ==
    /\ Idle \in [active : BOOLEAN, vs : VoteStates, slots : Seq(Nat),
                 max_slot : Nat, timestamp : Nat \cup {None}]
    /\ Idle.vs = EmptyVoteState
    /\ Idle.slots = << >>
BY EmptyStateOK DEF Idle

\* The fields of the transaction being executed.
LEMMA TxFields ==
    ASSUME TypeOK
    PROVE  /\ tx.vs \in VoteStates /\ tx.slots \in Seq(Nat) /\ tx.max_slot \in Nat
           /\ tx.timestamp \in Nat \cup {None} /\ tx.active \in BOOLEAN
BY Zenon DEF TypeOK

LEMMA EpochType == \A s \in Nat : Epoch(s) \in Nat
BY ProgramAssumption DEF Epoch

\* FilteredSlots drops slots and adds none.
LEMMA FilteredSlotsType ==
    ASSUME NEW slots \in Seq(Nat)
    PROVE  /\ FilteredSlots(slots) \in Seq(Nat)
           /\ FilteredSlots(slots) # << >> => slots # << >>
<1> DEFINE kept(e) == {i \in DOMAIN slots : slots[i] >= e}
<1>1. \A e : /\ Retain(slots, kept(e)) \in Seq(Nat)
             /\ Len(Retain(slots, kept(e))) <= Len(slots)
  <2>1. TAKE e
  <2>2. kept(e) \subseteq DOMAIN slots
    BY Zenon
  <2> HIDE DEF kept
  <2> QED
    BY <2>2, RetainDef
<1>2. \A e : Retain(slots, kept(e)) # << >> => slots # << >>
  <2>1. TAKE e
  <2> DEFINE r == Retain(slots, kept(e))
  <2>2. r \in Seq(Nat) /\ Len(r) <= Len(slots)
    BY Zenon, <1>1
  <2> HIDE DEF r, kept
  <2>3. r # << >> => Len(r) > 0
    BY <2>2
  <2>4. r # << >> => Len(slots) > 0
    BY <2>2, <2>3
  <2> QED
    BY <2>4 DEF r
<1> QED
  BY Zenon, <1>1, <1>2 DEF FilteredSlots

\* Init establishes the invariant.
LEMMA InitInv == Init => IInv
<1>1. SUFFICES ASSUME Init
               PROVE  IInv
  BY Zenon
<1>2. TypeOK
  BY <1>1, EmptyStateOK, IdleOK, ProgramAssumption DEF Init, TypeOK
<1>3. TowerWellFormed
  BY Zenon, <1>1, EmptyStateOK, IdleOK DEF Init, TowerWellFormed
<1>4. VotesOnThisFork
  BY <1>1, EmptyStateOK, IdleOK DEF Init, VotesOnThisFork, EmptyVoteState
<1>5. SlotHashesOnThisFork
  BY <1>1 DEF Init, SlotHashesOnThisFork, History
<1>6. PendingSlotsOnThisFork
  BY <1>1, IdleOK DEF Init, PendingSlotsOnThisFork
<1> QED
  BY Zenon, <1>2, <1>3, <1>4, <1>5, <1>6 DEF IInv

\* Bank::new_from_parent: the fork only grows, and SlotHashes gets the parent.
LEMMA NewBankInv ==
    ASSUME IInv, NEW s \in Slots, NEW activated \in SUBSET FeatureIds, NewBank(s, activated)
    PROVE  IInv'
<1> DEFINE all == <<slot>> \o slot_hashes
<1>1. slot \in Nat /\ fork \subseteq Nat /\ slot_hashes \in Seq(Nat) /\ features \subseteq FeatureIds
  BY Zenon DEF IInv, TypeOK
<1>2. s \in Nat
  BY Zenon, ProgramAssumption
<1>3. /\ slot' = s /\ fork' = fork \cup {s} /\ features' = features \cup activated
      /\ vs' = vs /\ tx' = tx
      /\ slot_hashes' = IF Len(all) > MAX_ENTRIES THEN SubSeq(all, 1, MAX_ENTRIES) ELSE all
  BY Zenon DEF NewBank, SlotHashesAdd
<1>4. all \in Seq(Nat) /\ \A i \in DOMAIN all : all[i] \in fork
  BY <1>1 DEF IInv, SlotHashesOnThisFork, History
<1>5. /\ slot_hashes' \in Seq(Nat) /\ Len(slot_hashes') <= MAX_ENTRIES
      /\ \A i \in DOMAIN slot_hashes' : slot_hashes'[i] \in fork
  <2> HIDE DEF all
  <2>1. CASE Len(all) > MAX_ENTRIES
    <3> DEFINE sub == SubSeq(all, 1, MAX_ENTRIES)
    <3>1. /\ sub \in Seq(Nat) /\ Len(sub) = MAX_ENTRIES
          /\ \A i \in DOMAIN sub : sub[i] \in fork
      BY <1>4, <2>1, ProgramAssumption
    <3>2. slot_hashes' = sub
      BY Zenon, <1>3, <2>1
    <3> HIDE DEF sub
    <3> QED
      BY <3>1, <3>2, ProgramAssumption
  <2>2. CASE ~ (Len(all) > MAX_ENTRIES)
    BY <1>3, <1>4, <2>2, ProgramAssumption
  <2> QED
    BY Zenon, <2>1, <2>2
<1>6. TypeOK'
  BY Zenon, <1>1, <1>2, <1>3, <1>5 DEF IInv, TypeOK
<1>7. TowerWellFormed'
  BY Zenon, <1>3 DEF IInv, TowerWellFormed
<1>8. VotesOnThisFork'
  BY Zenon, <1>3 DEF IInv, VotesOnThisFork
<1>9. SlotHashesOnThisFork'
  BY Zenon, <1>3, <1>5 DEF SlotHashesOnThisFork, History
<1>10. PendingSlotsOnThisFork'
  BY Zenon, <1>3 DEF IInv, PendingSlotsOnThisFork
<1> QED
  BY Zenon, <1>6, <1>7, <1>8, <1>9, <1>10 DEF IInv

\* The checks of process_vote: what is copied is the account, and the slots to
\* come are on the fork or are ignored.
LEMMA BeginVoteInv ==
    ASSUME IInv, NEW slots \in VoteSlots, NEW hash, NEW timestamp \in Timestamps,
           BeginVote(slots, hash, timestamp)
    PROVE  IInv'
<1> DEFINE kept == FilteredSlots(slots)
           greatest == MaxVoteSlot(slots)
<1>1. slots \in Seq(Nat) /\ timestamp \in Nat \cup {None}
  BY Zenon, ProgramAssumption
<1>2. /\ tx' = [active |-> TRUE, vs |-> vs, slots |-> kept,
                max_slot |-> greatest, timestamp |-> timestamp]
      /\ slot' = slot /\ fork' = fork /\ slot_hashes' = slot_hashes
      /\ features' = features /\ vs' = vs
      /\ kept # << >>
      /\ check_slots_are_valid(kept, hash)
  BY Zenon DEF BeginVote
<1>3. kept \in Seq(Nat) /\ slots # << >>
  BY Zenon, <1>1, <1>2, FilteredSlotsType
<1> HIDE DEF kept
<1>4. greatest \in Nat
  <2>1. greatest \in {slots[i] : i \in DOMAIN slots}
    BY Zenon, <1>1, <1>3, GreatestSlot DEF MaxVoteSlot
  <2> HIDE DEF greatest
  <2>2. PICK i \in DOMAIN slots : greatest = slots[i]
    BY Zenon, <2>1
  <2> QED
    BY <1>1, <2>2
<1> HIDE DEF greatest
<1>5. TypeOK'
  BY Zenon, <1>1, <1>2, <1>3, <1>4 DEF IInv, TypeOK
<1>6. TowerWellFormed'
  BY Zenon, <1>2 DEF IInv, TowerWellFormed
<1>7. VotesOnThisFork'
  BY Zenon, <1>2 DEF IInv, VotesOnThisFork
<1>8. SlotHashesOnThisFork'
  BY Zenon, <1>2 DEF IInv, SlotHashesOnThisFork, History
<1>9. PendingSlotsOnThisFork'
  <2>1. SUFFICES ASSUME NEW i \in DOMAIN kept
                 PROVE  kept[i] \in fork \/ kept[i] <= last_voted_slot(vs.votes)
    BY Zenon, <1>2 DEF PendingSlotsOnThisFork
  <2>2. vs \in VoteStates /\ IsTower(vs.votes)
    BY Zenon DEF IInv, TypeOK, TowerWellFormed
  <2>3. last_voted_slot(vs.votes) \in Nat \cup {None}
    BY Zenon, <2>2, LastVotedSlot DEF VoteStates
  <2>4. kept[i] \in Nat
    BY <1>3
  <2>5. kept[i] > last_voted_slot(vs.votes) => kept[i] \in History
    BY Zenon, <1>2 DEF check_slots_are_valid
  <2> QED
    BY <2>3, <2>4, <2>5 DEF IInv, SlotHashesOnThisFork, None
<1> QED
  BY Zenon, <1>5, <1>6, <1>7, <1>8, <1>9 DEF IInv

\* One iteration of process_vote's loop.
LEMMA ProcessNextSlotInv ==
    ASSUME IInv, ProcessNextSlot
    PROVE  IInv'
<1> DEFINE s == Head(tx.slots)
           new == process_next_vote_slot(tx.vs, s, Epoch(slot))
<1>1. /\ tx' = [tx EXCEPT !.vs = new, !.slots = Tail(tx.slots)]
      /\ tx.slots # << >>
      /\ slot' = slot /\ fork' = fork /\ slot_hashes' = slot_hashes
      /\ features' = features /\ vs' = vs
  BY Zenon DEF ProcessNextSlot
<1>2. /\ tx.vs \in VoteStates /\ tx.slots \in Seq(Nat)
      /\ tx \in [active : BOOLEAN, vs : VoteStates, slots : Seq(Nat),
                 max_slot : Nat, timestamp : Nat \cup {None}]
  BY Zenon DEF IInv, TypeOK
<1>3. s \in Nat /\ Tail(tx.slots) \in Seq(Nat) /\ s = tx.slots[1] /\ 1 \in DOMAIN tx.slots
  BY <1>1, <1>2
<1>4. Epoch(slot) \in Nat
  BY Zenon, EpochType DEF IInv, TypeOK
<1>5. IsTower(tx.vs.votes) /\ tx.vs.votes \in Seq(Lockout)
  BY Zenon, <1>2 DEF IInv, TowerWellFormed, VoteStates
<1>6. last_voted_slot(tx.vs.votes) \in Nat \cup {None}
  BY Zenon, <1>5, LastVotedSlot
<1> HIDE DEF s
<1>7. /\ new \in VoteStates
      /\ IsTower(new.votes)
      /\ SlotsOf(new.votes) \subseteq fork
      /\ new.root_slot \in fork \cup {None}
      /\ last_voted_slot(new.votes) \in Nat \cup {None}
      /\ last_voted_slot(new.votes) >= last_voted_slot(tx.vs.votes)
  <2>1. CASE s > last_voted_slot(tx.vs.votes)
    <3>1. /\ new \in VoteStates
          /\ IsTower(new.votes)
          /\ last_voted_slot(new.votes) = s
          /\ SlotsOf(new.votes) \subseteq SlotsOf(tx.vs.votes) \cup {s}
          /\ \/ new.root_slot = tx.vs.root_slot
             \/ tx.vs.votes # << >> /\ new.root_slot = tx.vs.votes[1].slot
      <4> DEFINE old == tx.vs
                 e == Epoch(slot)
      <4>1. old \in VoteStates /\ IsTower(old.votes) /\ s \in Nat /\ e \in Nat
            /\ s > last_voted_slot(old.votes)
        BY Zenon, <1>2, <1>3, <1>4, <1>5, <2>1
      <4> HIDE DEF old, e
      <4>2. LET n == process_next_vote_slot(old, s, e)
            IN  /\ n \in VoteStates
                /\ IsTower(n.votes)
                /\ last_voted_slot(n.votes) = s
                /\ SlotsOf(n.votes) \subseteq SlotsOf(old.votes) \cup {s}
                /\ \/ n.root_slot = old.root_slot
                   \/ old.votes # << >> /\ n.root_slot = old.votes[1].slot
        BY <4>1, NextVote, Zenon
      <4> QED
        BY Zenon, <4>2 DEF old, e
    <3> HIDE DEF new
    <3>2. s \in fork
      <4>1. s \in fork \/ s <= last_voted_slot(tx.vs.votes)
        BY Zenon, <1>3 DEF IInv, PendingSlotsOnThisFork
      <4> QED
        BY <1>3, <1>6, <2>1, <4>1 DEF None
    <3>3. SlotsOf(new.votes) \subseteq fork
      BY Zenon, <3>1, <3>2 DEF IInv, VotesOnThisFork
    <3>4. tx.vs.votes # << >> => tx.vs.votes[1].slot \in SlotsOf(tx.vs.votes)
      BY <1>5 DEF SlotsOf
    <3>5. new.root_slot \in fork \cup {None}
      BY Zenon, <3>1, <3>4 DEF IInv, VotesOnThisFork
    <3>6. s >= last_voted_slot(tx.vs.votes)
      BY <1>3, <1>6, <2>1 DEF None
    <3> QED
      BY Zenon, <1>3, <3>1, <3>3, <3>5, <3>6
  <2>2. CASE ~ (s > last_voted_slot(tx.vs.votes))
    <3>1. s <= last_voted_slot(tx.vs.votes)
      BY <1>3, <1>6, <2>2 DEF None
    <3>2. new = tx.vs
      BY Zenon, <3>1 DEF process_next_vote_slot
    <3> HIDE DEF new
    <3>3. last_voted_slot(new.votes) >= last_voted_slot(tx.vs.votes)
      BY <1>6, <3>2 DEF None
    <3> QED
      BY Zenon, <1>2, <1>5, <1>6, <3>2, <3>3 DEF IInv, VotesOnThisFork
  <2> QED
    BY Zenon, <2>1, <2>2
<1> HIDE DEF new
<1>8. /\ tx'.vs = new /\ tx'.slots = Tail(tx.slots)
      /\ tx' \in [active : BOOLEAN, vs : VoteStates, slots : Seq(Nat),
                  max_slot : Nat, timestamp : Nat \cup {None}]
  BY Zenon, <1>1, <1>2, <1>3, <1>7
<1>9. TypeOK'
  BY Zenon, <1>1, <1>8 DEF IInv, TypeOK
<1>10. TowerWellFormed'
  BY Zenon, <1>1, <1>7, <1>8 DEF IInv, TowerWellFormed
<1>11. VotesOnThisFork'
  BY Zenon, <1>1, <1>7, <1>8 DEF IInv, VotesOnThisFork
<1>12. SlotHashesOnThisFork'
  BY Zenon, <1>1 DEF IInv, SlotHashesOnThisFork, History
<1>13. PendingSlotsOnThisFork'
  <2>1. SUFFICES ASSUME NEW i \in DOMAIN Tail(tx.slots)
                 PROVE  \/ Tail(tx.slots)[i] \in fork
                        \/ Tail(tx.slots)[i] <= last_voted_slot(new.votes)
    BY Zenon, <1>1, <1>8 DEF PendingSlotsOnThisFork
  <2>2. /\ Tail(tx.slots)[i] = tx.slots[i + 1]
        /\ i + 1 \in DOMAIN tx.slots
        /\ tx.slots[i + 1] \in Nat
    BY <1>1, <1>2
  <2>3. tx.slots[i + 1] \in fork \/ tx.slots[i + 1] <= last_voted_slot(tx.vs.votes)
    BY Zenon, <2>2 DEF IInv, PendingSlotsOnThisFork
  <2> QED
    BY <1>6, <1>7, <2>2, <2>3 DEF None
<1> QED
  BY Zenon, <1>9, <1>10, <1>11, <1>12, <1>13 DEF IInv

\* The end of process_vote: the copy, whose tower is right, or no change.
LEMMA FinishVoteInv ==
    ASSUME IInv, FinishVote
    PROVE  IInv'
<1> DEFINE stamped == [tx.vs EXCEPT !.last_timestamp =
                           [slot |-> tx.max_slot, timestamp |-> tx.timestamp]]
<1>1. /\ tx' = Idle
      /\ slot' = slot /\ fork' = fork /\ slot_hashes' = slot_hashes /\ features' = features
      /\ vs' = tx.vs \/ (tx.timestamp # None /\ vs' = stamped) \/ vs' = vs
  BY Zenon DEF FinishVote
<1>2. /\ tx.vs \in VoteStates /\ tx.max_slot \in Nat /\ tx.timestamp \in Nat \cup {None}
      /\ vs \in VoteStates
  BY Zenon, TxFields DEF IInv, TypeOK
<1>3. tx.timestamp # None => stamped \in VoteStates
  BY Zenon, <1>2 DEF VoteStates, BlockTimestamp
<1>4. stamped.votes = tx.vs.votes /\ stamped.root_slot = tx.vs.root_slot
  BY Zenon, <1>2 DEF VoteStates
<1> HIDE DEF stamped
<1>5. /\ vs' \in VoteStates
      /\ \/ vs'.votes = tx.vs.votes /\ vs'.root_slot = tx.vs.root_slot
         \/ vs'.votes = vs.votes /\ vs'.root_slot = vs.root_slot
  BY Zenon, <1>1, <1>2, <1>3, <1>4
<1>6. TypeOK'
  BY Zenon, <1>1, <1>5, IdleOK DEF IInv, TypeOK
<1>7. TowerWellFormed'
  BY Zenon, <1>1, <1>5, IdleOK, EmptyStateOK DEF IInv, TowerWellFormed
<1>8. VotesOnThisFork'
  BY <1>1, <1>5, IdleOK, EmptyStateOK DEF IInv, VotesOnThisFork, EmptyVoteState
<1>9. SlotHashesOnThisFork'
  BY Zenon, <1>1 DEF IInv, SlotHashesOnThisFork, History
<1>10. PendingSlotsOnThisFork'
  BY <1>1, IdleOK DEF PendingSlotsOnThisFork
<1> QED
  BY Zenon, <1>6, <1>7, <1>8, <1>9, <1>10 DEF IInv

\* An accepted root is on the fork although it may be older than SlotHashes: such
\* a root was replaced by one of the account's own slots.
LEMMA VerifiedRootOnThisFork ==
    ASSUME IInv, NEW lockouts, NEW root \in Nat \cup {None},
           SlotsOnThisFork(lockouts, VerifiedRoot(root))
    PROVE  VerifiedRoot(root) \in Nat \cup {None} /\ VerifiedRoot(root) \in fork \cup {None}
<1> DEFINE older == {i \in ScannedVotes(root) : vs.votes[i].slot <= root}
<1>1. /\ vs \in VoteStates /\ fork \subseteq Nat /\ History \subseteq fork
      /\ SlotsOf(vs.votes) \subseteq fork /\ vs.root_slot \in fork \cup {None}
  BY Zenon DEF IInv, TypeOK, SlotHashesOnThisFork, VotesOnThisFork
<1>2. \A i \in older : vs.votes[i].slot \in fork
  BY Zenon, <1>1 DEF ScannedVotes, SlotsOf
<1>3. older # {} => vs.votes[CHOOSE i \in older : TRUE].slot \in fork
  BY Zenon, <1>2
<1>4. /\ (root = None \/ root >= EarliestSlotHash) => VerifiedRoot(root) = root
      /\ ~ (root = None \/ root >= EarliestSlotHash) =>
            \/ VerifiedRoot(root) = vs.root_slot
            \/ older # {} /\ VerifiedRoot(root) = vs.votes[CHOOSE i \in older : TRUE].slot
  BY Zenon DEF VerifiedRoot
<1> HIDE DEF older
<1>5. CASE root = None
  BY Zenon, <1>4, <1>5
<1>6. CASE root >= EarliestSlotHash
  BY Zenon, <1>1, <1>4, <1>6 DEF SlotsOnThisFork
<1>7. CASE ~ (root = None \/ root >= EarliestSlotHash)
  BY Zenon, <1>1, <1>3, <1>4, <1>7
<1> QED
  BY Zenon, <1>5, <1>6, <1>7

\* What the filter leaves of an accepted update is on the fork.
LEMMA FilteredLockoutsOnThisFork ==
    ASSUME IInv, NEW lockouts \in Seq(ProposedLockout), NEW root, SlotsOnThisFork(lockouts, root)
    PROVE  /\ FilteredLockouts(lockouts) \in Seq(ProposedLockout)
           /\ SlotsOf(FilteredLockouts(lockouts)) \subseteq fork
<1> DEFINE kept == {i \in DOMAIN lockouts : \/ lockouts[i].slot >= EarliestSlotHash
                                            \/ contains_slot(vs.votes, lockouts[i].slot)}
           new == FilteredLockouts(lockouts)
<1>1. new = Retain(lockouts, kept) /\ kept \subseteq DOMAIN lockouts
  BY Zenon DEF FilteredLockouts
<1>2. \A i \in kept : lockouts[i].slot \in fork
  <2>1. SUFFICES ASSUME NEW i \in kept
                 PROVE  lockouts[i].slot \in fork
    BY Zenon
  <2>2. CASE lockouts[i].slot >= EarliestSlotHash
    BY Zenon, <2>2 DEF SlotsOnThisFork, SlotsOf, IInv, SlotHashesOnThisFork
  <2>3. CASE contains_slot(vs.votes, lockouts[i].slot)
    BY Zenon, <2>3 DEF contains_slot, SlotsOf, IInv, VotesOnThisFork
  <2> QED
    BY Zenon, <2>2, <2>3
<1> HIDE DEF kept, new
<1>3. /\ new \in Seq(ProposedLockout)
      /\ \A k \in 1..Len(new) : \E i \in kept : new[k] = lockouts[i]
  BY <1>1, RetainDef
<1>4. \A k \in DOMAIN new : new[k].slot \in fork
  BY <1>2, <1>3
<1> QED
  BY Zenon, <1>3, <1>4 DEF SlotsOf, new

\* The number of credits an update earns.
LEMMA FinalizedSlotCountType ==
    ASSUME NEW votes \in Seq(Lockout), NEW root
    PROVE  FinalizedSlotCount(votes, root) \in Nat
<1> DEFINE S == {i \in DOMAIN votes : votes[i].slot < root}
<1>1. Len(votes) \in Nat /\ S \subseteq 1..Len(votes)
  OBVIOUS
<1>2. IsFiniteSet(1..Len(votes))
  BY <1>1, FS_Interval
<1>3. IsFiniteSet(S)
  BY Zenon, <1>1, <1>2, FS_Subset
<1>4. Cardinality(S) \in Nat
  BY Zenon, <1>3, FS_CardinalityType
<1> HIDE DEF S
<1>5. 1 + Cardinality(S) \in Nat
  BY <1>4
<1> QED
  BY Zenon, <1>5 DEF FinalizedSlotCount, S

\* The fields an update writes.
LEMMA UpdatedStateDef ==
    ASSUME TypeOK, NEW new \in Seq(Lockout), NEW root \in Nat \cup {None}
    PROVE  /\ UpdatedState(new, root) \in VoteStates
           /\ UpdatedState(new, root).votes = new
           /\ UpdatedState(new, root).root_slot = root
           /\ credits(UpdatedState(new, root).epoch_credits) >= credits(vs.epoch_credits)
<1> DEFINE n == IF "vote_state_update_credit_per_dequeue" \in features
                THEN FinalizedSlotCount(vs.votes, root) ELSE 1
           ec == IF vs.root_slot = root THEN vs.epoch_credits
                 ELSE increment_credits(vs.epoch_credits, Epoch(slot), n)
<1>1. vs \in VoteStates /\ vs.votes \in Seq(Lockout) /\ vs.epoch_credits \in Seq(Nat \X Nat \X Nat)
  BY Zenon DEF TypeOK, VoteStates
<1>2. n \in Nat
  BY Zenon, <1>1, FinalizedSlotCountType
<1>3. Epoch(slot) \in Nat
  BY Zenon, EpochType DEF TypeOK
<1>4. UpdatedState(new, root) =
        [vs EXCEPT !.votes = new, !.root_slot = root, !.epoch_credits = ec]
  BY Zenon DEF UpdatedState
<1>5. credits(vs.epoch_credits) \in Nat
  BY <1>1 DEF credits
<1> HIDE DEF n
<1>6. /\ ec \in Seq(Nat \X Nat \X Nat)
      /\ credits(ec) >= credits(vs.epoch_credits)
  <2>1. CASE vs.root_slot = root
    BY <1>1, <1>5, <2>1
  <2>2. CASE vs.root_slot # root
    <3>1. ec = increment_credits(vs.epoch_credits, Epoch(slot), n)
      BY Zenon, <2>2
    <3>2. /\ ec \in Seq(Nat \X Nat \X Nat)
          /\ credits(ec) = credits(vs.epoch_credits) + n
      <4> DEFINE old == vs.epoch_credits
                 e == Epoch(slot)
      <4>1. old \in Seq(Nat \X Nat \X Nat) /\ e \in Nat /\ n \in Nat
        BY Zenon, <1>1, <1>2, <1>3
      <4> HIDE DEF old, e, ec
      <4>2. /\ increment_credits(old, e, n) \in Seq(Nat \X Nat \X Nat)
            /\ credits(increment_credits(old, e, n)) = credits(old) + n
        BY Zenon, <4>1, IncrementCredits
      <4> QED
        BY Zenon, <3>1, <4>2 DEF old, e
    <3> HIDE DEF ec
    <3> QED
      BY <1>2, <1>5, <3>2
  <2> QED
    BY Zenon, <2>1, <2>2
<1> HIDE DEF ec
<1> QED
  BY Zenon, <1>1, <1>4, <1>6 DEF VoteStates

\* process_new_vote_state: the account takes over the update's tower.
LEMMA UpdateInv ==
    ASSUME IInv, NEW lockouts \in ProposedLockouts, NEW root \in ProposedRoots,
           NEW hash, NEW timestamp \in Timestamps,
           ProcessVoteStateUpdate(lockouts, root, hash, timestamp)
    PROVE  IInv'
<1> DEFINE new == FilteredLockouts(lockouts)
           verified == VerifiedRoot(root)
           updated == UpdatedState(new, verified)
           last == lockouts[Len(lockouts)].slot
           stamped == [updated EXCEPT !.last_timestamp = [slot |-> last, timestamp |-> timestamp]]
<1>1. /\ lockouts \in Seq(ProposedLockout) /\ root \in Nat \cup {None}
      /\ timestamp \in Nat \cup {None}
  BY Zenon, ProgramAssumption
<1>2. /\ UpdateAccepted(lockouts, root, hash)
      /\ vs' = updated \/ (timestamp # None /\ vs' = stamped)
      /\ slot' = slot /\ fork' = fork /\ slot_hashes' = slot_hashes
      /\ features' = features /\ tx' = tx
  BY Zenon DEF ProcessVoteStateUpdate
<1>3. SlotsOnThisFork(lockouts, verified) /\ IsWellFormed(new, verified) /\ lockouts # << >>
  BY Zenon, <1>2 DEF UpdateAccepted, IsRecentUpdate
<1>4. verified \in Nat \cup {None} /\ verified \in fork \cup {None}
  BY Zenon, <1>1, <1>3, VerifiedRootOnThisFork
<1>5. new \in Seq(ProposedLockout) /\ SlotsOf(new) \subseteq fork
  BY Zenon, <1>1, <1>3, FilteredLockoutsOnThisFork
<1>6. new \in Seq(Lockout) /\ IsTower(new)
  BY Zenon, <1>3, <1>5, WellFormedIsTower
<1>7. last \in Nat
  <2>1. Len(lockouts) \in DOMAIN lockouts
    BY <1>1, <1>3
  <2>2. lockouts[Len(lockouts)] \in ProposedLockout
    BY <1>1, <2>1, ElementOfSeq
  <2> QED
    BY Zenon, <2>2 DEF ProposedLockout
<1> HIDE DEF new, verified, last
<1>8. updated \in VoteStates /\ updated.votes = new /\ updated.root_slot = verified
  BY Zenon, <1>4, <1>6, UpdatedStateDef DEF IInv
<1> HIDE DEF updated
<1>9. timestamp # None => /\ stamped \in VoteStates
                          /\ stamped.votes = new /\ stamped.root_slot = verified
  BY Zenon, <1>1, <1>7, <1>8 DEF VoteStates, BlockTimestamp
<1> HIDE DEF stamped
<1>10. vs' \in VoteStates /\ vs'.votes = new /\ vs'.root_slot = verified
  BY Zenon, <1>2, <1>8, <1>9
<1>11. TypeOK'
  BY Zenon, <1>2, <1>10 DEF IInv, TypeOK
<1>12. TowerWellFormed'
  BY Zenon, <1>2, <1>6, <1>10 DEF IInv, TowerWellFormed
<1>13. VotesOnThisFork'
  BY Zenon, <1>2, <1>4, <1>5, <1>10 DEF IInv, VotesOnThisFork
<1>14. SlotHashesOnThisFork'
  BY Zenon, <1>2 DEF IInv, SlotHashesOnThisFork, History
<1>15. PendingSlotsOnThisFork'
  BY Zenon, <1>2 DEF IInv, PendingSlotsOnThisFork
<1> QED
  BY Zenon, <1>11, <1>12, <1>13, <1>14, <1>15 DEF IInv

\* Every step preserves the invariant.
LEMMA NextInv == IInv /\ [Next]_vars => IInv'
<1>1. SUFFICES ASSUME IInv, [Next]_vars
               PROVE  IInv'
  BY Zenon
<1>2. CASE UNCHANGED vars
  BY Zenon, <1>1, <1>2 DEF vars, IInv, TypeOK, TowerWellFormed, VotesOnThisFork,
                    SlotHashesOnThisFork, History, PendingSlotsOnThisFork
<1>3. ASSUME NEW s \in Slots, NEW activated \in SUBSET FeatureIds, NewBank(s, activated)
      PROVE  IInv'
  BY Zenon, <1>1, <1>3, NewBankInv
<1>4. ASSUME NEW slots \in VoteSlots, NEW timestamp \in Timestamps, NEW hash,
             BeginVote(slots, hash, timestamp)
      PROVE  IInv'
  BY Zenon, <1>1, <1>4, BeginVoteInv
<1>5. CASE ProcessNextSlot
  BY Zenon, <1>1, <1>5, ProcessNextSlotInv
<1>6. CASE FinishVote
  BY Zenon, <1>1, <1>6, FinishVoteInv
<1>7. ASSUME NEW lockouts \in ProposedLockouts, NEW root \in ProposedRoots,
             NEW timestamp \in Timestamps, NEW hash,
             ProcessVoteStateUpdate(lockouts, root, hash, timestamp)
      PROVE  IInv'
  BY Zenon, <1>1, <1>7, UpdateInv
<1>8. CASE RejectInstruction
  BY Zenon, <1>2, <1>8 DEF RejectInstruction
<1> QED
  BY Zenon, <1>1, <1>2, <1>3, <1>4, <1>5, <1>6, <1>7, <1>8 DEF Next

LEMMA Invariance == Spec => []IInv
BY InitInv, NextInv, PTL DEF Spec

\* Type correctness of the vote account and of the instruction executing on it.
THEOREM TypeCorrect == Spec => []TypeOK
BY Invariance, PTL DEF IInv

\* For every MAX_LOCKOUT_HISTORY, SlotHashes size and stream of instructions the
\* account, and the copy process_vote works on, hold a well-formed tower.
THEOREM TowerAlwaysWellFormed == Spec => []TowerWellFormed
BY Invariance, PTL DEF IInv

\* The account never holds a vote or a root of another fork, not even one that was
\* already too old for SlotHashes to verify when the update arrived.
THEOREM OnlyThisFork == Spec => []VotesOnThisFork
BY Invariance, PTL DEF IInv
=============================================================================
