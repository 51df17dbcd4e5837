------------------------------ MODULE VoteState ------------------------------
(***************************************************************************)
(* The data type VoteState of sdk/program/src/vote/state/mod.rs: the stack *)
(* of lockouts ("tower") kept in a vote account and, with the same code,   *)
(* inside a validator's own Tower.  This module holds only operators; the  *)
(* state machines that use them are VoteProgram (the on-chain account) and *)
(* Tower (the validator's copy).                                           *)
(*                                                                         *)
(* A vote state is a record                                                *)
(*   votes          sequence of lockouts, oldest first                     *)
(*   root_slot      Option<Slot>                                           *)
(*   epoch_credits  sequence of <<epoch, credits, prev_credits>>           *)
(*   last_timestamp [slot, timestamp]                                      *)
(*                                                                         *)
(* Option<Slot> is an integer whose None is -1: Rust orders None before    *)
(* every Some, so each comparison in the code reads the same here.         *)
(***************************************************************************)
EXTENDS Integers, Sequences, FiniteSets

CONSTANTS
    MAX_LOCKOUT_HISTORY,       \* 31 in the code
    MAX_EPOCH_CREDITS_HISTORY  \* 64 in the code

INITIAL_LOCKOUT == 2

None == -1

\* Powers of INITIAL_LOCKOUT are positive and grow with the exponent, over the
\* confirmation counts a tower can hold.
ASSUME ConstantsAssumption ==
    /\ MAX_LOCKOUT_HISTORY \in Nat \ {0}
    /\ MAX_EPOCH_CREDITS_HISTORY \in Nat \ {0}
    /\ \A c \in 0..MAX_LOCKOUT_HISTORY :
          /\ INITIAL_LOCKOUT ^ c \in Nat \ {0}
          /\ \A d \in 0..c : INITIAL_LOCKOUT ^ d <= INITIAL_LOCKOUT ^ c

Lockout == [slot : Nat, conf : 0..MAX_LOCKOUT_HISTORY]

\* A lockout as an instruction carries it, before any check.
ProposedLockout == [slot : Nat, conf : Nat]

\* BlockTimestamp: the last timestamp sent with a vote, and its slot.
BlockTimestamp == [slot : Nat, timestamp : Nat]

VoteStates == [votes          : Seq(Lockout),
               root_slot      : Nat \cup {None},
               epoch_credits  : Seq(Nat \X Nat \X Nat),
               last_timestamp : BlockTimestamp]

\* VoteState::default()
EmptyVoteState == [votes          |-> << >>,
                   root_slot      |-> None,
                   epoch_credits  |-> << >>,
                   last_timestamp |-> [slot |-> 0, timestamp |-> 0]]

-----------------------------------------------------------------------------
SlotsOf(lockouts) == {lockouts[i].slot : i \in DOMAIN lockouts}

lockout(v) == INITIAL_LOCKOUT ^ v.conf

last_locked_out_slot(v) == v.slot + lockout(v)

is_locked_out_at_slot(v, slot) == last_locked_out_slot(v) >= slot

last_voted_slot(votes) == IF votes = << >> THEN None ELSE votes[Len(votes)].slot

contains_slot(votes, slot) == \E i \in DOMAIN votes : votes[i].slot = slot

\* The number of votes left once the expired ones are popped from the top:
\* popping stops at the first vote, from the top, still locked out.
KeptVotes(votes, slot) ==
    CHOOSE k \in 0..Len(votes) :
        /\ k > 0 => is_locked_out_at_slot(votes[k], slot)
        /\ \A i \in (k + 1)..Len(votes) : ~ is_locked_out_at_slot(votes[i], slot)

pop_expired_votes(votes, slot) == SubSeq(votes, 1, KeptVotes(votes, slot))

\* A vote's confirmation count grows only once the stack above it is deeper
\* than it has ever been.
double_lockouts(votes) ==
    [i \in DOMAIN votes |->
        IF Len(votes) > (i - 1) + votes[i].conf
        THEN [votes[i] EXCEPT !.conf = @ + 1]
        ELSE votes[i]]

credits(epoch_credits) ==
    IF epoch_credits = << >> THEN 0 ELSE epoch_credits[Len(epoch_credits)][2]

\* Mutant: a new entry keeps the previous entry's prev_credits.
CreditsRolledTo_stale_prev(ec, epoch) ==
    LET last  == ec[Len(ec)]
        moved == Append(ec, <<epoch, last[2], last[3]>>)
    IN  IF ec = << >> THEN << <<epoch, 0, 0>> >>
        ELSE IF epoch = last[1] THEN ec
        ELSE IF Len(moved) > MAX_EPOCH_CREDITS_HISTORY THEN Tail(moved)
        ELSE moved

\* The entry list once `epoch` owns the last entry.
CreditsRolledTo(ec, epoch) ==
    LET last  == ec[Len(ec)]
        moved == IF last[2] # last[3]
                 THEN Append(ec, <<epoch, last[2], last[2]>>)
                 ELSE [ec EXCEPT ![Len(ec)] = <<epoch, last[2], last[3]>>]
    IN  IF ec = << >> THEN << <<epoch, 0, 0>> >>
        ELSE IF epoch = last[1] THEN ec
        ELSE IF Len(moved) > MAX_EPOCH_CREDITS_HISTORY THEN Tail(moved)
        ELSE moved

increment_credits(ec, epoch, n) ==
    LET rolled == CreditsRolledTo(ec, epoch)
        last   == rolled[Len(rolled)]
    IN  [rolled EXCEPT ![Len(rolled)] = <<last[1], last[2] + n, last[3]>>]

process_next_vote_slot(vs, slot, epoch) ==
    LET popped == pop_expired_votes(vs.votes, slot)
        full   == Len(popped) = MAX_LOCKOUT_HISTORY
        base   == IF full THEN Tail(popped) ELSE popped
        pushed == Append(base, [slot |-> slot, conf |-> 1])
    IN  IF slot <= last_voted_slot(vs.votes) THEN vs
        ELSE [vs EXCEPT
                !.votes         = double_lockouts(pushed),
                !.root_slot     = IF full THEN popped[1].slot ELSE @,
                !.epoch_credits = IF full THEN increment_credits(@, epoch, 1)
                                          ELSE @]

\* What retain leaves of a sequence: its elements at the indices kept, in order.
Retain(seq, kept) ==
    [k \in 1..Cardinality(kept) |->
        seq[CHOOSE i \in kept : Cardinality({j \in kept : j <= i}) = k]]

\* The condition under which process_timestamp returns Ok.
TimestampAccepted(last, slot, timestamp) ==
    /\ slot >= last.slot
    /\ timestamp >= last.timestamp
    /\ (slot = last.slot /\ last.slot # 0) => timestamp = last.timestamp
-----------------------------------------------------------------------------
\* Mutant: confirmations are not compared with each other.
IsWellFormed_any_conf(new_state, root) ==
    /\ Len(new_state) <= MAX_LOCKOUT_HISTORY
    /\ \A i \in DOMAIN new_state :
          /\ new_state[i].conf \in 1..MAX_LOCKOUT_HISTORY
          /\ new_state[i].slot > root \/ root = 0
    /\ \A i \in 1..(Len(new_state) - 1) :
          /\ new_state[i].slot < new_state[i + 1].slot
          /\ is_locked_out_at_slot(new_state[i], new_state[i + 1].slot)

\* Mutant: votes are not compared with the root.
IsWellFormed_any_slot(new_state, root) ==
    /\ Len(new_state) <= MAX_LOCKOUT_HISTORY
    /\ \A i \in DOMAIN new_state : new_state[i].conf \in 1..MAX_LOCKOUT_HISTORY
    /\ \A i \in 1..(Len(new_state) - 1) :
          /\ new_state[i].slot < new_state[i + 1].slot
          /\ new_state[i].conf > new_state[i + 1].conf
          /\ is_locked_out_at_slot(new_state[i], new_state[i + 1].slot)

\* process_new_vote_state, its checks on the new state alone.
IsWellFormed(new_state, root) ==
    /\ Len(new_state) <= MAX_LOCKOUT_HISTORY
    /\ \A i \in DOMAIN new_state :
          /\ new_state[i].conf \in 1..MAX_LOCKOUT_HISTORY
          /\ new_state[i].slot > root \/ root = 0
    /\ \A i \in 1..(Len(new_state) - 1) :
          /\ new_state[i].slot < new_state[i + 1].slot
          /\ new_state[i].conf > new_state[i + 1].conf
          /\ is_locked_out_at_slot(new_state[i], new_state[i + 1].slot)

\* Mutant: a kept vote may lose confirmations.
HasNoLockoutConflict_any_conf(votes, new_state, root) ==
    \A i \in DOMAIN votes :
        votes[i].slot > root =>
            \A j \in DOMAIN new_state :
                (/\ new_state[j].slot > votes[i].slot
                 /\ \A k \in 1..(j - 1) : new_state[k].slot < votes[i].slot)
                => ~ is_locked_out_at_slot(votes[i], new_state[j].slot)

\* process_new_vote_state, its checks against the account: a vote above the new
\* root is either kept, with no fewer confirmations, or expired by the first
\* newer vote of the new state.
HasNoLockoutConflict(votes, new_state, root) ==
    \A i \in DOMAIN votes :
        votes[i].slot > root =>
            \A j \in DOMAIN new_state :
                (/\ new_state[j].slot >= votes[i].slot
                 /\ \A k \in 1..(j - 1) : new_state[k].slot < votes[i].slot)
                => IF new_state[j].slot = votes[i].slot
                   THEN new_state[j].conf >= votes[i].conf
                   ELSE ~ is_locked_out_at_slot(votes[i], new_state[j].slot)

\* Mutant: the root counts twice.
FinalizedSlotCount_root_twice(votes, root) ==
    1 + Cardinality({i \in DOMAIN votes : votes[i].slot <= root})

\* The slots the update finalizes: its root and the votes below it.
FinalizedSlotCount(votes, root) ==
    1 + Cardinality({i \in DOMAIN votes : votes[i].slot < root})

\* A tower: slots grow, confirmations shrink and stay within bounds, and no vote
\* is expired by the next one above it.
IsTower(votes) ==
    /\ Len(votes) <= MAX_LOCKOUT_HISTORY
    /\ \A i \in DOMAIN votes : votes[i].conf \in 1..MAX_LOCKOUT_HISTORY
    /\ \A i, j \in DOMAIN votes :
          i < j => votes[i].slot < votes[j].slot /\ votes[i].conf > votes[j].conf
    /\ \A i \in 1..(Len(votes) - 1) : is_locked_out_at_slot(votes[i], votes[i + 1].slot)
=============================================================================
