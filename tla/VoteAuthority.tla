---------------------------- MODULE VoteAuthority -----------------------------
(***************************************************************************)
(* Who may act for a vote account, over the epochs of one fork: the        *)
(* instructions of the vote program that are not votes (initialize,        *)
(* authorize, identity, commission, withdraw), the part of a vote that     *)
(* looks up its signer, and the copy of the authorized voter that each     *)
(* bank keeps in its epoch stakes.                                         *)
(*                                                                         *)
(*   src/programs/vote/src/vote_state/mod.rs, vote_processor.rs            *)
(*   src/sdk/program/src/vote/state/mod.rs, authorized_voters.rs           *)
(*   src/runtime/src/bank.rs, epoch_stakes.rs                              *)
(*                                                                         *)
(* Any set of keys may have signed an instruction.  An authority derived   *)
(* from a seed (AuthorizeWithSeed) is a key like the others here.          *)
(***************************************************************************)
EXTENDS Integers, Sequences, FiniteSets

CONSTANTS
    Keys,
    NoKey,                       \* Pubkey::default(), which nobody signs with
    Commissions,                 \* the commissions instructions set
    LastSlot,                    \* the last slot of the fork
    MaxSkip,                     \* the largest distance of a bank from its parent
    SLOTS_PER_EPOCH,
    LEADER_SCHEDULE_SLOT_OFFSET, \* how far ahead the leader schedule is fixed
    MAX_LEADER_SCHEDULE_STAKES,  \* past epochs kept in epoch_stakes, 5 in the code
    MAX_ITEMS,                   \* entries of prior_voters, 32 in the code
    MinimumBalance,              \* the rent-exempt minimum of a vote account
    TotalLamports,               \* what the account and its owner have together
    FeatureIds,                  \* the feature gates that are ever activated
    MaxAccounts                  \* how often the account is initialized

None == -1

\* The leader schedule is fixed for the epochs a bank still keeps stakes for. MaxSkip
\* is an assumption on the cluster, not something the code enforces: a bank is never
\* further from its parent than an epoch has slots (432,000 after warm-up).
ASSUME AuthorityAssumption ==
    /\ NoKey \notin Keys
    /\ Commissions \subseteq 0..255
    /\ LastSlot \in Nat
    /\ SLOTS_PER_EPOCH \in Nat \ {0}
    /\ MaxSkip \in 1..SLOTS_PER_EPOCH
    /\ MAX_LEADER_SCHEDULE_STAKES \in Nat \ {0}
    /\ LEADER_SCHEDULE_SLOT_OFFSET \in Nat
    /\ LEADER_SCHEDULE_SLOT_OFFSET < MAX_LEADER_SCHEDULE_STAKES * SLOTS_PER_EPOCH
    /\ MAX_ITEMS \in Nat \ {0}
    /\ MinimumBalance \in Nat \ {0}
    /\ TotalLamports \in Nat
    /\ MaxAccounts \in Nat

VARIABLES
    slot,          \* the slot of the bank being executed
    features,      \* the active features
    acct,          \* the account's state, VoteState::default() when it has none
    lamports,      \* its balance
    epoch_stakes,  \* the voter of the account in each epoch the bank has stakes for
    accounts,      \* how often it was initialized: which account a voter belongs to
    in_force       \* the voter in each epoch so far, since it was initialized

vars == <<slot, features, acct, lamports, epoch_stakes, accounts, in_force>>

Epoch(s) == s \div SLOTS_PER_EPOCH

get_leader_schedule_epoch(s) == (s + LEADER_SCHEDULE_SLOT_OFFSET) \div SLOTS_PER_EPOCH

\* authorized_voters is a map from epochs to keys, prior_voters its history.
DefaultState == [node_pubkey |-> NoKey, authorized_withdrawer |-> NoKey, commission |-> 0,
                 authorized_voters |-> << >>, prior_voters |-> << >>,
                 last_epoch_with_credits |-> None]

is_uninitialized(a) == DOMAIN a.authorized_voters = {}

-----------------------------------------------------------------------------
(* AuthorizedVoters *)

\* Mutant: no entry, no voter.
get_authorized_voter_exact(voters, epoch) ==
    IF epoch \in DOMAIN voters THEN voters[epoch] ELSE NoKey

\* The entry of the epoch or, failing that, of the latest epoch before it.
get_authorized_voter(voters, epoch) ==
    LET known == {e \in DOMAIN voters : e <= epoch}
    IN  IF known = {} THEN NoKey
        ELSE voters[CHOOSE e \in known : \A f \in known : f <= e]

\* The map once the voter of the current epoch is cached and the epochs before
\* it are purged.
get_and_update_authorized_voter(voters, epoch) ==
    [e \in {f \in DOMAIN voters : f >= epoch} \cup {epoch} |-> get_authorized_voter(voters, e)]

LatestEpoch(voters) == CHOOSE e \in DOMAIN voters : \A f \in DOMAIN voters : f <= e

\* Mutant: no entry makes room.
CircBufAppend_unbounded(buf, item) == Append(buf, item)

\* CircBuf::append: the oldest entry makes room.
CircBufAppend(buf, item) ==
    IF Len(buf) = MAX_ITEMS THEN Append(Tail(buf), item) ELSE Append(buf, item)

\* Mutant: a range ends in the epoch before the switch.
PriorVoters_short_range(prior, voter, target) ==
    CircBufAppend(prior, <<voter, IF prior = << >> THEN 0 ELSE prior[Len(prior)][3], target - 1>>)

\* The history with the latest voter's range closed at the target epoch.
PriorVoters(prior, voter, target) ==
    CircBufAppend(prior, <<voter, IF prior = << >> THEN 0 ELSE prior[Len(prior)][3], target>>)

\* Mutant: the last epoch the leader schedule is fixed for.
TargetEpoch_fixed == get_leader_schedule_epoch(slot)

\* The epoch a new voter starts in: one the leader schedule is not fixed for.
TargetEpoch == get_leader_schedule_epoch(slot) + 1

\* set_new_authorized_voter, once the signer is verified.
set_new_authorized_voter(a, key) ==
    LET voters == get_and_update_authorized_voter(a.authorized_voters, Epoch(slot))
        latest == voters[LatestEpoch(voters)]
    IN  [a EXCEPT
            !.authorized_voters = [e \in DOMAIN voters \cup {TargetEpoch} |->
                                      IF e = TargetEpoch THEN key ELSE voters[e]],
            !.prior_voters      = IF latest = key THEN @ ELSE PriorVoters(@, latest, TargetEpoch)]

-----------------------------------------------------------------------------
(* The instructions.  One that fails a check changes nothing. *)

InitializeAccount(node, voter, withdrawer, commission, signers) ==
    /\ accounts < MaxAccounts
    /\ lamports >= MinimumBalance
    /\ is_uninitialized(acct)
    /\ node \in signers
    /\ acct' = [DefaultState EXCEPT
                   !.node_pubkey           = node,
                   !.authorized_withdrawer = withdrawer,
                   !.commission            = commission,
                   !.authorized_voters     = [e \in {Epoch(slot)} |-> voter]]
    /\ accounts' = accounts + 1
    /\ in_force' = [e \in {Epoch(slot)} |-> voter]
    /\ UNCHANGED <<slot, features, lamports, epoch_stakes>>

AuthorizeVoter(key, signers) ==
    LET voter == get_authorized_voter(acct.authorized_voters, Epoch(slot))
    IN  /\ voter # NoKey
        /\ \/ voter \in signers
           \/ /\ "vote_withdraw_authority_may_change_authorized_voter" \in features
              /\ acct.authorized_withdrawer \in signers
        /\ TargetEpoch \notin DOMAIN acct.authorized_voters
        /\ acct' = set_new_authorized_voter(acct, key)
        /\ UNCHANGED <<slot, features, lamports, epoch_stakes, accounts, in_force>>

AuthorizeWithdrawer(key, signers) ==
    /\ acct.authorized_withdrawer \in signers
    /\ acct' = [acct EXCEPT !.authorized_withdrawer = key]
    /\ UNCHANGED <<slot, features, lamports, epoch_stakes, accounts, in_force>>

UpdateValidatorIdentity(node, signers) ==
    /\ acct.authorized_withdrawer \in signers
    /\ node \in signers
    /\ acct' = [acct EXCEPT !.node_pubkey = node]
    /\ UNCHANGED <<slot, features, lamports, epoch_stakes, accounts, in_force>>

is_commission_update_allowed(s) == (s % SLOTS_PER_EPOCH) * 2 <= SLOTS_PER_EPOCH

UpdateCommission(commission, signers) ==
    /\ "commission_updates_only_allowed_in_first_half_of_epoch" \in features
          => is_commission_update_allowed(slot)
    /\ acct.authorized_withdrawer \in signers
    /\ acct' = [acct EXCEPT !.commission = commission]
    /\ UNCHANGED <<slot, features, lamports, epoch_stakes, accounts, in_force>>

\* verify_and_get_vote_state, and the write of a vote that is then accepted: it
\* may earn credits.
Vote(signers, earns) ==
    /\ ~ is_uninitialized(acct)
    /\ get_authorized_voter(acct.authorized_voters, Epoch(slot)) \in signers
    /\ acct' = [acct EXCEPT
                   !.authorized_voters       = get_and_update_authorized_voter(@, Epoch(slot)),
                   !.last_epoch_with_credits = IF earns THEN Epoch(slot) ELSE @]
    /\ UNCHANGED <<slot, features, lamports, epoch_stakes, accounts, in_force>>

\* Mutant: what remains is not compared with the minimum.
CanWithdraw_any_rest(amount) == amount <= lamports

\* Whether the balance may go down by an amount: to nothing, unless the account
\* earned credits in this epoch or the last, or to the rent-exempt minimum.
CanWithdraw(amount) ==
    LET earned == acct.last_epoch_with_credits
    IN  /\ amount <= lamports
        /\ amount = lamports =>
              ~ (/\ "reject_vote_account_close_unless_zero_credit_epoch" \in features
                 /\ earned # None
                 /\ Epoch(slot) - earned < 2)
        /\ amount < lamports => lamports - amount >= MinimumBalance

Withdraw(amount, signers) ==
    /\ acct.authorized_withdrawer \in signers
    /\ CanWithdraw(amount)
    /\ lamports' = lamports - amount
    /\ IF amount = lamports THEN acct' = DefaultState /\ in_force' = << >>
       ELSE UNCHANGED <<acct, in_force>>
    /\ UNCHANGED <<slot, features, epoch_stakes, accounts>>

\* A transfer to the account by the system program.
Fund(amount) ==
    /\ lamports + amount <= TotalLamports
    /\ lamports' = lamports + amount
    /\ UNCHANGED <<slot, features, acct, epoch_stakes, accounts, in_force>>

-----------------------------------------------------------------------------
(* The fork grows *)

\* What EpochStakes::parse_epoch_vote_accounts keeps of this account.
EpochStakesEntry(epoch) ==
    [voter   |-> get_authorized_voter(acct.authorized_voters, epoch),
     account |-> accounts]

\* Mutant: the last epochs are forgotten one too early.
update_epoch_stakes_short(epoch) ==
    IF epoch \in DOMAIN epoch_stakes THEN epoch_stakes
    ELSE [e \in {f \in DOMAIN epoch_stakes : f > epoch - MAX_LEADER_SCHEDULE_STAKES + 1}
                   \cup {epoch} |->
             IF e = epoch THEN EpochStakesEntry(epoch) ELSE epoch_stakes[e]]

update_epoch_stakes(epoch) ==
    IF epoch \in DOMAIN epoch_stakes THEN epoch_stakes
    ELSE [e \in {f \in DOMAIN epoch_stakes : f >= epoch - MAX_LEADER_SCHEDULE_STAKES}
                   \cup {epoch} |->
             IF e = epoch THEN EpochStakesEntry(epoch) ELSE epoch_stakes[e]]

\* Bank::new_from_parent
NewBank(s, activated) ==
    /\ s \in (slot + 1)..(slot + MaxSkip)
    /\ activated # {} => Epoch(s) > Epoch(slot)
    /\ slot' = s
    /\ features' = features \cup activated
    /\ epoch_stakes' = update_epoch_stakes(get_leader_schedule_epoch(s))
    /\ in_force' = IF is_uninitialized(acct) THEN in_force
                   ELSE [e \in DOMAIN in_force \cup {Epoch(s)} |->
                            IF e = Epoch(s) THEN get_authorized_voter(acct.authorized_voters, e)
                            ELSE in_force[e]]
    /\ UNCHANGED <<acct, lamports, accounts>>

Init ==
    /\ slot = 0
    /\ features \in SUBSET FeatureIds
    /\ acct = DefaultState
    /\ lamports = 0
    /\ epoch_stakes = [e \in 0..get_leader_schedule_epoch(0) |-> [voter |-> NoKey, account |-> 0]]
    /\ accounts = 0
    /\ in_force = << >>

Next ==
    \/ \E s \in 1..LastSlot, activated \in SUBSET FeatureIds : NewBank(s, activated)
    \/ \E signers \in SUBSET Keys :
          \/ \E node, voter, withdrawer \in Keys, commission \in Commissions :
                InitializeAccount(node, voter, withdrawer, commission, signers)
          \/ \E key \in Keys : AuthorizeVoter(key, signers)
          \/ \E key \in Keys : AuthorizeWithdrawer(key, signers)
          \/ \E node \in Keys : UpdateValidatorIdentity(node, signers)
          \/ \E commission \in Commissions : UpdateCommission(commission, signers)
          \/ \E earns \in BOOLEAN : Vote(signers, earns)
          \/ \E amount \in 1..TotalLamports : Withdraw(amount, signers)
    \/ \E amount \in 1..TotalLamports : Fund(amount)

Spec == Init /\ [][Next]_vars

-----------------------------------------------------------------------------
(* Properties *)

\* Every variable keeps its type.
TypeOK ==
    /\ slot \in Nat
    /\ features \subseteq FeatureIds
    /\ acct.node_pubkey \in Keys \cup {NoKey}
    /\ acct.authorized_withdrawer \in Keys \cup {NoKey}
    /\ acct.commission \in Commissions \cup {0}
    /\ \A e \in DOMAIN acct.authorized_voters :
          e \in 0..TargetEpoch /\ acct.authorized_voters[e] \in Keys
    /\ Len(acct.prior_voters) <= MAX_ITEMS
    /\ lamports \in 0..TotalLamports

\* "The fixed authorized voter for the current epoch" (Bank::epoch_authorized_voter),
\* by which gossiped votes are verified, is the key the account itself accepts
\* votes from in that epoch, though it was copied when the leader schedule was
\* fixed, and although epochs are cached and purged in the account meanwhile.  A
\* closed account that is initialized again is another account.
FixedVoterIsInForce ==
    \A e \in DOMAIN epoch_stakes :
        (/\ e >= Epoch(slot)
         /\ ~ is_uninitialized(acct)
         /\ epoch_stakes[e].voter # NoKey
         /\ epoch_stakes[e].account = accounts)
        => epoch_stakes[e].voter = get_authorized_voter(acct.authorized_voters, e)

\* The bank has stakes for its own epoch (the expect in epoch_authorized_voter) as
\* long as no bank is further from its parent than an epoch has slots (MaxSkip).
\* update_epoch_stakes adds one epoch at a time: after a longer gap an epoch would be
\* left out, and the first bank in that epoch would have no stakes for it.
EpochStakesForOwnEpoch == Epoch(slot) \in DOMAIN epoch_stakes

\* prior_voters is the history that slashing would use: in each epoch of a range,
\* its key was the voter, and the ranges follow each other without a gap.
PriorVotersAreHistory ==
    LET prior == acct.prior_voters
    IN  /\ \A i \in DOMAIN prior :
              \A e \in DOMAIN in_force :
                 e \in prior[i][2]..(prior[i][3] - 1) => in_force[e] = prior[i][1]
        /\ \A i \in 1..(Len(prior) - 1) : prior[i][3] = prior[i + 1][2]

\* The assertions of set_new_authorized_voter and purge_authorized_voters: the
\* target epoch is after every epoch that has a voter, and the purge leaves one,
\* the voter of the current epoch.
AuthorizeAssertionsHold ==
    ~ is_uninitialized(acct) =>
        /\ TargetEpoch \notin DOMAIN acct.authorized_voters =>
              \A e \in DOMAIN acct.authorized_voters : e < TargetEpoch
        /\ get_authorized_voter(acct.authorized_voters, Epoch(slot)) # NoKey

\* An account that is initialized stays rent exempt: a withdrawal leaves the
\* minimum or closes it.
OpenAccountIsRentExempt == ~ is_uninitialized(acct) => lamports >= MinimumBalance

\* "Update the node_pubkey, requires signature of the authorized voter": what the
\* comment above update_validator_identity says of who signs an identity change.
IdentityChangeSignedByVoter ==
    [][\A node \in Keys, signers \in SUBSET Keys :
          UpdateValidatorIdentity(node, signers) =>
              get_authorized_voter(acct.authorized_voters, Epoch(slot)) \in signers]_vars
=============================================================================
