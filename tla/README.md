# Verification of PythNet's consensus and block production

PythNet is a fork of the Solana validator. This directory holds TLA+ models of the
parts of it where orders of steps matter most: how a validator votes and keeps the
promises its votes make across crashes, how the vote program on chain enforces and
rewards them, how the replay loop chooses a fork and handles duplicate blocks, and how
a leader's threads produce a block that others can replay. TLC checks the models on
small instances; TLAPS proves the main safety properties of the vote program, of the
account locks and of block production for every instance.

`PROJECT.json` lists components, runs, mutants, the source lines each definition
models, findings, hazards and theorems.

## The system and its hard parts

| part | state | operations | who touches it |
|---|---|---|---|
| vote account (`programs/vote`, `sdk/program/src/vote`) | tower of votes with confirmations, root, credits by epoch, timestamp; voters by epoch, prior voters, withdrawer, node, commission, lamports | Vote, VoteStateUpdate, Authorize, UpdateValidatorIdentity, UpdateCommission, Withdraw, InitializeAccount | transactions in the banks of every fork |
| bank (`runtime/src/bank.rs`) | SlotHashes, SlotHistory, epoch stakes, features | a new bank updates them before its transactions | replay, leader |
| tower (`core/src/consensus.rs`) | vote state, last vote, stray restored slot | is_locked_out, record_bank_vote, adoption, adjust_lockouts_after_replay | replay stage |
| replay stage (`core/src/replay_stage.rs`) | bank forks, progress, fork choice | replay, compute_bank_stats, vote, set root, refresh the last vote | one loop |
| voting service (`core/src/voting_service.rs`) | queue, saved tower | store, then send | its own thread |
| blockstore (`ledger`) | slots, shreds, roots | insert, chain, set_roots | several threads |
| fork choice, duplicate slots, repair (`core`) | tree of stakes, slot states | votes, new leaves, invalidation | replay, gossip, repair |
| banking stage, account locks, PoH (`core`, `runtime`, `poh`) | queues, locks, working bank | lock, execute, record, commit, tick | several threads |
| gossip (`gossip`) | replicated table | push, pull, prune, purge | several threads |
| accounts database, snapshots, status cache (`runtime`) | caches, storages, index | store, flush, clean, shrink | background threads |
| geyser plugin (`geyser`) | bounded channel, pipe | update_account, write | notifier, async task |

What is hard here, and hard to test: a crash between recording a vote, marking its
root, saving the tower and sending it; votes that are lost, duplicated or land on
another fork; updates that the program can verify only in part, because SlotHashes
has a capacity; values fixed an epoch ahead and used later; reports on a duplicate
block that arrive in any order around its replay, dump and repair; a tree of stakes
that is updated in place; and several threads that lock, execute, record and commit
transactions while the clock of the slot runs out under them.

## Modules

| module | models |
|---|---|
| `VoteState` | lockouts, popping, doubling, rooting, credits, timestamps, and the checks of `process_new_vote_state`, as operators |
| `VoteProgram` | one vote account on one fork: Vote (slot by slot, on a copy that a failure drops), VoteStateUpdate, new banks, feature activation |
| `VoteAuthority` | the same account's voters, withdrawer, identity, commission and balance, and the epoch stakes that copy its voter |
| `Tower` | one validator: replay, voting, roots, the voting service, crashes, restarts; uses `VoteState` for its tower and for the votes that land |
| `ForkChoice` | `HeaviestSubtreeForkChoice` as operators on a tree: leaves, votes, aggregation, exclusion, new roots |
| `ReplayForks` | the replay loop with `ForkChoice`, the cluster slot state verifier and the latest votes: frozen, dead, duplicate, sampled and confirmed blocks, dumps, roots |
| `Transactions` | what a transaction reads, writes and conflicts with; nonces; serial replay as operators |
| `AccountLocks` | the lock table of a bank, taken and released under its mutex, transaction by transaction |
| `LeaderBlock` | extends `AccountLocks` with the banking threads' pipeline, the PoH recorder, ticks, freezing, resets and a second bank |
| `SerialBlock` | abstract specification: a block is a sequence of entries that replay accepts, and the frozen accounts are what replay computes |
| `LeaderSerial` | the refinement mapping from `LeaderBlock` to `SerialBlock` |
| `AccountLocksInvariant` | the inductive invariant of the locks |
| `MCVoteProgram`, `MCVoteAuthority`, `MCReplayForks`, `MCLeaderBlock` | inputs and symmetry for TLC |
| `*Proofs` | theorems and proofs, see below |

**Vote program.** In `VoteProgram`, `vs` is the account's `VoteState`, `slot_hashes` the
sysvar, `tx` the copy a Vote works on; an accepted instruction is an action, a refused
one is `RejectInstruction`. The two-index loops of the source (slots against
SlotHashes, old votes against new) are given by what they compute, with sets and
quantifiers.

**Tower.** `tower` is the replay stage's, `queue` the channel to the voting service,
`disk` the tower file, `roots` and `ledger` the blockstore, `banks` the bank forks;
`sent` is what the network may deliver, in any order and any number of times; `cast`
is a history variable that no guard reads. Storing and sending are two actions, so a
crash can fall between them. Stake is not modelled: the heaviest fork is any tip, and
each check that only stake decides may pass or fail. `ComputeBankStats` is one pass over
the frozen banks in the order of their slots: it adopts a newer vote state found on chain
and keeps, in `votable`, what `is_locked_out` said of each bank at its turn, which is what
the next vote goes by. Block production, repair and
crashes are the environment. Only the path of direct vote state updates is modelled,
not the older one that sends the difference of two towers. Hashes are right or wrong.

**Replay and fork choice.** `tree` is the fork choice, `bank` the one version of each
slot in bank forks; the trackers keep their names. One action is one step of the
replay loop with everything it calls: `ProcessReplayResults` freezes a bank, adds it to
fork choice and runs the verifier; `ComputeBankStats` collects a bank's votes and
applies them. Inputs are what the cluster can report: `truth` is the chain it confirms,
at most one version of a slot, ancestors included.

**Block production.** One action per critical section. A thread takes a batch
(`Consume`), each transaction with a verdict of the cost model and of the validation of
its accounts (none, no room in this block, fatal), locks it one at a time (`Lock`), executes it, takes the freeze
lock and sends it to the PoH thread (`record_transactions`), commits in two steps and
unlocks. `record`, `tick` and `reset` are the PoH recorder's, `freeze` and
`new_from_parent` the replay thread's. Choices: an entry is a set of transactions,
because locked transactions do not conflict; a batch executes in one step, because
nobody else can write its accounts meanwhile, which is what `AccountsAreLocked` says;
registering a blockhash and the tick that follows it are one step; a blockhash other
than a nonce is always recent. Left out: a thread that keeps a bank over several chunks
of its buffer, and the answer a thread gets while the validator exits.

## Runs

| run | instance | states | shows |
|---|---|---|---|
| `vote_program` | 3 votes, 3 slot hashes, slots 0-4, 9, 10, two features | 60,628 | tower well formed, on its fork, above its root; no rollback; credits; an honest update is accepted and agrees with Vote |
| `vote_timestamps` | 2 slot hashes, slots 0-4, timestamps, filter feature | 5,413 | the timestamp on record is never for a slot ahead of the votes |
| `tower` | 2 votes, slots 0-3 and 7, 2 crashes, votes that may not be signed | 339,048 | no assertion fails, those on an adopted vote state included, while the blockstore keeps its roots |
| `tower_ledger_loss` | 2 votes, slots 0-3 and 7, 2 crashes that may lose ledger, every vote signed | 434,113 | lockouts kept across crashes, save before send, votes sent in order; a tower from the future is restored with its lockouts |
| `vote_authority` | 2 keys, 6 slots, epochs of 2, ring of 2 | 296,864 | fixed voter in force, own epoch's stakes present (no gap longer than an epoch), exact history of voters |
| `fork_choice` | 6 blocks, 2 versions of slot 1, stakes 1 and 2, 1 dump of a slot | 47,541 | no assertion or unwrap fails; weights and best blocks equal a recount; once gossip reported the confirmed version of a slot the verdict on ours is right, in whatever order the reports came; before that, a version known to be a duplicate is excluded unless an EpochSlots sample vouched for it |
| `leader_block` | 2 threads, 3 transactions, 2 slots of one tick, resets | 923,484 | exact and exclusive locks, no commit to a frozen bank, no transaction twice, none lost but for a fatal error |
| `leader_serial` | 2 threads, 2 transactions, 2 slots of one tick, fairness | 82,118 | refinement of `SerialBlock`; every batch is unlocked, every complete bank frozen |
| `refresh_of_unsaved_vote`, `identity_change_signer`, `votes_for_two_versions`, `last_tick_before_commit` | small | | violations: the findings below |

Bounds. Capacities are cut so that each is reached: one vote more than the capacity
roots the oldest, one bank more drops a slot hash, one voter more wraps the ring. A gap in the slots lets
lockouts expire. The voting service's channel is unbounded in the code; `MaxQueue`
bounds it. In `fork_choice`, siblings on one version of slot 1 and a child below one of
them let votes move along a fork and across forks, before and after the other version
was dumped; `MaxDumps` bounds how often a slot is dumped. An instance with a second
version of slot 2 also passes (279,375 states, 7.5 minutes) and is not kept as a run.
In the leader runs two threads and two banks are what it takes to conflict, to commit
late and to meet a transaction of the parent; the transactions conflict by write and
write and by read and write, one is in both buffers and one fails with a nonce.
`Throttled` bounds which of them may find no room in a block, `Unfit` which may be
refused for good, as too much data for the bank or accounts that cannot be locked are;
both are one transaction, which is in one buffer, in `leader_block`.

**What ledger loss leaves open.** `LedgerLossAssertionsHold` makes one exception. A tower
restored from the future keeps its root, while the root of bank forks is still older and
nothing was purged for the newer one. With 2 votes and the slots 0-3 and 7 both its votes
expire before slot 7; a bank on another fork is then not locked out although it does not
descend from that root, and `is_locked_out` asserts that it does (`consensus.rs:617`; its
comment says "This case should never happen because bank forks purges all non-descendants
of the root every time root is set"). TLC finds this as a violation of
`RootAssertionHolds` in `tower_ledger_loss`; the model takes it as the end of the process.
When rooting itself made the root, the oldest vote left locks about 2^MAX_LOCKOUT_HISTORY
slots: 4 slots here, 2^31 in the code, so there the wait is not a practical one. That is
an argument, not a check, and it does not cover a root that came from a snapshot with few
votes above it.

**Skipped slots and epoch stakes.** `vote_authority` assumes that no bank is further from
its parent than an epoch has slots (`MaxSkip`). The code does not enforce it:
`update_epoch_stakes` adds the stakes of one epoch, the leader schedule's. With epochs of
2 slots and a gap of 3, TLC finds `EpochStakesForOwnEpoch` violated: the bank of slot 3
follows that of slot 0, adds epoch 3, and epoch 2 never has stakes. On a cluster that is a
gap of 432,000 slots, about two days, or less in the warm-up epochs.

`VoteProgram` never offers a list with more votes than the capacity, and validators do
not vote on slot 0. `CHECK_DEADLOCK FALSE` stands where the bounded slots run out.

**An assumption of `tower_ledger_loss`.** It sets `MayNotSign = FALSE`: each vote can be
signed when it is recorded. This is not cosmetic. With `MayNotSign = TRUE` and one crash
(the other constants as in `TowerUnsigned.cfg`), TLC finds
`SentVotesRespectLockout` itself violated, in 22 states: a recorded vote is not signed,
so nothing is saved; `refresh_last_vote` signs and sends it; the process crashes and
restores a tower without it; the validator then votes on another fork inside its
lockout. `generate_vote_tx` has such exits (startup verification incomplete, no key
for the authorized voter, `wait_to_vote_slot`, account missing or of another node). The
model lets signing fail at any vote and has no refresh timer or blockhash age, so it
shows that the order of steps allows this, not how likely it is.

**An assumption of `fork_choice`.** `EpochSlotsTruthful = TRUE`: a sample of EpochSlots
names the version that the cluster confirms. With FALSE, TLC finds `NeverPanics`
violated: a wrong sample makes the validator dump the right version, fork choice keeps
the dumped block, and a later confirmation makes it the best one while bank forks has
no bank for it, which `select_forks` unwraps (`heaviest_subtree_fork_choice.rs:1039`).
Samples are majorities of repair peers, so the assumption is about the cluster, not
about this code. `NeverPanics` covers both unwraps of `select_forks`, the second for any
block that could be the last vote. The panic at line 946, where the last vote is not in
fork choice at all, needs the tower: its counterpart is `SwitchAssertionsHold` of `Tower`,
by which the last vote has a bank unless it is stray.

**Fairness.** Only `leader_serial` uses it: weak fairness of each banking thread once it
has a batch, of the PoH thread's `record` and `tick`, and of the replay thread's
`freeze`. Each is a loop on a thread of its own; the freeze lock and the accounts mutex
are released by steps of the same threads. Nothing is assumed of taking another batch,
of starting another slot or of resets. A bank that was reset before its last tick need
not freeze. Weak fairness suffices although threads compete for the mutex of a bank,
because ticks end its slot and no batch is taken after that; no fair lock is assumed.

## Findings

1. `validator-failover.md:97-98` suggests that a tower is written before each vote is
   submitted. A refreshed vote that was not signed at first is sent without. See the
   assumption above for what follows from it.
2. `programs/vote/src/vote_state/mod.rs:802` says that a change of identity needs the
   authorized voter's signature. The code asks for the withdrawer's and the new node's.
3. `heaviest_subtree_fork_choice.rs:803-805` says that a vote for another version of the
   same slot, with a smaller hash, is processed. `check_add_vote` adds such a vote to the
   dirty set with `or_default()`, which gives it slot 0 if the set was taken in between,
   and it is dropped later. The stake stays on the first version until the next vote.
4. `bank.rs:3595-3599` says that all account updates are committed before the last tick
   is counted. A leader's recorded batch may commit after it. The freeze lock keeps the
   accounts hash right (`AssertionsHold`), but `commit_transactions` reads the blockhash
   after the record, so the nonce of a failing nonce transaction can be advanced with the
   bank's own blockhash where replay uses the parent's. `SerialBlock!Close` allows exactly
   this difference and no other.

Besides, `consensus.rs:1357-1361` says that `handle_votable_bank()` "saves tower before
setting blockstore roots". The code marks the roots first. The same comment allows for
either outcome of a crash, and restart handles both; `tower` crashes between the two.

## Proofs

Assumptions: `ProgramAssumption` (types; capacities positive) and `ConstantsAssumption`
(capacities positive; and, because the prover knows nothing of exponentiation, that the
powers of `INITIAL_LOCKOUT` up to the capacity are positive and do not decrease, which
TLC evaluates on each run). The proofs leave overflow of `u64` aside.

`VoteProgramProofs` proves `TypeCorrect`, `TowerAlwaysWellFormed` and `OnlyThisFork`
from one inductive invariant, `IInv`. `VotesOnThisFork` is not inductive alone: a vote
is checked against SlotHashes, so `IInv` adds that SlotHashes holds only slots of this
fork, and that the slots a Vote still has to apply were checked.

`VoteRollbackProofs` proves `VotesStayAboveRoot` and `NeverRollsBack` from `RInv`, which
adds that the copy a Vote works on is itself no rollback of the account. Transitivity
of "no rollback" then carries each slot of the Vote to its end.

`VoteStateProofs` has the lemmas on the operators.

`AccountLocksProofs` proves `LocksCorrect` from `LocksInv`: the lock table is exactly the
locks of the transactions in flight, and no two of these conflict. The two conjuncts
need each other. The table tells of every conflict only if it is exact, and unlocking
leaves it exact only if no other transaction holds the same accounts. The reader counts
are cardinalities, so the invariant adds that the holders are finitely many.

`LeaderBlockProofs` first proves `ImplementsAccountLocks`: every step of block production
is a step of the locks or leaves them alone. `LeaderLocksCorrect` follows, and `LocksInv`
becomes available. From it and `LeaderInv` come `NeverRecordedTwice` and
`NoCommitAfterFreeze`. Neither is inductive: `RecordedOnce` needs that every recorded
transaction of a bank is in the status cache or in a batch about to commit, and that what
a thread is going to record is in neither; the locks give the rest, since a transaction
conflicts with itself. `AssertionsHold` needs that a bank with a recorded, uncommitted
batch is not frozen, and that the working bank is not complete. The lemmas for the
threads, the PoH recorder and the banks are in `LeaderThreadProofs`, `LeaderPohProofs`
and `LeaderBankProofs`.

Assumptions there: `LeaderAssumption` (banks are numbered above genesis, at least one tick
per slot) and those of `AccountLocks` and `Transactions` on the types of their constants.

Only model-checked: everything about `Tower`, `VoteAuthority` and `ReplayForks`; of
`VoteProgram` credits, timestamps, `HonestUpdateAgreesWithVote` and
`RootFixAssertionHolds` (which needs that nobody votes on slot 0); of `LeaderBlock`
`NothingLost`, liveness and the refinement of `SerialBlock`, whose replay is a recursion
over the entries of a block. Out of the prover's reach: liveness, ENABLED, and induction
over data.

## Not modelled

The repository has some 430,000 lines. The models stand for about 6,500 of
them (1.5%), and the rest is mostly data, input and output, or sequential code that its unit
tests reach. `components` has every part and its reason. The larger ones:

- accounts database, snapshots, blockstore and shreds: storage engines of tens of
  thousands of lines. They appear as a map of accounts, a set of complete slots and a
  latest root.
- gossip, turbine, repair and ancestor hashes: network protocols. The models take their
  results as events in any order.
- stake, rewards, fees, rent, leader schedule: sequential arithmetic; stakes are constants.
- the virtual machine and the other programs: a transaction is known by its accounts.
- the optimistic confirmation of a cluster needs several towers at once, and one alone
  takes 400,000 states.

Within the modelled parts: identity changes at run time, etcd storage, an unsynced tower
file lost by the operating system, supermajority roots at startup, SlotHistory's capacity,
warm-up epochs, byte encodings, votes seen only in gossip, `split_off`, `merge` and
`add_root_parent` of fork choice (which repair uses), a leader's bank that builds on a
dumped fork, blockhash ages and the purge of the status cache, and the vote storage of the
banking stage.

The geyser plugin (`geyser/src/lib.rs`) is a filter in front of a bounded channel and is
not modelled. Three things were seen in reading it: the literal in `ACCOUNT_FILTER` does
not decode to 32 bytes, so its first use panics; the runtime that `on_load` creates is
dropped when it returns; and there is no `_create_plugin` export.
