---------------------------- MODULE LeaderBlock -----------------------------
(***************************************************************************)
(* Producing blocks: the banking threads (core/src/banking_stage.rs) lock, *)
(* execute, record and commit batches of transactions, the PoH thread      *)
(* (poh/src/poh_recorder.rs) orders the recorded batches and the ticks     *)
(* that end the slot, and the replay thread freezes a bank whose last tick *)
(* is in (Bank::freeze of runtime/src/bank.rs) and starts the next one.    *)
(*                                                                         *)
(* Several locks keep these apart: the account locks (AccountLocks), the   *)
(* freeze lock (the read lock of Bank::hash, held from before a batch is   *)
(* recorded until after it is committed), and the order of the record      *)
(* channel.  SerialBlock says what they are for.                           *)
(***************************************************************************)
EXTENDS AccountLocks

CONSTANTS Genesis,     \* the frozen bank the first leader bank is created on
          MaxTicks,    \* ticks per slot
          Buffers,     \* [Threads -> SUBSET Txs], the packets buffered at the start
          Throttled,   \* the transactions a block may have no room for
          Unfit        \* the transactions that may be refused for good

ASSUME LeaderAssumption ==
    /\ Banks \subseteq Nat /\ Genesis \in Nat /\ \A b \in Banks : Genesis < b
    /\ MaxTicks \in Nat \ {0}
    /\ Buffers \in [Threads -> SUBSET Txs]

VARIABLES buffer,        \* per thread: buffered packets
          stage,         \* per thread: how far its locked batch has come
          executed,      \* per thread: the indexes of its batch that were executed
          outputs,       \* per thread and executed index: the accounts to store
          record_queue,  \* the record channel: threads waiting for the PoH thread
          working_bank,  \* PohRecorder.working_bank
          tick_height,   \* per bank, from the start of its slot
          parent, ancestors, accounts, block, frozen,   \* per bank
          status_cache,  \* <<transaction, bank>> pairs
          panicked       \* an assertion failed

threadVars == <<buffer, stage, executed, outputs>>
bankVars   == <<tick_height, parent, ancestors, accounts, block, frozen>>
vars == <<lockVars, threadVars, bankVars, record_queue, working_bank, status_cache, panicked>>

AllBanks == Banks \cup {Genesis}
Created(b) == parent[b] # NotCreated

Init ==
    /\ LocksInit
    /\ buffer = Buffers
    /\ stage = [t \in Threads |-> "none"]
    /\ executed = [t \in Threads |-> {}]
    /\ outputs = [t \in Threads |-> << >>]
    /\ record_queue = << >>
    /\ working_bank = NoBank
    /\ tick_height = [b \in AllBanks |-> IF b = Genesis THEN MaxTicks ELSE 0]
    /\ parent = [b \in AllBanks |-> NotCreated]
    /\ ancestors = [b \in AllBanks |-> {b}]
    /\ accounts = [b \in AllBanks |-> GenesisAccounts]
    /\ block = [b \in AllBanks |-> << >>]
    /\ frozen = {Genesis}
    /\ status_cache = {}
    /\ panicked = FALSE

\* register_tick registers the blockhash of the slot with its last tick.
is_complete(b) == tick_height[b] = MaxTicks
last_blockhash(b) == IF is_complete(b) THEN b ELSE parent[b]

\* Mutant: only the bank's own slot is looked up.
is_transaction_already_processed_here(b, x) == <<x, b>> \in status_cache

is_transaction_already_processed(b, x) == \E s \in ancestors[b] : <<x, s>> \in status_cache

check_transactions(b, x) == /\ check_age(x, accounts[b], last_blockhash(b))
                            /\ ~ is_transaction_already_processed(b, x)

\* Mutant: the freeze lock covers the record only.
FreezeLocksForRecord(b) == {t \in Threads : bank[t] = b /\ stage[t] = "recording"}

\* The threads that hold the read lock of the bank's hash.
FreezeLocks(b) == {t \in Threads : bank[t] = b /\ stage[t] \in {"recording", "recorded", "stored"}}

Entry(t) == {batch[t][i] : i \in executed[t]}

-----------------------------------------------------------------------------
(* A banking thread.                                                       *)

\* consume_buffered_packets up to the locking: a batch of buffered packets for
\* the working bank, each with the verdict of the cost model (or, as the account
\* locks are validated before the first is taken, of get_account_locks).
Consume(t) ==
    /\ working_bank # NoBank
    /\ \E txs \in Batches :
          /\ {txs[i] : i \in DOMAIN txs} \subseteq buffer[t]
          /\ \E qos \in [DOMAIN txs -> Verdicts] :
                /\ \A i \in DOMAIN txs : /\ qos[i] = "CostLimit" => txs[i] \in Throttled
                                         /\ qos[i] = "Fatal" => txs[i] \in Unfit
                /\ PrepareBatch(t, working_bank, txs, qos)
          /\ buffer' = [buffer EXCEPT ![t] = @ \ {txs[i] : i \in DOMAIN txs}]
    /\ stage' = [stage EXCEPT ![t] = "start"]
    /\ UNCHANGED <<executed, outputs, bankVars, record_queue, working_bank, status_cache, panicked>>

Lock(t) ==
    /\ LockNext(t)
    /\ UNCHANGED <<threadVars, bankVars, record_queue, working_bank, status_cache, panicked>>

load_and_execute_transactions(t) ==
    LET b == bank[t]
        ok == {i \in DOMAIN batch[t] : /\ lock_results[t][i] = "Ok"
                                       /\ check_transactions(b, batch[t][i])}
    IN  /\ pc[t] = "locked" /\ stage[t] = "start"
        /\ executed' = [executed EXCEPT ![t] = ok]
        /\ outputs' = [outputs EXCEPT ![t] =
               [i \in ok |-> Stored(batch[t][i], accounts[b], last_blockhash(b), last_blockhash(b))]]
        /\ stage' = [stage EXCEPT ![t] = "executed"]
        /\ UNCHANGED <<lockVars, buffer, bankVars, record_queue, working_bank, status_cache, panicked>>

\* The freeze lock is taken and the executed transactions are sent to the PoH
\* thread; a batch with none of them has nothing to record or commit.
record_transactions(t) ==
    /\ stage[t] = "executed"
    /\ IF executed[t] = {}
       THEN /\ stage' = [stage EXCEPT ![t] = "finished"]
            /\ UNCHANGED record_queue
       ELSE /\ stage' = [stage EXCEPT ![t] = "recording"]
            /\ record_queue' = Append(record_queue, t)
    /\ UNCHANGED <<lockVars, buffer, executed, outputs, bankVars, working_bank, status_cache, panicked>>

\* commit_transactions up to the stored accounts.  The blockhash is read after
\* the record, and it advances the nonces of the failed transactions.
commit_transactions(t) ==
    LET b == bank[t]
        stored(i) == [a \in DOMAIN outputs[t][i] |->
                         IF /\ batch[t][i] \in Fails /\ NonceOf[batch[t][i]] # NoNonce
                            /\ a = NonceAccount
                         THEN Nonce(last_blockhash(b)) ELSE outputs[t][i][a]]
        writers(a) == {i \in executed[t] : a \in DOMAIN outputs[t][i]}
    IN  /\ stage[t] = "recorded"
        /\ stage' = [stage EXCEPT ![t] = "stored"]
        /\ panicked' = (panicked \/ b \in frozen)
        /\ accounts' = [accounts EXCEPT ![b] =
               [a \in Accounts |-> IF writers(a) = {} THEN @[a]
                                   ELSE stored(CHOOSE i \in writers(a) : TRUE)[a]]]
        /\ UNCHANGED <<lockVars, buffer, executed, outputs, tick_height, parent, ancestors, block,
                       frozen, record_queue, working_bank, status_cache>>

\* The rest of commit_transactions; the freeze lock is dropped.
update_transaction_statuses(t) ==
    /\ stage[t] = "stored"
    /\ stage' = [stage EXCEPT ![t] = "finished"]
    /\ status_cache' = status_cache \cup (Entry(t) \X {bank[t]})
    /\ UNCHANGED <<lockVars, buffer, executed, outputs, bankVars, record_queue, working_bank, panicked>>

DropLocks(t) ==
    /\ stage[t] \in {"finished", "refused"}
    /\ DropBatch(t)
    /\ UNCHANGED <<threadVars, bankVars, record_queue, working_bank, status_cache, panicked>>

\* Mutant: a refused record drops the executed transactions.
retryable_only_unlocked(t) ==
    {i \in DOMAIN batch[t] : lock_results[t][i] \in {"AccountInUse", "CostLimit"}}

\* The transactions to try again: not locked, without room in this block, or
\* executed and then refused by the PoH recorder.  Any other error is final.
retryable_transaction_indexes(t) ==
    {i \in DOMAIN batch[t] : lock_results[t][i] \in {"AccountInUse", "CostLimit"}}
        \cup (IF stage[t] = "refused" THEN executed[t] ELSE {})

\* After the last unlock, the retryable transactions that are still valid
\* (filter_pending_packets_from_pending_txs) return to the buffer.
Unlock(t) ==
    /\ UnlockNext(t)
    /\ IF pos[t] = Len(batch[t])
       THEN /\ buffer' = [buffer EXCEPT ![t] = @ \cup
                   {x \in {batch[t][i] : i \in retryable_transaction_indexes(t)} :
                        check_transactions(bank[t], x)}]
            /\ stage' = [stage EXCEPT ![t] = "none"]
            /\ executed' = [executed EXCEPT ![t] = {}]
            /\ outputs' = [outputs EXCEPT ![t] = << >>]
       ELSE UNCHANGED threadVars
    /\ UNCHANGED <<bankVars, record_queue, working_bank, status_cache, panicked>>

-----------------------------------------------------------------------------
(* The PoH thread.                                                         *)

\* Mutant: a request for another bank than the working bank gets no answer.
record_without_answer ==
    LET t == Head(record_queue)
    IN  /\ record_queue # << >>
        /\ record_queue' = Tail(record_queue)
        /\ IF working_bank = bank[t]
           THEN /\ block' = [block EXCEPT ![bank[t]] = Append(@, Entry(t))]
                /\ stage' = [stage EXCEPT ![t] = "recorded"]
           ELSE UNCHANGED <<block, stage>>
        /\ UNCHANGED <<lockVars, buffer, executed, outputs, tick_height, parent, ancestors, accounts,
                       frozen, working_bank, status_cache, panicked>>

\* PohRecorder::record of the oldest request: MaxHeightReached when the bank of
\* the request is not, or no longer, the working bank.
record ==
    LET t == Head(record_queue)
    IN  /\ record_queue # << >>
        /\ record_queue' = Tail(record_queue)
        /\ IF working_bank = bank[t]
           THEN /\ block' = [block EXCEPT ![bank[t]] = Append(@, Entry(t))]
                /\ stage' = [stage EXCEPT ![t] = "recorded"]
           ELSE /\ stage' = [stage EXCEPT ![t] = "refused"]
                /\ UNCHANGED block
        /\ UNCHANGED <<lockVars, buffer, executed, outputs, tick_height, parent, ancestors, accounts,
                       frozen, working_bank, status_cache, panicked>>

\* Mutant: the working bank is cleared one tick late.
tick_past_the_end ==
    /\ working_bank # NoBank
    /\ tick_height' = [tick_height EXCEPT ![working_bank] = @ + 1]
    /\ panicked' = (panicked \/ working_bank \in frozen)
    /\ working_bank' = IF tick_height[working_bank] = MaxTicks THEN NoBank ELSE working_bank
    /\ UNCHANGED <<lockVars, threadVars, parent, ancestors, accounts, block, frozen, record_queue, status_cache>>

\* tick and flush_cache: the tick that completes the bank clears working_bank.
tick ==
    /\ working_bank # NoBank
    /\ tick_height' = [tick_height EXCEPT ![working_bank] = @ + 1]
    /\ panicked' = (panicked \/ working_bank \in frozen)
    /\ working_bank' = IF tick_height[working_bank] + 1 = MaxTicks THEN NoBank ELSE working_bank
    /\ UNCHANGED <<lockVars, threadVars, parent, ancestors, accounts, block, frozen, record_queue, status_cache>>

-----------------------------------------------------------------------------
(* The replay thread.                                                      *)

\* A complete bank is frozen once nobody holds its freeze lock.
freeze(b) ==
    /\ Created(b) /\ is_complete(b) /\ b \notin frozen
    /\ FreezeLocks(b) = {}
    /\ frozen' = frozen \cup {b}
    /\ UNCHANGED <<lockVars, threadVars, tick_height, parent, ancestors, accounts, block,
                   record_queue, working_bank, status_cache, panicked>>

\* maybe_start_leader and set_bank: the next leader bank on a frozen parent.
new_from_parent(b, p) ==
    /\ working_bank = NoBank
    /\ ~ Created(b) /\ \A c \in Banks : c < b => Created(c)
    /\ p \in frozen
    /\ parent' = [parent EXCEPT ![b] = p]
    /\ ancestors' = [ancestors EXCEPT ![b] = ancestors[p] \cup {b}]
    /\ accounts' = [accounts EXCEPT ![b] = accounts[p]]
    /\ working_bank' = b
    /\ UNCHANGED <<lockVars, threadVars, tick_height, block, frozen, record_queue, status_cache, panicked>>

\* PohRecorder::reset to another fork in the middle of a slot.
reset ==
    /\ working_bank # NoBank
    /\ working_bank' = NoBank
    /\ UNCHANGED <<lockVars, threadVars, bankVars, record_queue, status_cache, panicked>>

-----------------------------------------------------------------------------
\* What a thread does with a batch once it has it.
ThreadStep(t) == \/ Lock(t)
                 \/ load_and_execute_transactions(t)
                 \/ record_transactions(t)
                 \/ commit_transactions(t)
                 \/ update_transaction_statuses(t)
                 \/ DropLocks(t)
                 \/ Unlock(t)

Next == \/ \E t \in Threads : Consume(t) \/ ThreadStep(t)
        \/ record
        \/ tick
        \/ reset
        \/ \E b \in Banks : freeze(b) \/ \E p \in AllBanks : new_from_parent(b, p)

Spec == Init /\ [][Next]_vars

\* Every thread keeps running: a batch is carried through, the PoH thread answers
\* and ticks, and the replay loop freezes a complete bank.  Nothing obliges a
\* thread to take another batch or the validator to lead another slot.
Fairness == /\ \A t \in Threads : WF_vars(ThreadStep(t))
            /\ WF_vars(record)
            /\ WF_vars(tick)
            /\ \A b \in Banks : WF_vars(freeze(b))

FairSpec == Spec /\ Fairness

-----------------------------------------------------------------------------
(* Properties.                                                             *)

TypeOK ==
    /\ pc \in [Threads -> {"idle", "locking", "locked", "unlocking"}]
    /\ bank \in [Threads -> Banks \cup {NoBank}]
    /\ \A t \in Threads : /\ batch[t] \in Batches \cup {<< >>}
                          /\ lock_results[t] \in [DOMAIN batch[t] -> Verdicts \cup {"AccountInUse"}]
                          /\ pc[t] # "idle" => pos[t] \in DOMAIN batch[t]
                          /\ executed[t] \subseteq DOMAIN batch[t]
                          /\ DOMAIN outputs[t] = executed[t]
    /\ mutex \in [Banks -> Threads \cup {NoThread}]
    /\ stage \in [Threads -> {"none", "start", "executed", "recording", "recorded",
                              "refused", "stored", "finished"}]
    /\ buffer \in [Threads -> SUBSET Txs]
    /\ working_bank \in Banks \cup {NoBank}
    /\ tick_height \in [AllBanks -> 0..MaxTicks]
    /\ status_cache \subseteq Txs \X Banks
    /\ frozen \subseteq AllBanks
    /\ \A b \in AllBanks : \A i \in DOMAIN block[b] : block[b][i] \subseteq Txs

\* The assertions of commit_transactions and register_tick, that the bank is not
\* frozen, never fail: a batch that was recorded is committed under the freeze
\* lock it took before ("BankingStage doesn't release this hash lock until both
\* record and commit are finished", Bank::freeze).
AssertionsHold == ~ panicked

\* No transaction is in the ledger twice on a fork, although the packet may be
\* in several buffers and is put back after a refused record: the status cache
\* is read under the account locks that the commit which fills it still holds.
RecordedOnce ==
    \A b \in AllBanks : \A s \in ancestors[b] :
        \A i \in DOMAIN block[b], j \in DOMAIN block[s] :
            <<b, i>> # <<s, j>> => block[b][i] \cap block[s][j] = {}

\* Where a transaction can be: in a buffer, in a batch or in the ledger.
Somewhere(x) ==
    \/ \E t \in Threads : x \in buffer[t] \/ x \in {batch[t][i] : i \in DOMAIN batch[t]}
    \/ \E b \in Banks : \E i \in DOMAIN block[b] : x \in block[b][i]

RefusedForGood(x) ==
    \E t \in Threads : \E i \in DOMAIN batch[t] : batch[t][i] = x /\ lock_results[t][i] = "Fatal"

\* No transaction without a nonce is lost but one "dropped without being committed
\* because [it] had some fatal error" (do_process_packets): whatever was locked,
\* throttled, executed and refused by the recorder, it stays in a buffer or a
\* batch until it is in the ledger.
NothingLost ==
    [][\A x \in Txs : NonceOf[x] = NoNonce /\ Somewhere(x) => Somewhere(x)' \/ RefusedForGood(x)]_vars

\* Every batch is carried through and its locks released: no thread waits forever
\* on the account_locks mutex, the record channel or another thread's locks.
LocksReleased == \A t \in Threads : pc[t] # "idle" ~> pc[t] = "idle"

\* A bank that got its last tick is frozen, whichever threads hold its freeze
\* lock at that time (execute_and_commit_transactions_locked, Bank::freeze).
CompleteBankFreezes == \A b \in Banks : is_complete(b) ~> b \in frozen

\* "the system needs to guarantee all account updates for the slot have been
\* committed before this tick height is incremented" (Bank::register_tick).
CommittedBeforeLastTick ==
    \A t \in Threads, b \in Banks :
        bank[t] = b /\ is_complete(b) => stage[t] # "recorded"
=============================================================================
