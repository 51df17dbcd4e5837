---------------------------- MODULE AccountLocks ----------------------------
(***************************************************************************)
(* Account locks (runtime/src/accounts.rs): before a banking thread        *)
(* executes a batch of transactions on a bank, it locks the accounts each  *)
(* transaction writes or reads, and it unlocks them when the batch is      *)
(* dropped (runtime/src/transaction_batch.rs).  A transaction that cannot  *)
(* be locked stays in the batch with the error AccountInUse.  One that was *)
(* refused before is in the batch with its error and is not locked at all: *)
(* CostLimit stands for the limits of the block's cost model, Fatal for    *)
(* what no later block would mend (WouldExceedAccountDataTotalLimit, and   *)
(* the TooManyAccountLocks and AccountLoadedTwice of get_account_locks).   *)
(* What is unlocked is decided from the same vector of results.            *)
(*                                                                         *)
(* A batch is locked and unlocked transaction by transaction under the     *)
(* account_locks mutex, one step per transaction.  What the thread does    *)
(* between the two is left open here; LeaderBlock fills it in.             *)
(***************************************************************************)
EXTENDS Transactions

CONSTANTS Threads,    \* banking threads
          Banks,      \* the banks to lock accounts of, each with its own locks
          Batches,    \* the batches a thread may be given
          NoThread,   \* nobody holds the mutex
          NoBank      \* the thread has no batch

ASSUME LocksAssumption ==
    /\ NoThread \notin Threads /\ NoBank \notin Banks
    /\ Batches \subseteq Seq(Txs) \ {<< >>}

VARIABLES pc,              \* per thread: idle, locking, locked or unlocking
          bank,            \* per thread: the bank of its batch
          batch,           \* per thread: the transactions of its batch
          lock_results,    \* per thread: Ok, AccountInUse, CostLimit or Fatal for each
          pos,             \* per thread: the transaction to lock or unlock next
          write_locks,     \* per bank: accounts locked for writing
          readonly_locks,  \* per bank and account: number of read locks
          mutex            \* per bank: the thread inside account_locks.lock()

lockVars == <<pc, bank, batch, lock_results, pos, write_locks, readonly_locks, mutex>>

LocksInit ==
    /\ pc = [t \in Threads |-> "idle"]
    /\ bank = [t \in Threads |-> NoBank]
    /\ batch = [t \in Threads |-> << >>]
    /\ lock_results = [t \in Threads |-> << >>]
    /\ pos = [t \in Threads |-> 1]
    /\ write_locks = [b \in Banks |-> {}]
    /\ readonly_locks = [b \in Banks |-> [a \in Accounts |-> 0]]
    /\ mutex = [b \in Banks |-> NoThread]

-----------------------------------------------------------------------------
\* How a transaction goes into the locking: accepted by select_transactions_per_cost
\* and get_account_locks, or with the error of one of them.
Verdicts == {"Ok", "CostLimit", "Fatal"}

\* The batch txs for bank b, with the verdict on each of them.
PrepareBatch(t, b, txs, qos) ==
    /\ pc[t] = "idle"
    /\ qos \in [DOMAIN txs -> Verdicts]
    /\ pc' = [pc EXCEPT ![t] = "locking"]
    /\ bank' = [bank EXCEPT ![t] = b]
    /\ batch' = [batch EXCEPT ![t] = txs]
    /\ lock_results' = [lock_results EXCEPT ![t] = qos]
    /\ pos' = [pos EXCEPT ![t] = 1]
    /\ UNCHANGED <<write_locks, readonly_locks, mutex>>

\* Mutant: a writer does not look at the read locks.
LockableIgnoresReaders(b, x) ==
    \A a \in Writable[x] \cup Readonly[x] : a \notin write_locks[b]

\* The check of lock_account.
Lockable(b, x) ==
    /\ \A a \in Writable[x] : a \notin write_locks[b] /\ readonly_locks[b][a] = 0
    /\ \A a \in Readonly[x] : a \notin write_locks[b]

lock_account(b, x) ==
    /\ write_locks' = [write_locks EXCEPT ![b] = @ \cup Writable[x]]
    /\ readonly_locks' = [readonly_locks EXCEPT ![b] =
                             [a \in Accounts |-> IF a \in Readonly[x] THEN @[a] + 1 ELSE @[a]]]

\* unlock_readonly leaves an account that is not locked alone.
unlock_account(b, x) ==
    /\ write_locks' = [write_locks EXCEPT ![b] = @ \ Writable[x]]
    /\ readonly_locks' = [readonly_locks EXCEPT ![b] =
                             [a \in Accounts |-> IF a \in Readonly[x] /\ @[a] > 0
                                                 THEN @[a] - 1 ELSE @[a]]]

\* Mutant: the guard of the mutex outlives the loop.
InsideMutexKeepsIt(t) ==
    /\ mutex[bank[t]] \in {NoThread, t}
    /\ mutex' = [mutex EXCEPT ![bank[t]] = t]
    /\ pos' = [pos EXCEPT ![t] = IF pos[t] = Len(batch[t]) THEN 1 ELSE @ + 1]

\* One step inside the mutex: the first takes it, the last releases it.
InsideMutex(t) ==
    /\ mutex[bank[t]] \in {NoThread, t}
    /\ mutex' = [mutex EXCEPT ![bank[t]] = IF pos[t] = Len(batch[t]) THEN NoThread ELSE t]
    /\ pos' = [pos EXCEPT ![t] = IF pos[t] = Len(batch[t]) THEN 1 ELSE @ + 1]

\* lock_accounts_inner, one transaction.
LockNext(t) ==
    LET x == batch[t][pos[t]] IN
    /\ pc[t] = "locking"
    /\ InsideMutex(t)
    /\ pc' = [pc EXCEPT ![t] = IF pos[t] = Len(batch[t]) THEN "locked" ELSE "locking"]
    /\ \/ /\ lock_results[t][pos[t]] = "Ok" /\ Lockable(bank[t], x)
          /\ lock_account(bank[t], x)
          /\ UNCHANGED lock_results
       \/ /\ lock_results[t][pos[t]] = "Ok" /\ ~ Lockable(bank[t], x)
          /\ lock_results' = [lock_results EXCEPT ![t][pos[t]] = "AccountInUse"]
          /\ UNCHANGED <<write_locks, readonly_locks>>
       \/ /\ lock_results[t][pos[t]] # "Ok"
          /\ UNCHANGED <<lock_results, write_locks, readonly_locks>>
    /\ UNCHANGED <<bank, batch>>

\* Drop of the TransactionBatch.
DropBatch(t) ==
    /\ pc[t] = "locked"
    /\ pc' = [pc EXCEPT ![t] = "unlocking"]
    /\ UNCHANGED <<bank, batch, lock_results, pos, write_locks, readonly_locks, mutex>>

\* Mutant: AccountInUse is not in the list of errors without a lock.
HoldsLockInUse(result) == result \notin {"CostLimit", "Fatal"}

\* Whether unlock_accounts unlocks a transaction with this result.
HoldsLock(result) == result \notin {"AccountInUse", "CostLimit", "Fatal"}

\* unlock_accounts, one transaction; after the last one the batch is gone.
UnlockNext(t) ==
    LET x == batch[t][pos[t]] IN
    /\ pc[t] = "unlocking"
    /\ InsideMutex(t)
    /\ IF HoldsLock(lock_results[t][pos[t]])
       THEN unlock_account(bank[t], x)
       ELSE UNCHANGED <<write_locks, readonly_locks>>
    /\ IF pos[t] = Len(batch[t])
       THEN /\ pc' = [pc EXCEPT ![t] = "idle"]
            /\ bank' = [bank EXCEPT ![t] = NoBank]
            /\ batch' = [batch EXCEPT ![t] = << >>]
            /\ lock_results' = [lock_results EXCEPT ![t] = << >>]
       ELSE UNCHANGED <<pc, bank, batch, lock_results>>

LocksNext ==
    \E t \in Threads :
        \/ \E b \in Banks, txs \in Batches :
              \E qos \in [DOMAIN txs -> Verdicts] : PrepareBatch(t, b, txs, qos)
        \/ LockNext(t)
        \/ DropBatch(t)
        \/ UnlockNext(t)

LocksSpec == LocksInit /\ [][LocksNext]_lockVars

-----------------------------------------------------------------------------
(* The transactions of thread t that hold their locks.                     *)

Span(t) == CASE pc[t] = "locking"   -> 1..(pos[t] - 1)
             [] pc[t] = "locked"    -> 1..Len(batch[t])
             [] pc[t] = "unlocking" -> pos[t]..Len(batch[t])
             [] OTHER               -> {}

Held(t) == {i \in Span(t) : lock_results[t][i] = "Ok"}

\* The pairs <<thread, index>> of the transactions locked on bank b.
Holders(b) == UNION {{<<t, i>> : i \in Held(t)} : t \in {u \in Threads : bank[u] = b}}
TxOf(h) == batch[h[1]][h[2]]

\* The lock table of a bank says exactly what the batches in flight hold: an
\* account is write-locked when a transaction that writes it is locked, and its
\* read count is the number of locked transactions that read it (lock_account,
\* unlock_accounts: nothing is unlocked twice, early, or left locked).
LockTableMatchesHolders ==
    \A b \in Banks :
        /\ write_locks[b] = UNION {Writable[TxOf(h)] : h \in Holders(b)}
        /\ \A a \in Accounts :
              readonly_locks[b][a] = Cardinality({h \in Holders(b) : a \in Readonly[TxOf(h)]})

\* "Once accounts are locked, other threads cannot encode transactions that will
\* modify the same account state" (process_and_record_transactions): two
\* transactions locked on one bank at the same time, of one batch or of two
\* threads, never conflict.
HoldersNeverConflict ==
    \A b \in Banks : \A g, h \in Holders(b) : g # h => ~ Conflict(TxOf(g), TxOf(h))

\* The account locks are exact and exclusive.
AccountsAreLocked == LockTableMatchesHolders /\ HoldersNeverConflict
=============================================================================
