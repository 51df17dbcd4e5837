------------------------- MODULE LeaderThreadProofs -------------------------
(***************************************************************************)
(* The inductive invariant of block production, and that the steps of the  *)
(* banking threads keep it.                                                *)
(***************************************************************************)
EXTENDS LeaderBlock, AccountLocksInvariant, TLAPS

WorkingBankType == working_bank \in Banks \cup {NoBank}

-----------------------------------------------------------------------------
(* The inductive invariant behind RecordedOnce and AssertionsHold.         *)

Stages == {"none", "start", "executed", "recording", "recorded", "refused", "stored", "finished"}
Active == {"executed", "recording", "recorded", "stored"}

LeaderType ==
    /\ stage \in [Threads -> Stages]
    /\ executed \in [Threads -> SUBSET Nat]
    /\ record_queue \in Seq(Threads)
    /\ WorkingBankType
    /\ tick_height \in [AllBanks -> Int]
    /\ parent \in [AllBanks -> AllBanks \cup {NotCreated}]
    /\ ancestors \in [AllBanks -> SUBSET AllBanks]
    /\ block \in [AllBanks -> Seq(SUBSET Txs)]
    /\ frozen \subseteq AllBanks

\* How far a batch can be, given its locks; what was executed is locked.
StageInv ==
    \A t \in Threads :
        /\ pc[t] = "idle" => stage[t] = "none"
        /\ pc[t] = "locking" => stage[t] = "start"
        /\ pc[t] = "unlocking" => stage[t] \in {"finished", "refused"}
        /\ pc[t] # "idle" => Created(bank[t])
        /\ stage[t] \in Active =>
              executed[t] \subseteq {i \in DOMAIN batch[t] : lock_results[t][i] = "Ok"}

\* A thread is in the record channel once, while it waits for the answer.
QueueInv ==
    \A j \in 1..Len(record_queue) :
        /\ stage[record_queue[j]] = "recording"
        /\ \A k \in 1..Len(record_queue) : j # k => record_queue[j] # record_queue[k]

BankInv ==
    /\ working_bank # NoBank => /\ Created(working_bank) /\ working_bank \notin frozen
                                /\ ~ is_complete(working_bank)
    /\ \A b \in Banks : ~ Created(b) => /\ b \notin frozen /\ block[b] = << >>
                                         /\ ~ is_complete(b)
    /\ \A b \in AllBanks : /\ b \in ancestors[b]
                            /\ \A s \in ancestors[b] : s # b => s \in frozen

\* A frozen bank has no batch between record and commit.
FreezeInv == \A t \in Threads : stage[t] \in {"recorded", "stored"} => bank[t] \notin frozen

Recorded(b) == UNION {block[b][i] : i \in 1..Len(block[b])}

\* A recorded transaction is in the status cache, or its thread has yet to put
\* it there and holds its locks until then.
CacheInv ==
    \A b \in AllBanks : \A x \in Recorded(b) :
        \/ <<x, b>> \in status_cache
        \/ \E t \in Threads : bank[t] = b /\ stage[t] \in {"recorded", "stored"} /\ x \in Entry(t)

\* What is about to be recorded is not in the ledger of the fork.
FreshInv ==
    \A t \in Threads : stage[t] \in {"executed", "recording"} =>
        \A s \in ancestors[bank[t]] : Entry(t) \cap Recorded(s) = {}

LeaderInv ==
    /\ LeaderType /\ StageInv /\ QueueInv /\ BankInv /\ FreezeInv /\ CacheInv /\ FreshInv
    /\ RecordedOnce /\ AssertionsHold

-----------------------------------------------------------------------------
(* Facts about a state.                                                    *)

\* A batch between execution and the end of its commit is fully locked.
LEMMA ActiveIsLocked ==
    ASSUME LocksInv, LeaderInv, NEW t \in Threads, stage[t] \in Active
    PROVE  /\ pc[t] = "locked" /\ bank[t] \in Banks /\ BatchType(t) /\ batch[t] \in Seq(Txs)
           /\ executed[t] \subseteq Held(t)
           /\ Entry(t) \subseteq Txs
<1>1. pc[t] = "locked"
  BY ZenonT(30) DEF LeaderInv, StageInv, Active, LocksInv, LocksType
<1>2. BatchType(t) /\ bank[t] \in Banks /\ batch[t] \in Seq(Txs)
  BY <1>1 DEF LocksInv, LocksType, BatchType
<1>3. executed[t] \subseteq Held(t)
  BY <1>1, <1>2 DEF LeaderInv, StageInv, Held, Span
<1>4. Entry(t) \subseteq Txs
  BY <1>1, <1>2, <1>3 DEF Entry, Held, Span
<1> QED BY <1>1, <1>2, <1>3, <1>4

\* Two threads never hold one transaction for the same bank: it would conflict
\* with itself on its fee payer.
LEMMA HeldOnce ==
    ASSUME LocksInv, NEW t \in Threads, NEW u \in Threads, t # u, bank[t] = bank[u],
           bank[t] \in Banks, NEW i \in Held(t), NEW j \in Held(u)
    PROVE  batch[t][i] # batch[u][j]
<1>1. <<t, i>> \in Holders(bank[t]) /\ <<u, j>> \in Holders(bank[t]) /\ <<t, i>> # <<u, j>>
  BY DEF Holders
<1>2. ~ Conflict(batch[t][i], batch[u][j])
  BY <1>1 DEF LocksInv, HoldersNeverConflict, TxOf
<1>3. batch[t][i] \in Txs
  <2>1. BatchType(t)
    BY DEF LocksInv, LocksType, Held, Span
  <2> QED BY <2>1 DEF BatchType, Held, Span
<1>4. FeePayer[batch[t][i]] \in Writable[batch[t][i]]
  BY <1>3, TxsAssumption
<1> QED BY <1>2, <1>4 DEF Conflict

\* Two batches in flight on one bank have no transaction in common.
LEMMA EntriesDisjoint ==
    ASSUME LocksInv, LeaderInv, NEW t \in Threads, NEW u \in Threads, t # u,
           bank[t] = bank[u], stage[t] \in Active, stage[u] \in Active
    PROVE  Entry(t) \cap Entry(u) = {}
BY ActiveIsLocked, HeldOnce DEF Entry

\* A transaction that the status cache does not know on the fork, and that the
\* thread has locked, is not in the ledger of the fork.
LEMMA UnknownIsFresh ==
    ASSUME LocksInv, LeaderInv, NEW t \in Threads, pc[t] = "locked", stage[t] = "start",
           NEW i \in Held(t), NEW s \in ancestors[bank[t]],
           ~ is_transaction_already_processed(bank[t], batch[t][i])
    PROVE  batch[t][i] \notin Recorded(s)
<1> SUFFICES ASSUME batch[t][i] \in Recorded(s) PROVE FALSE
  OBVIOUS
<1>1. bank[t] \in Banks /\ s \in AllBanks
  BY DEF LocksInv, LocksType, BatchType, LeaderInv, LeaderType, AllBanks
<1>2. <<batch[t][i], s>> \notin status_cache
  BY DEF is_transaction_already_processed
<1>3. PICK u \in Threads : bank[u] = s /\ stage[u] \in {"recorded", "stored"} /\ batch[t][i] \in Entry(u)
  BY <1>1, <1>2 DEF LeaderInv, CacheInv
<1>4. s = bank[t]
  BY <1>1, <1>3 DEF LeaderInv, FreezeInv, BankInv, AllBanks
<1>5. u # t /\ stage[u] \in Active
  BY <1>3 DEF Active
<1>6. PICK j \in Held(u) : batch[u][j] = batch[t][i]
  BY <1>3, <1>5, ActiveIsLocked DEF Entry
<1> QED BY <1>1, <1>3, <1>4, <1>5, <1>6, HeldOnce

-----------------------------------------------------------------------------
(* The steps.  Those of a thread that leave the ledger alone need only what *)
(* they do to that thread.                                                 *)

LedgerSame ==
    /\ UNCHANGED <<tick_height, parent, ancestors, block, frozen, working_bank, status_cache>>
    /\ ~ panicked'

\* A thread step that records nothing keeps the invariant when the invariants
\* of that thread hold after it and it does not forget what it has yet to put
\* in the status cache.
LEMMA ThreadFrame ==
    ASSUME LocksInv, LeaderInv, LedgerSame, NEW t \in Threads,
           stage' \in [Threads -> Stages], executed' \in [Threads -> SUBSET Nat],
           \A u \in Threads \ {t} : /\ pc'[u] = pc[u] /\ bank'[u] = bank[u] /\ batch'[u] = batch[u]
                                    /\ lock_results'[u] = lock_results[u]
                                    /\ stage'[u] = stage[u] /\ executed'[u] = executed[u],
           /\ pc'[t] = "idle" => stage'[t] = "none"
           /\ pc'[t] = "locking" => stage'[t] = "start"
           /\ pc'[t] = "unlocking" => stage'[t] \in {"finished", "refused"}
           /\ pc'[t] # "idle" => Created(bank'[t])
           /\ stage'[t] \in Active =>
                 executed'[t] \subseteq {i \in DOMAIN batch'[t] : lock_results'[t][i] = "Ok"},
           record_queue' \in Seq(Threads), QueueInv',
           stage'[t] \in {"recorded", "stored"} => bank'[t] \notin frozen,
           stage[t] \in {"recorded", "stored"} =>
               bank'[t] = bank[t] /\ stage'[t] \in {"recorded", "stored"} /\ Entry(t)' = Entry(t),
           stage'[t] \in {"executed", "recording"} =>
               \A s \in ancestors[bank'[t]] : Entry(t)' \cap Recorded(s) = {}
    PROVE  LeaderInv'
<1>1. LeaderType'
  BY DEF LeaderInv, LeaderType, LedgerSame, WorkingBankType
<1>2. StageInv'
  BY DEF LeaderInv, StageInv, LedgerSame, Created
<1>3. BankInv'
  BY DEF LeaderInv, BankInv, LedgerSame, Created, is_complete
<1>4. FreezeInv'
  BY DEF LeaderInv, FreezeInv, LedgerSame
<1>5. \A u \in Threads \ {t} : Entry(u)' = Entry(u)
  BY DEF Entry
<1>6. \A b : Recorded(b)' = Recorded(b)
  BY DEF Recorded, LedgerSame
<1>7. CacheInv'
  <2> SUFFICES ASSUME NEW b \in AllBanks, NEW x \in Recorded(b), <<x, b>> \notin status_cache
               PROVE  \E u \in Threads : /\ bank'[u] = b /\ stage'[u] \in {"recorded", "stored"}
                                         /\ x \in Entry(u)'
    BY <1>6, ZenonT(30) DEF CacheInv, LedgerSame
  <2>1. PICK u \in Threads : bank[u] = b /\ stage[u] \in {"recorded", "stored"} /\ x \in Entry(u)
    BY DEF LeaderInv, CacheInv
  <2>2. CASE u = t
    BY <2>1, <2>2
  <2>3. CASE u # t
    BY <1>5, <2>1, <2>3
  <2> QED BY <2>2, <2>3
<1>8. FreshInv'
  <2>1. FreshInv /\ ancestors' = ancestors
    BY DEF LeaderInv, LedgerSame
  <2> QED BY <1>5, <1>6, <2>1 DEF FreshInv
<1>9. RecordedOnce' /\ AssertionsHold'
  BY DEF LeaderInv, RecordedOnce, AssertionsHold, LedgerSame
<1> QED BY <1>1, <1>2, <1>3, <1>4, <1>7, <1>8, <1>9 DEF LeaderInv

\* The record channel after a step that neither sends nor answers.
LEMMA QueueSame ==
    ASSUME LeaderInv, record_queue' = record_queue, NEW t \in Threads, stage[t] # "recording",
           \A u \in Threads \ {t} : stage'[u] = stage[u]
    PROVE  record_queue' \in Seq(Threads) /\ QueueInv'
<1>1. record_queue \in Seq(Threads) /\ \A j \in 1..Len(record_queue) : record_queue[j] \in Threads
  BY DEF LeaderInv, LeaderType
<1> QED BY <1>1 DEF LeaderInv, QueueInv

\* Taking a batch from the buffer.
LEMMA ConsumeKeeps ==
    ASSUME LocksInv, LeaderInv, NEW t \in Threads, Consume(t)
    PROVE  LeaderInv'
<1>1. PICK txs, qos : PrepareBatch(t, working_bank, txs, qos)
  BY DEF Consume
<1>2. stage[t] = "none"
  BY <1>1 DEF PrepareBatch, LeaderInv, StageInv
<1>3. stage'[t] = "start" /\ stage' \in [Threads -> Stages] /\ executed' = executed
      /\ \A u \in Threads \ {t} : stage'[u] = stage[u]
  BY DEF Consume, LeaderInv, LeaderType, Stages
<1>4. LedgerSame /\ record_queue' = record_queue
  BY DEF Consume, bankVars, LedgerSame, LeaderInv, AssertionsHold
<1>5. pc'[t] = "locking" /\ bank'[t] = working_bank
  BY <1>1 DEF PrepareBatch, LocksInv, LocksType
<1>6. Created(bank'[t])
  BY <1>5 DEF Consume, LeaderInv, BankInv
<1>7. \A u \in Threads \ {t} : /\ pc'[u] = pc[u] /\ bank'[u] = bank[u] /\ batch'[u] = batch[u]
                               /\ lock_results'[u] = lock_results[u]
  BY <1>1 DEF PrepareBatch, LocksInv, LocksType
<1>8. record_queue' \in Seq(Threads) /\ QueueInv'
  BY <1>2, <1>3, <1>4, QueueSame
<1>9. executed' \in [Threads -> SUBSET Nat]
  BY <1>3 DEF LeaderInv, LeaderType
<1> QED BY <1>2, <1>3, <1>4, <1>5, <1>6, <1>7, <1>8, <1>9, ThreadFrame, ZenonT(30) DEF Active

\* Locking a transaction of the batch.
LEMMA LockStageKeeps ==
    ASSUME LocksInv, LeaderInv, NEW t \in Threads, Lock(t)
    PROVE  LeaderInv'
<1>1. stage[t] = "start" /\ pc[t] = "locking"
  BY DEF Lock, LockNext, LeaderInv, StageInv
<1>2. stage' = stage /\ executed' = executed /\ record_queue' = record_queue /\ LedgerSame
  BY DEF Lock, threadVars, bankVars, LedgerSame, LeaderInv, AssertionsHold
<1>3. bank' = bank /\ pc'[t] \in {"locked", "locking"} /\ Created(bank[t])
  BY <1>1 DEF Lock, LockNext, LocksInv, LocksType, LeaderInv, StageInv
<1>4. \A u \in Threads \ {t} : /\ pc'[u] = pc[u] /\ bank'[u] = bank[u] /\ batch'[u] = batch[u]
                               /\ lock_results'[u] = lock_results[u]
  BY DEF Lock, LockNext, LocksInv, LocksType
<1>5. record_queue' \in Seq(Threads) /\ QueueInv'
  BY <1>1, <1>2, QueueSame
<1>6. stage' \in [Threads -> Stages] /\ executed' \in [Threads -> SUBSET Nat]
  BY <1>2 DEF LeaderInv, LeaderType
<1> QED BY <1>1, <1>2, <1>3, <1>4, <1>5, <1>6, ThreadFrame DEF Active

\* Executing a batch: what the status cache does not know is in no block of the fork.
LEMMA ExecuteKeeps ==
    ASSUME LocksInv, LeaderInv, NEW t \in Threads, load_and_execute_transactions(t)
    PROVE  LeaderInv'
<1> DEFINE ok == {i \in DOMAIN batch[t] : /\ lock_results[t][i] = "Ok"
                                         /\ check_transactions(bank[t], batch[t][i])}
<1>1. stage[t] = "start" /\ pc[t] = "locked" /\ Created(bank[t])
  BY DEF load_and_execute_transactions, LeaderInv, StageInv
<1>2. stage' = [stage EXCEPT ![t] = "executed"] /\ executed' = [executed EXCEPT ![t] = ok]
  BY DEF load_and_execute_transactions
<1>3. record_queue' = record_queue /\ LedgerSame /\ UNCHANGED lockVars
  BY DEF load_and_execute_transactions, bankVars, LedgerSame, LeaderInv, AssertionsHold
<1>4. pc' = pc /\ bank' = bank /\ batch' = batch /\ lock_results' = lock_results
  BY <1>3 DEF lockVars
<1>5. BatchType(t) /\ ok \subseteq Held(t) /\ ok \subseteq Nat
  BY <1>1 DEF LocksInv, LocksType, BatchType, Held, Span
<1>6. stage'[t] = "executed" /\ executed'[t] = ok /\ stage' \in [Threads -> Stages]
      /\ executed' \in [Threads -> SUBSET Nat]
      /\ \A u \in Threads \ {t} : stage'[u] = stage[u] /\ executed'[u] = executed[u]
  BY <1>2, <1>5 DEF LeaderInv, LeaderType, Stages
<1>7. record_queue' \in Seq(Threads) /\ QueueInv'
  BY <1>1, <1>3, <1>6, QueueSame
<1>8. Entry(t)' = {batch[t][i] : i \in ok}
  BY <1>4, <1>6 DEF Entry
<1>9. ASSUME NEW s \in ancestors[bank[t]] PROVE Entry(t)' \cap Recorded(s) = {}
  <2>1. ASSUME NEW i \in ok PROVE batch[t][i] \notin Recorded(s)
    <3>1. i \in Held(t) /\ ~ is_transaction_already_processed(bank[t], batch[t][i])
      BY <1>5 DEF check_transactions
    <3> QED BY <1>1, <3>1, UnknownIsFresh
  <2> HIDE DEF ok
  <2> QED BY <1>8, <2>1
<1>10. ok \subseteq {i \in DOMAIN batch[t] : lock_results[t][i] = "Ok"}
  OBVIOUS
<1> HIDE DEF ok
<1> QED BY <1>1, <1>3, <1>4, <1>6, <1>7, <1>9, <1>10, ThreadFrame, ZenonT(30) DEF Active

\* Committing the accounts of a recorded batch.
LEMMA CommitKeeps ==
    ASSUME LocksInv, LeaderInv, NEW t \in Threads, commit_transactions(t)
    PROVE  LeaderInv'
<1>1. stage[t] = "recorded" /\ stage' = [stage EXCEPT ![t] = "stored"] /\ executed' = executed
      /\ record_queue' = record_queue /\ UNCHANGED lockVars
  BY ZenonT(30) DEF commit_transactions
<1>2. bank[t] \notin frozen
  BY <1>1 DEF LeaderInv, FreezeInv
<1>3. LedgerSame
  BY <1>2, ZenonT(30) DEF commit_transactions, LedgerSame, LeaderInv, AssertionsHold
<1>4. pc' = pc /\ bank' = bank /\ batch' = batch /\ lock_results' = lock_results
  BY <1>1 DEF lockVars
<1>5. stage'[t] = "stored" /\ stage' \in [Threads -> Stages] /\ executed' \in [Threads -> SUBSET Nat]
      /\ \A u \in Threads \ {t} : stage'[u] = stage[u]
  BY <1>1 DEF LeaderInv, LeaderType, Stages
<1>6. record_queue' \in Seq(Threads) /\ QueueInv'
  BY <1>1, <1>5, QueueSame
<1>7. pc[t] = "locked" /\ Created(bank[t]) /\ executed[t] \subseteq {i \in DOMAIN batch[t] : lock_results[t][i] = "Ok"}
  BY <1>1, ActiveIsLocked DEF Active, LeaderInv, StageInv
<1>8. Entry(t)' = Entry(t)
  BY <1>1, <1>4 DEF Entry
<1> QED BY <1>1, <1>2, <1>3, <1>4, <1>5, <1>6, <1>7, <1>8, ThreadFrame

\* Dropping a batch.
LEMMA DropLocksKeeps ==
    ASSUME LocksInv, LeaderInv, NEW t \in Threads, DropLocks(t)
    PROVE  LeaderInv'
<1>1. stage[t] \in {"finished", "refused"} /\ stage' = stage /\ executed' = executed
      /\ record_queue' = record_queue /\ LedgerSame
  BY DEF DropLocks, threadVars, bankVars, LedgerSame, LeaderInv, AssertionsHold
<1>2. bank' = bank /\ batch' = batch /\ lock_results' = lock_results /\ pc'[t] = "unlocking"
      /\ pc[t] = "locked" /\ \A u \in Threads \ {t} : pc'[u] = pc[u]
  BY DEF DropLocks, DropBatch, LocksInv, LocksType
<1>3. record_queue' \in Seq(Threads) /\ QueueInv'
  BY <1>1, QueueSame
<1>4. stage' \in [Threads -> Stages] /\ executed' \in [Threads -> SUBSET Nat] /\ Created(bank[t])
  BY <1>1, <1>2 DEF LeaderInv, LeaderType, StageInv
<1> QED BY <1>1, <1>2, <1>3, <1>4, ThreadFrame DEF Active

\* Unlocking a transaction of the batch.
LEMMA UnlockStageKeeps ==
    ASSUME LocksInv, LeaderInv, NEW t \in Threads, Unlock(t)
    PROVE  LeaderInv'
<1>1. stage[t] \in {"finished", "refused"} /\ pc[t] = "unlocking"
  BY DEF Unlock, UnlockNext, LeaderInv, StageInv
<1>2. LedgerSame /\ record_queue' = record_queue
  BY DEF Unlock, bankVars, LedgerSame, LeaderInv, AssertionsHold
<1>3. \A u \in Threads \ {t} : /\ pc'[u] = pc[u] /\ bank'[u] = bank[u] /\ batch'[u] = batch[u]
                               /\ lock_results'[u] = lock_results[u]
  BY DEF Unlock, UnlockNext, LocksInv, LocksType
<1>4. stage' \in [Threads -> Stages] /\ executed' \in [Threads -> SUBSET Nat]
      /\ \A u \in Threads \ {t} : stage'[u] = stage[u] /\ executed'[u] = executed[u]
  BY ZenonT(30) DEF Unlock, threadVars, LeaderInv, LeaderType, Stages
<1>5. record_queue' \in Seq(Threads) /\ QueueInv'
  BY <1>1, <1>2, <1>4, QueueSame
<1>6. CASE pos[t] = Len(batch[t])
  <2>1. pc'[t] = "idle" /\ stage'[t] = "none"
    BY <1>6 DEF Unlock, UnlockNext, LocksInv, LocksType, LeaderInv, LeaderType
  <2> QED BY <1>1, <1>2, <1>3, <1>4, <1>5, <2>1, ThreadFrame DEF Active
<1>7. CASE pos[t] # Len(batch[t])
  <2>1. pc' = pc /\ bank' = bank /\ stage' = stage /\ Created(bank[t])
    BY <1>1, <1>7 DEF Unlock, UnlockNext, threadVars, LeaderInv, StageInv
  <2> QED BY <1>1, <1>2, <1>3, <1>4, <1>5, <2>1, ThreadFrame DEF Active
<1> QED BY <1>6, <1>7
=============================================================================
