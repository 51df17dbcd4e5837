------------------------- MODULE LeaderBlockProofs --------------------------
(***************************************************************************)
(* Block production, for any number of threads, banks and transactions.    *)
(* First, whatever it does with a batch, LeaderBlock locks and unlocks as  *)
(* AccountLocks says, so its lock table is exact.  With that, no           *)
(* transaction is recorded twice on a fork and no assertion of the bank    *)
(* fails.                                                                  *)
(***************************************************************************)
EXTENDS LeaderPohProofs, LeaderBankProofs, AccountLocksProofs

-----------------------------------------------------------------------------
(* LeaderBlock implements AccountLocks.                                    *)

\* The working bank is a bank or none.
LEMMA WorkingBankStep == WorkingBankType /\ [Next]_vars => WorkingBankType'
BY DEF WorkingBankType, Next, vars, ThreadStep, Consume, Lock, load_and_execute_transactions,
       record_transactions, commit_transactions, update_transaction_statuses, DropLocks, Unlock,
       record, tick, reset, freeze, new_from_parent

\* Every step of block production is a step of the account locks or leaves
\* them alone.
LEMMA LocksSimulation == WorkingBankType /\ [Next]_vars => [LocksNext]_lockVars
<1> SUFFICES ASSUME WorkingBankType, [Next]_vars PROVE [LocksNext]_lockVars
  OBVIOUS
<1>1. ASSUME NEW t \in Threads, Consume(t) PROVE LocksNext
  <2>1. PICK txs \in Batches : \E qos \in [DOMAIN txs -> Verdicts] : PrepareBatch(t, working_bank, txs, qos)
    BY <1>1 DEF Consume
  <2>2. working_bank \in Banks
    BY <1>1 DEF Consume, WorkingBankType
  <2> QED BY <2>1, <2>2 DEF LocksNext
<1>2. ASSUME NEW t \in Threads, ThreadStep(t) PROVE LocksNext \/ UNCHANGED lockVars
  BY <1>2 DEF ThreadStep, Lock, load_and_execute_transactions, record_transactions,
       commit_transactions, update_transaction_statuses, DropLocks, Unlock, LocksNext
<1>3. CASE record \/ tick \/ reset \/ \E b \in Banks : freeze(b) \/ \E p \in AllBanks : new_from_parent(b, p)
  BY <1>3 DEF record, tick, reset, freeze, new_from_parent
<1>4. CASE UNCHANGED vars
  BY <1>4 DEF vars
<1> QED BY <1>1, <1>2, <1>3, <1>4 DEF Next

\* Block production implements AccountLocks.
THEOREM ImplementsAccountLocks == Spec => LocksSpec
<1>1. Init => LocksInit /\ WorkingBankType
  BY DEF Init, WorkingBankType
<1> QED BY <1>1, WorkingBankStep, LocksSimulation, PTL DEF Spec, LocksSpec

\* The lock table of a bank is exact and locked transactions never conflict,
\* in every behaviour of the block production.
THEOREM LeaderLocksCorrect == Spec => []AccountsAreLocked
BY ImplementsAccountLocks, LocksCorrect, PTL

\* The invariant of the account locks holds in block production too.
THEOREM LeaderLocksInv == Spec => []LocksInv
BY ImplementsAccountLocks, LocksInitInv, LocksStep, PTL DEF LocksSpec

-----------------------------------------------------------------------------
(* The theorems.                                                           *)

\* The first state satisfies the invariant of block production.
LEMMA LeaderInit == Init => LeaderInv
<1> SUFFICES ASSUME Init PROVE LeaderInv
  OBVIOUS
<1>1. \A b \in AllBanks : block[b] = << >> /\ ancestors[b] = {b} /\ parent[b] = NotCreated
      /\ Recorded(b) = {}
  BY DEF Init, Recorded
<1>2. tick_height \in [AllBanks -> Int] /\ \A b \in Banks : ~ is_complete(b)
  BY LeaderAssumption DEF Init, is_complete, AllBanks
<1>3. LeaderType
  BY <1>2 DEF Init, LeaderType, WorkingBankType, Stages, AllBanks, NotCreated
<1>4. StageInv /\ QueueInv /\ FreezeInv
  BY DEF Init, LocksInit, StageInv, QueueInv, FreezeInv, Active
<1>5. BankInv
  BY <1>1, <1>2, LeaderAssumption DEF Init, BankInv, AllBanks
<1>6. CacheInv /\ FreshInv /\ RecordedOnce /\ AssertionsHold
  BY <1>1 DEF Init, CacheInv, FreshInv, RecordedOnce, AssertionsHold
<1> QED BY <1>3, <1>4, <1>5, <1>6 DEF LeaderInv

\* The invariant of block production is inductive relative to that of the locks.
LEMMA LeaderStep == LocksInv /\ LeaderInv /\ [Next]_vars => LeaderInv'
<1> SUFFICES ASSUME LocksInv, LeaderInv, [Next]_vars PROVE LeaderInv'
  OBVIOUS
<1>1. ASSUME NEW t \in Threads, Consume(t) \/ ThreadStep(t) PROVE LeaderInv'
  BY <1>1, ConsumeKeeps, LockStageKeeps, ExecuteKeeps, SendKeeps, CommitKeeps, StatusesKeep,
     DropLocksKeeps, UnlockStageKeeps DEF ThreadStep
<1>2. CASE record \/ tick \/ reset
  BY <1>2, RecordKeeps, TickKeeps
<1>3. ASSUME NEW b \in Banks, freeze(b) \/ \E p \in AllBanks : new_from_parent(b, p) PROVE LeaderInv'
  BY <1>3, FreezeKeeps, NewBankKeeps
<1>4. CASE UNCHANGED vars
  <2>1. pc' = pc /\ bank' = bank /\ batch' = batch /\ lock_results' = lock_results
        /\ stage' = stage /\ executed' = executed /\ tick_height' = tick_height
        /\ parent' = parent /\ ancestors' = ancestors /\ block' = block /\ frozen' = frozen
        /\ record_queue' = record_queue /\ working_bank' = working_bank
        /\ status_cache' = status_cache /\ panicked' = panicked
    BY <1>4 DEF vars, lockVars, threadVars, bankVars
  <2>2. LeaderType' /\ StageInv' /\ QueueInv' /\ BankInv' /\ FreezeInv'
    BY <2>1 DEF LeaderInv, LeaderType, WorkingBankType, StageInv, QueueInv, BankInv, FreezeInv,
                Created, is_complete
  <2>3. CacheInv' /\ FreshInv' /\ RecordedOnce'
    BY <2>1, LedgerFrame
  <2>4. AssertionsHold'
    BY <2>1 DEF LeaderInv, AssertionsHold
  <2> QED BY <2>2, <2>3, <2>4 DEF LeaderInv
<1> QED BY <1>1, <1>2, <1>3, <1>4 DEF Next

\* No transaction is recorded twice on a fork, for any number of threads and
\* banks and any buffers (check_status_cache under the account locks).
THEOREM NeverRecordedTwice == Spec => []RecordedOnce
<1>1. LeaderInv => RecordedOnce
  BY DEF LeaderInv
<1> QED BY <1>1, LeaderInit, LeaderStep, LeaderLocksInv, PTL DEF Spec

\* No batch commits to, and no tick is registered with, a frozen bank (the
\* assertions of Bank::commit_transactions and Bank::register_tick).
THEOREM NoCommitAfterFreeze == Spec => []AssertionsHold
<1>1. LeaderInv => AssertionsHold
  BY DEF LeaderInv
<1> QED BY <1>1, LeaderInit, LeaderStep, LeaderLocksInv, PTL DEF Spec
=============================================================================
