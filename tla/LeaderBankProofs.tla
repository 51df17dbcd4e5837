-------------------------- MODULE LeaderBankProofs --------------------------
(***************************************************************************)
(* Sending a batch to the PoH thread, entering it into the status cache,   *)
(* ticks, and the freezing and starting of banks keep the invariant of     *)
(* block production.                                                       *)
(***************************************************************************)
EXTENDS LeaderThreadProofs

\* Sending a batch to the PoH thread.
LEMMA SendKeeps ==
    ASSUME LocksInv, LeaderInv, NEW t \in Threads, record_transactions(t)
    PROVE  LeaderInv'
<1>1. stage[t] = "executed" /\ executed' = executed /\ UNCHANGED lockVars /\ LedgerSame
  BY DEF record_transactions, bankVars, LedgerSame, LeaderInv, AssertionsHold
<1>2. pc' = pc /\ bank' = bank /\ batch' = batch /\ lock_results' = lock_results
  BY <1>1 DEF lockVars
<1>3. pc[t] = "locked" /\ Created(bank[t]) /\ executed[t] \subseteq {i \in DOMAIN batch[t] : lock_results[t][i] = "Ok"}
  BY <1>1, ActiveIsLocked DEF Active, LeaderInv, StageInv
<1>4. Entry(t)' = Entry(t) /\ \A s \in ancestors[bank[t]] : Entry(t) \cap Recorded(s) = {}
  BY <1>1, <1>2 DEF Entry, LeaderInv, FreshInv
<1>5. executed' \in [Threads -> SUBSET Nat]
  BY <1>1 DEF LeaderInv, LeaderType
<1>6. CASE executed[t] = {}
  <2>1. stage' = [stage EXCEPT ![t] = "finished"] /\ record_queue' = record_queue
    BY <1>6 DEF record_transactions
  <2>2. stage'[t] = "finished" /\ stage' \in [Threads -> Stages] /\ \A u \in Threads \ {t} : stage'[u] = stage[u]
    BY <2>1 DEF LeaderInv, LeaderType, Stages
  <2>3. record_queue' \in Seq(Threads) /\ QueueInv'
    BY <1>1, <2>1, <2>2, QueueSame
  <2> QED BY <1>1, <1>2, <1>3, <1>5, <2>2, <2>3, ThreadFrame DEF Active
<1>7. CASE executed[t] # {}
  <2>1. stage' = [stage EXCEPT ![t] = "recording"] /\ record_queue' = Append(record_queue, t)
    BY <1>7 DEF record_transactions
  <2>2. stage'[t] = "recording" /\ stage' \in [Threads -> Stages] /\ \A u \in Threads \ {t} : stage'[u] = stage[u]
    BY <2>1 DEF LeaderInv, LeaderType, Stages
  <2>3. record_queue' \in Seq(Threads) /\ Len(record_queue') = Len(record_queue) + 1
        /\ record_queue'[Len(record_queue) + 1] = t
        /\ \A j \in 1..Len(record_queue) : record_queue'[j] = record_queue[j] /\ record_queue[j] \in Threads
    BY <2>1 DEF LeaderInv, LeaderType
  <2>4. \A j \in 1..Len(record_queue) : record_queue[j] # t /\ stage[record_queue[j]] = "recording"
    BY <1>1 DEF LeaderInv, QueueInv
  <2>5. Len(record_queue) \in Nat
    BY DEF LeaderInv, LeaderType
  <2>6. QueueInv'
    <3>1. ASSUME NEW j \in 1..Len(record_queue')
          PROVE  j \in 1..Len(record_queue) \/ j = Len(record_queue) + 1
      BY <2>3, <2>5
    <3>2. ASSUME NEW j \in 1..Len(record_queue') PROVE stage'[record_queue'[j]] = "recording"
      BY <2>2, <2>3, <2>4, <3>1
    <3>3. ASSUME NEW j \in 1..Len(record_queue'), NEW k \in 1..Len(record_queue'), j # k
          PROVE  record_queue'[j] # record_queue'[k]
      BY <2>3, <2>4, <3>1, <3>3 DEF LeaderInv, QueueInv
    <3> QED BY <3>2, <3>3 DEF QueueInv
  <2> QED BY <1>1, <1>2, <1>3, <1>4, <1>5, <2>2, <2>3, <2>6, ThreadFrame
<1> QED BY <1>6, <1>7

\* Entering a batch into the status cache.
LEMMA StatusesKeep ==
    ASSUME LocksInv, LeaderInv, NEW t \in Threads, update_transaction_statuses(t)
    PROVE  LeaderInv'
<1>1. stage[t] = "stored" /\ stage' = [stage EXCEPT ![t] = "finished"] /\ executed' = executed
      /\ record_queue' = record_queue /\ UNCHANGED <<lockVars, bankVars, working_bank, panicked>>
      /\ status_cache' = status_cache \cup (Entry(t) \X {bank[t]})
  BY DEF update_transaction_statuses
<1>2. pc' = pc /\ bank' = bank /\ batch' = batch /\ lock_results' = lock_results
      /\ tick_height' = tick_height /\ parent' = parent /\ ancestors' = ancestors
      /\ block' = block /\ frozen' = frozen /\ working_bank' = working_bank /\ panicked' = panicked
  BY <1>1 DEF lockVars, bankVars
<1>3. stage'[t] = "finished" /\ \A u \in Threads \ {t} : stage'[u] = stage[u]
  BY <1>1 DEF LeaderInv, LeaderType
<1>4. LeaderType'
  BY <1>1, <1>2 DEF LeaderInv, LeaderType, WorkingBankType, Stages
<1>5. pc[t] = "locked"
  BY <1>1, ActiveIsLocked DEF Active
<1>6. StageInv'
  BY <1>1, <1>2, <1>3, <1>5 DEF LeaderInv, StageInv, Created, Active
<1>7. QueueInv'
  BY <1>1, <1>3, QueueSame
<1>8. BankInv'
  BY <1>2 DEF LeaderInv, BankInv, Created, is_complete
<1>9. FreezeInv'
  BY <1>2, <1>3 DEF LeaderInv, FreezeInv
<1>10. \A u \in Threads : Entry(u)' = Entry(u)
  BY <1>1, <1>2 DEF Entry
<1>11. \A b : Recorded(b)' = Recorded(b)
  BY <1>2 DEF Recorded
<1>12. CacheInv'
  <2> SUFFICES ASSUME NEW b \in AllBanks, NEW x \in Recorded(b), <<x, b>> \notin status_cache'
               PROVE  \E u \in Threads : /\ bank'[u] = b /\ stage'[u] \in {"recorded", "stored"}
                                         /\ x \in Entry(u)'
    BY <1>11, ZenonT(30) DEF CacheInv
  <2>1. PICK u \in Threads : bank[u] = b /\ stage[u] \in {"recorded", "stored"} /\ x \in Entry(u)
    BY <1>1 DEF LeaderInv, CacheInv
  <2>2. u # t
    BY <1>1, <2>1
  <2> QED BY <1>2, <1>3, <1>10, <2>1, <2>2
<1>13. FreshInv'
  BY <1>2, <1>3, <1>10, <1>11 DEF LeaderInv, FreshInv
<1>14. RecordedOnce' /\ AssertionsHold'
  BY <1>2 DEF LeaderInv, RecordedOnce, AssertionsHold
<1> QED BY <1>4, <1>6, <1>7, <1>8, <1>9, <1>12, <1>13, <1>14 DEF LeaderInv

\* A step that touches neither the ledger nor what the threads do to it.
LEMMA LedgerFrame ==
    ASSUME LeaderInv, bank' = bank, batch' = batch, stage' = stage, executed' = executed,
           ancestors' = ancestors, block' = block, status_cache' = status_cache
    PROVE  CacheInv' /\ FreshInv' /\ RecordedOnce'
<1>1. (\A b : Recorded(b)' = Recorded(b)) /\ \A t : Entry(t)' = Entry(t)
  BY DEF Recorded, Entry
<1>2. CacheInv'
  BY <1>1, ZenonT(30) DEF LeaderInv, CacheInv
<1>3. FreshInv'
  BY <1>1 DEF LeaderInv, FreshInv
<1>4. RecordedOnce'
  BY DEF LeaderInv, RecordedOnce
<1> QED BY <1>2, <1>3, <1>4

\* tick and reset only take the working bank away.
LEMMA TickKeeps ==
    ASSUME LocksInv, LeaderInv, tick \/ reset
    PROVE  LeaderInv'
<1>1. UNCHANGED <<lockVars, threadVars, parent, ancestors, block, frozen, record_queue, status_cache>>
      /\ working_bank # NoBank /\ working_bank' \in {working_bank, NoBank}
  BY DEF tick, reset, bankVars
<1>2. pc' = pc /\ bank' = bank /\ batch' = batch /\ lock_results' = lock_results
      /\ stage' = stage /\ executed' = executed /\ parent' = parent /\ ancestors' = ancestors
      /\ block' = block /\ frozen' = frozen /\ record_queue' = record_queue /\ status_cache' = status_cache
  BY <1>1 DEF lockVars, threadVars
<1>3. working_bank \in Banks /\ Created(working_bank) /\ working_bank \notin frozen
  BY <1>1 DEF LeaderInv, LeaderType, WorkingBankType, BankInv
<1>4. tick_height' \in [AllBanks -> Int] /\ (\A b \in AllBanks : b # working_bank => tick_height'[b] = tick_height[b])
      /\ (working_bank' # NoBank => working_bank' = working_bank /\ tick_height'[working_bank] # MaxTicks)
  BY <1>1, <1>3 DEF tick, reset, bankVars, LeaderInv, LeaderType, AllBanks, BankInv, is_complete
<1>5. ~ panicked'
  <2>1. CASE tick
    BY <1>3, <2>1, ZenonT(30) DEF tick, LeaderInv, AssertionsHold
  <2>2. CASE reset
    BY <2>2 DEF reset, LeaderInv, AssertionsHold
  <2> QED BY <2>1, <2>2
<1>6. LeaderType' /\ StageInv' /\ QueueInv' /\ FreezeInv'
  BY <1>1, <1>2, <1>4 DEF LeaderInv, LeaderType, WorkingBankType, StageInv, QueueInv, FreezeInv, Created
<1>7. BankInv'
  BY <1>2, <1>3, <1>4 DEF LeaderInv, BankInv, Created, is_complete, AllBanks
<1>8. CacheInv' /\ FreshInv' /\ RecordedOnce'
  BY <1>2, LedgerFrame
<1>9. AssertionsHold'
  BY <1>5 DEF AssertionsHold
<1> QED BY <1>6, <1>7, <1>8, <1>9 DEF LeaderInv

\* Freezing a bank.
LEMMA FreezeKeeps ==
    ASSUME LocksInv, LeaderInv, NEW b \in Banks, freeze(b)
    PROVE  LeaderInv'
<1>1. UNCHANGED <<lockVars, threadVars, tick_height, parent, ancestors, block, record_queue,
                  working_bank, status_cache, panicked>>
      /\ frozen' = frozen \cup {b} /\ Created(b) /\ is_complete(b) /\ FreezeLocks(b) = {}
  BY DEF freeze
<1>2. pc' = pc /\ bank' = bank /\ batch' = batch /\ lock_results' = lock_results
      /\ stage' = stage /\ executed' = executed
  BY <1>1 DEF lockVars, threadVars
<1>3. b \in AllBanks /\ working_bank # b
  BY <1>1, LocksAssumption DEF LeaderInv, BankInv, AllBanks
<1>4. LeaderType' /\ StageInv' /\ QueueInv'
  <2>1. LeaderType'
    BY <1>1, <1>2, <1>3 DEF LeaderInv, LeaderType, WorkingBankType
  <2>2. StageInv' /\ QueueInv'
    BY <1>1, <1>2 DEF LeaderInv, StageInv, QueueInv, Created
  <2> QED BY <2>1, <2>2
<1>5. BankInv'
  BY <1>1, <1>3 DEF LeaderInv, BankInv, Created, is_complete
<1>6. FreezeInv'
  BY <1>1, <1>2 DEF LeaderInv, FreezeInv, FreezeLocks
<1>7. CacheInv' /\ FreshInv' /\ RecordedOnce'
  BY <1>1, <1>2, LedgerFrame
<1>8. AssertionsHold'
  BY <1>1 DEF LeaderInv, AssertionsHold
<1> QED BY <1>4, <1>5, <1>6, <1>7, <1>8 DEF LeaderInv

\* Starting the bank of a later slot.
LEMMA NewBankKeeps ==
    ASSUME LocksInv, LeaderInv, NEW b \in Banks, NEW p \in AllBanks, new_from_parent(b, p)
    PROVE  LeaderInv'
<1>1. ~ Created(b) /\ p \in frozen /\ working_bank' = b
      /\ parent' = [parent EXCEPT ![b] = p]
      /\ ancestors' = [ancestors EXCEPT ![b] = ancestors[p] \cup {b}]
  BY DEF new_from_parent
<1>2. /\ tick_height' = tick_height /\ block' = block /\ frozen' = frozen
      /\ record_queue' = record_queue /\ status_cache' = status_cache /\ panicked' = panicked
  BY DEF new_from_parent
<1>3. /\ pc' = pc /\ bank' = bank /\ batch' = batch /\ lock_results' = lock_results
      /\ stage' = stage /\ executed' = executed
  BY DEF new_from_parent, lockVars, threadVars
<1>4. LeaderType /\ StageInv /\ QueueInv /\ BankInv /\ FreezeInv /\ CacheInv /\ FreshInv /\ RecordedOnce
  BY DEF LeaderInv
<1>5. b \in AllBanks /\ b \notin frozen /\ block[b] = << >> /\ ~ is_complete(b)
  BY <1>1, <1>4 DEF BankInv, AllBanks
<1>6. p # NotCreated
  BY LeaderAssumption DEF AllBanks, NotCreated
<1>7. /\ parent' \in [AllBanks -> AllBanks \cup {NotCreated}]
      /\ ancestors' \in [AllBanks -> SUBSET AllBanks]
  BY <1>1, <1>4, <1>5 DEF LeaderType
<1>8. /\ parent'[b] = p /\ ancestors'[b] = ancestors[p] \cup {b}
      /\ \A c \in AllBanks \ {b} : parent'[c] = parent[c] /\ ancestors'[c] = ancestors[c]
  BY <1>1, <1>4, <1>5 DEF LeaderType
<1>9. LeaderType'
  BY <1>1, <1>2, <1>3, <1>4, <1>7 DEF LeaderType, WorkingBankType
<1>10. QueueInv' /\ FreezeInv'
  BY <1>2, <1>3, <1>4 DEF QueueInv, FreezeInv
<1>11. ASSUME NEW t \in Threads, pc[t] # "idle" PROVE bank[t] \in AllBanks \ {b}
  <2>1. bank[t] \in Banks
    BY <1>11 DEF LocksInv, LocksType, BatchType
  <2>2. Created(bank[t])
    BY <1>4, <1>11 DEF StageInv
  <2> QED BY <1>1, <2>1, <2>2 DEF AllBanks
<1>12. StageInv'
  <2>1. \A t \in Threads : pc[t] # "idle" => Created(bank[t])'
    BY <1>3, <1>4, <1>8, <1>11 DEF StageInv, Created
  <2> QED BY <1>3, <1>4, <2>1 DEF StageInv
<1>13. BankInv'
  <2>1. \A c \in Banks : is_complete(c)' <=> is_complete(c)
    BY <1>2 DEF is_complete
  <2>2. \A c \in Banks : ~ Created(c)' => ~ Created(c)
    BY <1>6, <1>8 DEF Created, AllBanks
  <2>3. Created(b)'
    BY <1>6, <1>8 DEF Created
  <2>4. ASSUME NEW c \in AllBanks
        PROVE  c \in ancestors'[c] /\ \A s \in ancestors'[c] : s # c => s \in frozen
    BY <1>1, <1>4, <1>8 DEF BankInv
  <2> QED BY <1>1, <1>2, <1>4, <1>5, <2>1, <2>2, <2>3, <2>4 DEF BankInv
<1>14. CacheInv'
  <2> SUFFICES ASSUME NEW c \in AllBanks, NEW x \in Recorded(c)', <<x, c>> \notin status_cache
               PROVE  \E u \in Threads : /\ bank'[u] = c /\ stage'[u] \in {"recorded", "stored"}
                                         /\ x \in Entry(u)'
    BY <1>2, ZenonT(30) DEF CacheInv
  <2>1. x \in Recorded(c)
    BY <1>2 DEF Recorded
  <2>2. PICK u \in Threads : bank[u] = c /\ stage[u] \in {"recorded", "stored"} /\ x \in Entry(u)
    BY <1>4, <2>1 DEF CacheInv
  <2> QED BY <1>3, <2>2 DEF Entry
<1>15. FreshInv'
  <2>1. ASSUME NEW t \in Threads, stage[t] \in {"executed", "recording"}
        PROVE  bank[t] \in AllBanks /\ ancestors'[bank[t]] = ancestors[bank[t]]
    BY <1>8, <1>11, <2>1, ActiveIsLocked DEF Active
  <2>2. ancestors \in [AllBanks -> SUBSET AllBanks]
    BY <1>4 DEF LeaderType
  <2>3. \A c \in AllBanks : Recorded(c)' = Recorded(c)
    BY <1>2 DEF Recorded
  <2>4. \A t \in Threads : Entry(t)' = Entry(t)
    BY <1>3 DEF Entry
  <2> QED BY <1>3, <1>4, <2>1, <2>2, <2>3, <2>4 DEF FreshInv
<1>16. RecordedOnce'
  BY <1>2, <1>4, <1>5, <1>8 DEF RecordedOnce
<1>17. AssertionsHold'
  BY <1>2 DEF LeaderInv, AssertionsHold
<1> QED BY <1>9, <1>10, <1>12, <1>13, <1>14, <1>15, <1>16, <1>17 DEF LeaderInv
=============================================================================
