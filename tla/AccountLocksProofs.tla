------------------------- MODULE AccountLocksProofs -------------------------
(***************************************************************************)
(* The account locks, for any number of threads, banks, transactions and   *)
(* accounts: the lock table of a bank always says what the batches in      *)
(* flight hold, and no two of their transactions conflict.                 *)
(***************************************************************************)
EXTENDS AccountLocksInvariant, FiniteSetTheorems, TLAPS

-----------------------------------------------------------------------------
(* How a step changes the set of locked transactions.                      *)

\* Membership in Holders(b), spelled out.
LEMMA InHolders ==
    ASSUME NEW b, NEW h
    PROVE  h \in Holders(b) <=> \E t \in Threads : \E i \in Held(t) : bank[t] = b /\ h = <<t, i>>
BY DEF Holders

\* Every holder is a transaction.
LEMMA HolderTx ==
    ASSUME LocksType, NEW b, NEW h \in Holders(b)
    PROVE  TxOf(h) \in Txs
<1>1. PICK t \in Threads : \E i \in Held(t) : bank[t] = b /\ h = <<t, i>>
  BY InHolders
<1>2. PICK i \in Held(t) : h = <<t, i>>
  BY <1>1
<1>3. pc[t] # "idle"
  BY <1>2 DEF Held, Span
<1>4. BatchType(t)
  BY <1>3 DEF LocksType
<1>5. i \in 1..Len(batch[t])
  BY <1>2, <1>4 DEF Held, Span, BatchType, LocksType
<1>6. batch[t][i] \in Txs
  BY <1>4, <1>5 DEF BatchType
<1> QED BY <1>2, <1>6 DEF TxOf

\* The invariant of one bank's lock table.
TableAt(b) ==
    /\ IsFiniteSet(Holders(b))
    /\ write_locks[b] = UNION {Writable[TxOf(h)] : h \in Holders(b)}
    /\ \A a \in Accounts :
          readonly_locks[b][a] = Cardinality({h \in Holders(b) : a \in Readonly[TxOf(h)]})
    /\ \A g, h \in Holders(b) : g # h => ~ Conflict(TxOf(g), TxOf(h))

\* The invariant, bank by bank.
LEMMA TablesAt ==
    LocksInv <=> LocksType /\ \A b \in Banks : TableAt(b)
BY DEF LocksInv, TableAt, HoldersFinite, LockTableMatchesHolders, HoldersNeverConflict

\* Taking the locks of a lockable transaction.
LEMMA AddHolder ==
    ASSUME NEW b \in Banks, NEW h, NEW x \in Txs, LocksType, TableAt(b), Lockable(b, x),
           Holders(b)' = Holders(b) \cup {h}, h \notin Holders(b),
           TxOf(h)' = x, \A g \in Holders(b) : TxOf(g)' = TxOf(g), lock_account(b, x)
    PROVE  TableAt(b)'
<1> DEFINE R(a) == {g \in Holders(b) : a \in Readonly[TxOf(g)]}
<1>0. /\ write_locks'[b] = write_locks[b] \cup Writable[x]
      /\ \A a \in Accounts : readonly_locks'[b][a] =
            IF a \in Readonly[x] THEN readonly_locks[b][a] + 1 ELSE readonly_locks[b][a]
  BY DEF lock_account, LocksType
<1>1. IsFiniteSet(Holders(b)')
  BY FS_AddElement DEF TableAt
<1>2. write_locks'[b] = UNION {Writable[TxOf(g)'] : g \in Holders(b)'}
  BY <1>0 DEF TableAt
<1>3. ASSUME NEW a \in Accounts
      PROVE  readonly_locks'[b][a] = Cardinality({g \in Holders(b)' : a \in Readonly[TxOf(g)']})
  <2>1. IsFiniteSet(R(a)) /\ h \notin R(a)
    BY FS_Subset DEF TableAt
  <2>2. {g \in Holders(b)' : a \in Readonly[TxOf(g)']} = IF a \in Readonly[x] THEN R(a) \cup {h} ELSE R(a)
    OBVIOUS
  <2>3. Cardinality(R(a) \cup {h}) = Cardinality(R(a)) + 1
    BY <2>1, FS_AddElement, ZenonT(30)
  <2> QED BY <1>0, <2>2, <2>3, ZenonT(30) DEF TableAt
<1>4. ASSUME NEW g \in Holders(b) PROVE ~ Conflict(TxOf(g), x)
  <2>1. Writable[TxOf(g)] \subseteq write_locks[b]
    BY DEF TableAt
  <2>2. Writable[x] \cap write_locks[b] = {} /\ Readonly[x] \cap write_locks[b] = {}
    BY DEF Lockable
  <2>3. ASSUME NEW a \in Writable[x] PROVE a \notin Readonly[TxOf(g)]
    <3>1. a \in Accounts
      BY TxsAssumption
    <3>2. Cardinality(R(a)) = 0
      BY <3>1 DEF TableAt, Lockable
    <3>3. IsFiniteSet(R(a))
      BY FS_Subset DEF TableAt
    <3>4. R(a) = {}
      BY <3>2, <3>3, FS_EmptySet
    <3> QED BY <3>4
  <2> QED BY <2>1, <2>2, <2>3 DEF Conflict
<1>5. ASSUME NEW f \in Holders(b)', NEW g \in Holders(b)', f # g
      PROVE  ~ Conflict(TxOf(f)', TxOf(g)')
  <2>1. CASE f \in Holders(b) /\ g \in Holders(b)
    BY <2>1, <1>5 DEF TableAt
  <2>2. CASE f = h /\ g \in Holders(b)
    BY <2>2, <1>4 DEF Conflict
  <2>3. CASE f \in Holders(b) /\ g = h
    BY <2>3, <1>4 DEF Conflict
  <2> QED BY <1>5, <2>1, <2>2, <2>3
<1> QED BY <1>1, <1>2, <1>3, <1>5 DEF TableAt, Conflict

\* Releasing the locks of a transaction that holds them.
LEMMA RemoveHolder ==
    ASSUME NEW b \in Banks, NEW h \in Holders(b), NEW x \in Txs, LocksType, TableAt(b),
           Holders(b)' = Holders(b) \ {h},
           TxOf(h) = x, \A g \in Holders(b) \ {h} : TxOf(g)' = TxOf(g), unlock_account(b, x)
    PROVE  TableAt(b)'
<1> DEFINE R(a) == {g \in Holders(b) : a \in Readonly[TxOf(g)]}
<1>0. /\ write_locks'[b] = write_locks[b] \ Writable[x]
      /\ \A a \in Accounts : readonly_locks'[b][a] =
            IF a \in Readonly[x] /\ readonly_locks[b][a] > 0
            THEN readonly_locks[b][a] - 1 ELSE readonly_locks[b][a]
  BY DEF unlock_account, LocksType
<1>1. IsFiniteSet(Holders(b)')
  BY FS_RemoveElement DEF TableAt
<1>2. write_locks'[b] = UNION {Writable[TxOf(g)'] : g \in Holders(b)'}
  BY <1>0 DEF TableAt, Conflict
<1>3. ASSUME NEW a \in Accounts
      PROVE  readonly_locks'[b][a] = Cardinality({g \in Holders(b)' : a \in Readonly[TxOf(g)']})
  <2>1. IsFiniteSet(R(a))
    BY FS_Subset DEF TableAt
  <2>2. {g \in Holders(b)' : a \in Readonly[TxOf(g)']} = R(a) \ {h}
    OBVIOUS
  <2>3. readonly_locks[b][a] = Cardinality(R(a)) /\ Cardinality(R(a)) \in Nat
    BY <2>1, FS_CardinalityType DEF TableAt
  <2>4. CASE a \in Readonly[x]
    <3>1. h \in R(a)
      BY <2>4
    <3>2. Cardinality(R(a) \ {h}) = Cardinality(R(a)) - 1
      BY <2>1, <3>1, FS_RemoveElement, ZenonT(30)
    <3>3. Cardinality(R(a)) # 0
      BY <2>1, <3>1, FS_EmptySet
    <3>4. readonly_locks[b][a] > 0
      BY <2>3, <3>3
    <3>5. readonly_locks'[b][a] = readonly_locks[b][a] - 1
      BY <1>0, <2>4, <3>4
    <3> QED BY <2>2, <2>3, <3>2, <3>5, ZenonT(30)
  <2>5. CASE a \notin Readonly[x]
    <3>1. R(a) \ {h} = R(a)
      BY <2>5
    <3> QED BY <1>0, <2>2, <2>3, <2>5, <3>1
  <2> QED BY <2>4, <2>5
<1>4. \A f, g \in Holders(b)' : f # g => ~ Conflict(TxOf(f)', TxOf(g)')
  BY DEF TableAt
<1> QED BY <1>1, <1>2, <1>3, <1>4 DEF TableAt, Conflict

-----------------------------------------------------------------------------
(* The invariant.                                                          *)

\* Before the first batch nothing is locked.
LEMMA LocksInitInv == LocksInit => LocksInv
<1> SUFFICES ASSUME LocksInit PROVE LocksInv
  OBVIOUS
<1>1. LocksType
  BY DEF LocksInit, LocksType
<1>2. ASSUME NEW b \in Banks PROVE TableAt(b)
  <2>1. Holders(b) = {}
    BY DEF LocksInit, Holders, Held, Span
  <2>2. ASSUME NEW a \in Accounts
        PROVE  readonly_locks[b][a] = Cardinality({h \in Holders(b) : a \in Readonly[TxOf(h)]})
    <3>1. {h \in Holders(b) : a \in Readonly[TxOf(h)]} = {}
      BY <2>1
    <3> QED BY <3>1, FS_EmptySet, ZenonT(30) DEF LocksInit
  <2> QED BY <2>1, <2>2, FS_EmptySet DEF TableAt, LocksInit
<1> QED BY <1>1, <1>2, TablesAt

\* A bank whose locked transactions and table stay the same.
LEMMA KeepTableAt ==
    ASSUME NEW b \in Banks, TableAt(b), Holders(b)' = Holders(b),
           write_locks'[b] = write_locks[b], readonly_locks'[b] = readonly_locks[b],
           \A h \in Holders(b) : TxOf(h)' = TxOf(h)
    PROVE  TableAt(b)'
<1>1. \A a \in Accounts : {h \in Holders(b)' : a \in Readonly[TxOf(h)']}
                             = {h \in Holders(b) : a \in Readonly[TxOf(h)]}
  OBVIOUS
<1> QED BY <1>1 DEF TableAt, Conflict

\* Steps that touch neither the locked transactions nor the table.
LEMMA KeepTables ==
    ASSUME LocksInv, write_locks' = write_locks, readonly_locks' = readonly_locks,
           \A t \in Threads : /\ Held(t)' = Held(t)
                              /\ Held(t) # {} => bank'[t] = bank[t] /\ batch'[t] = batch[t]
    PROVE  \A b \in Banks : TableAt(b)'
<1> SUFFICES ASSUME NEW b \in Banks PROVE TableAt(b)'
  OBVIOUS
<1>1. TableAt(b)
  BY TablesAt
<1>2. Holders(b)' = Holders(b)
  <2>1. ASSUME NEW h PROVE h \in Holders(b)' <=> h \in Holders(b)
    BY DEF Holders
  <2> QED BY <2>1
<1>3. \A h \in Holders(b) : TxOf(h)' = TxOf(h)
  BY DEF Holders, TxOf
<1> QED BY <1>1, <1>2, <1>3, KeepTableAt

\* A new batch holds nothing yet.
LEMMA PrepareKeeps ==
    ASSUME LocksInv, NEW t \in Threads, NEW b \in Banks, NEW txs \in Batches,
           NEW qos \in [DOMAIN txs -> Verdicts], PrepareBatch(t, b, txs, qos)
    PROVE  LocksInv'
<1>1. txs \in Seq(Txs) /\ Len(txs) \in Nat \ {0} /\ DOMAIN txs = 1..Len(txs)
  BY LocksAssumption
<1>2. LocksType'
  <2>1. qos \in [1..Len(txs) -> Results] /\ qos \in Seq(Results)
    BY <1>1 DEF Results, Verdicts
  <2>2. ASSUME NEW u \in Threads, pc'[u] # "idle" PROVE BatchType(u)'
    BY <1>1, <2>1, <2>2 DEF LocksInv, LocksType, PrepareBatch, BatchType
  <2> QED BY <1>1, <2>1, <2>2 DEF LocksInv, LocksType, PrepareBatch
<1>3. \A u \in Threads : /\ Held(u)' = Held(u)
                         /\ Held(u) # {} => bank'[u] = bank[u] /\ batch'[u] = batch[u]
  BY DEF LocksInv, LocksType, PrepareBatch, Held, Span
<1>4. \A c \in Banks : TableAt(c)'
  BY <1>3, KeepTables DEF PrepareBatch
<1> QED BY <1>2, <1>4 DEF LocksInv, TableAt, HoldersFinite, LockTableMatchesHolders,
                           HoldersNeverConflict

\* Dropping a batch releases nothing by itself.
LEMMA DropKeeps ==
    ASSUME LocksInv, NEW t \in Threads, DropBatch(t)
    PROVE  LocksInv'
<1>1. LocksType'
  BY DEF LocksInv, LocksType, DropBatch, BatchType
<1>2. \A u \in Threads : /\ Held(u)' = Held(u)
                         /\ Held(u) # {} => bank'[u] = bank[u] /\ batch'[u] = batch[u]
  BY DEF LocksInv, LocksType, BatchType, DropBatch, Held, Span
<1>3. \A c \in Banks : TableAt(c)'
  BY <1>2, KeepTables DEF DropBatch
<1> QED BY <1>1, <1>3 DEF LocksInv, TableAt, HoldersFinite, LockTableMatchesHolders,
                           HoldersNeverConflict

\* The types after a step inside the mutex.
LEMMA LockType ==
    ASSUME LocksInv, NEW t \in Threads, LockNext(t)
    PROVE  LocksType'
<1>1. BatchType(t) /\ Len(batch[t]) \in Nat
  BY DEF LocksInv, LocksType, LockNext, BatchType
<1>2. lock_results' \in [Threads -> Seq(Results)] /\ lock_results'[t] \in [1..Len(batch[t]) -> Results]
  <2>1. CASE lock_results' = lock_results
    BY <1>1, <2>1 DEF LocksInv, LocksType, BatchType
  <2>2. CASE lock_results' = [lock_results EXCEPT ![t][pos[t]] = "AccountInUse"]
    <3>1. lock_results'[t] = [lock_results[t] EXCEPT ![pos[t]] = "AccountInUse"]
      BY <2>2 DEF LocksInv, LocksType
    <3>2. lock_results'[t] \in [1..Len(batch[t]) -> Results]
      BY <1>1, <3>1 DEF BatchType, Results
    <3>3. lock_results'[t] \in Seq(Results)
      BY <1>1, <3>2
    <3> QED BY <2>2, <3>2, <3>3 DEF LocksInv, LocksType
  <2> QED BY <2>1, <2>2 DEF LockNext
<1>3. \A u \in Threads \ {t} : lock_results'[u] = lock_results[u]
  BY DEF LockNext, LocksInv, LocksType
<1>4. write_locks' \in [Banks -> SUBSET Accounts] /\ readonly_locks' \in [Banks -> [Accounts -> Nat]]
  <2>1. batch[t][pos[t]] \in Txs
    BY <1>1 DEF BatchType
  <2>2. CASE write_locks' = write_locks /\ readonly_locks' = readonly_locks
    BY <2>2 DEF LocksInv, LocksType
  <2>3. CASE lock_account(bank[t], batch[t][pos[t]])
    <3> DEFINE L == write_locks[bank[t]] \cup Writable[batch[t][pos[t]]]
               R == [a \in Accounts |-> IF a \in Readonly[batch[t][pos[t]]]
                                        THEN readonly_locks[bank[t]][a] + 1
                                        ELSE readonly_locks[bank[t]][a]]
    <3>1. L \in SUBSET Accounts
      BY <1>1, <2>1, TxsAssumption DEF LocksInv, LocksType, BatchType
    <3>2. R \in [Accounts -> Nat]
      BY <1>1 DEF LocksInv, LocksType, BatchType
    <3>3. write_locks' = [write_locks EXCEPT ![bank[t]] = L]
      BY <2>3 DEF lock_account
    <3>4. readonly_locks' = [readonly_locks EXCEPT ![bank[t]] = R]
      BY <2>3 DEF lock_account
    <3> HIDE DEF L, R
    <3> QED BY <3>1, <3>2, <3>3, <3>4, ZenonT(30) DEF LocksInv, LocksType
  <2> QED BY <2>2, <2>3 DEF LockNext
<1>5. pos' \in [Threads -> Nat] /\ pos'[t] \in 1..Len(batch[t])
  BY <1>1 DEF LockNext, InsideMutex, LocksInv, LocksType, BatchType
<1>6. ASSUME NEW u \in Threads, pc'[u] # "idle" PROVE BatchType(u)'
  <2>1. CASE u = t
    BY <1>1, <1>2, <1>5, <2>1 DEF LockNext, InsideMutex, LocksInv, LocksType, BatchType
  <2>2. CASE u # t
    BY <1>3, <1>6, <2>2 DEF LockNext, InsideMutex, LocksInv, LocksType, BatchType
  <2> QED BY <2>1, <2>2
<1> QED BY <1>1, <1>2, <1>4, <1>5, <1>6, ZenonT(30) DEF LockNext, InsideMutex, LocksInv, LocksType, BatchType

\* Locking one transaction, or refusing to, keeps every lock table exact.
LEMMA LockKeeps ==
    ASSUME LocksInv, NEW t \in Threads, LockNext(t)
    PROVE  LocksInv'
<1>1. BatchType(t) /\ Len(batch[t]) \in Nat /\ bank[t] \in Banks /\ pos[t] \in 1..Len(batch[t])
      /\ batch[t][pos[t]] \in Txs
  BY DEF LocksInv, LocksType, LockNext, BatchType
<1> PICK b \in Banks : b = bank[t]
  BY <1>1
<1> PICK i \in 1..Len(batch[t]) : i = pos[t]
  BY <1>1
<1> PICK x \in Txs : x = batch[t][i]
  BY <1>1
<1> DEFINE h == <<t, i>>
<1>2. \A u \in Threads \ {t} : Held(u)' = Held(u)
  BY DEF LocksInv, LocksType, LockNext, InsideMutex, Held, Span
<1>3. CASE lock_results[t][i] = "Ok" /\ Lockable(b, x)
  <2>1. lock_account(b, x) /\ lock_results' = lock_results /\ batch' = batch /\ bank' = bank
    BY <1>3 DEF LockNext
  <2>2. Held(t)' = Held(t) \cup {i} /\ i \notin Held(t)
    BY <1>1, <1>3, <2>1 DEF LocksInv, LocksType, BatchType, LockNext, InsideMutex, Held, Span
  <2>3. Holders(b)' = Holders(b) \cup {h} /\ h \notin Holders(b)
    BY <1>2, <2>1, <2>2 DEF Holders
  <2>4. \A g : TxOf(g)' = TxOf(g)
    BY <2>1 DEF TxOf
  <2>5. TxOf(h)' = x
    BY <2>1 DEF TxOf
  <2>6. LocksType /\ TableAt(b)
    BY TablesAt
  <2>7. TableAt(b)'
    BY <1>1, <1>3, <2>1, <2>3, <2>4, <2>5, <2>6, AddHolder
  <2>8. ASSUME NEW c \in Banks, c # b PROVE TableAt(c)'
    <3>1. Holders(c)' = Holders(c)
      BY <1>2, <2>1, <2>8 DEF Holders
    <3>2. write_locks'[c] = write_locks[c] /\ readonly_locks'[c] = readonly_locks[c]
      BY <2>1, <2>8 DEF lock_account, LocksInv, LocksType
    <3> QED BY <2>4, <3>1, <3>2, KeepTableAt, TablesAt
  <2> QED BY <2>7, <2>8, LockType DEF LocksInv, TableAt, HoldersFinite, LockTableMatchesHolders,
                                     HoldersNeverConflict
<1>4. CASE ~ (lock_results[t][i] = "Ok" /\ Lockable(b, x))
  <2>1. /\ write_locks' = write_locks /\ readonly_locks' = readonly_locks
        /\ batch' = batch /\ bank' = bank /\ lock_results'[t][i] # "Ok"
        /\ \A j \in 1..Len(batch[t]) : j # i => lock_results'[t][j] = lock_results[t][j]
    BY <1>1, <1>4 DEF LockNext, LocksInv, LocksType, BatchType, Results
  <2>2. Held(t)' = Held(t)
    BY <1>1, <2>1 DEF LocksInv, LocksType, BatchType, LockNext, InsideMutex, Held, Span
  <2>3. \A c \in Banks : TableAt(c)'
    BY <1>2, <2>1, <2>2, KeepTables
  <2> QED BY <2>3, LockType DEF LocksInv, TableAt, HoldersFinite, LockTableMatchesHolders,
                                HoldersNeverConflict
<1> QED BY <1>3, <1>4

\* A step of unlock_accounts keeps the types.
LEMMA UnlockType ==
    ASSUME LocksInv, NEW t \in Threads, UnlockNext(t)
    PROVE  LocksType'
<1>1. BatchType(t) /\ Len(batch[t]) \in Nat
  BY DEF LocksInv, LocksType, UnlockNext, BatchType
<1>2. write_locks' \in [Banks -> SUBSET Accounts] /\ readonly_locks' \in [Banks -> [Accounts -> Nat]]
  <2>1. CASE write_locks' = write_locks /\ readonly_locks' = readonly_locks
    BY <2>1 DEF LocksInv, LocksType
  <2>2. CASE unlock_account(bank[t], batch[t][pos[t]])
    <3> DEFINE L == write_locks[bank[t]] \ Writable[batch[t][pos[t]]]
               R == [a \in Accounts |-> IF a \in Readonly[batch[t][pos[t]]]
                                           /\ readonly_locks[bank[t]][a] > 0
                                        THEN readonly_locks[bank[t]][a] - 1
                                        ELSE readonly_locks[bank[t]][a]]
    <3>1. L \in SUBSET Accounts
      BY <1>1 DEF LocksInv, LocksType, BatchType
    <3>2. R \in [Accounts -> Nat]
      BY <1>1 DEF LocksInv, LocksType, BatchType
    <3>3. write_locks' = [write_locks EXCEPT ![bank[t]] = L]
      BY <2>2 DEF unlock_account
    <3>4. readonly_locks' = [readonly_locks EXCEPT ![bank[t]] = R]
      BY <2>2 DEF unlock_account
    <3> HIDE DEF L, R
    <3> QED BY <3>1, <3>2, <3>3, <3>4, ZenonT(30) DEF LocksInv, LocksType
  <2> QED BY <2>1, <2>2 DEF UnlockNext
<1>3. pos' \in [Threads -> Nat] /\ mutex' \in [Banks -> Threads \cup {NoThread}]
  BY <1>1 DEF UnlockNext, InsideMutex, LocksInv, LocksType, BatchType
<1>4. CASE pos[t] = Len(batch[t])
  <2>1. /\ pc' = [pc EXCEPT ![t] = "idle"] /\ bank' = [bank EXCEPT ![t] = NoBank]
        /\ batch' = [batch EXCEPT ![t] = << >>] /\ lock_results' = [lock_results EXCEPT ![t] = << >>]
    BY <1>4 DEF UnlockNext
  <2>2. << >> \in Seq(Txs) /\ << >> \in Seq(Results)
    OBVIOUS
  <2>3. ASSUME NEW u \in Threads, pc'[u] # "idle" PROVE BatchType(u)'
    BY <2>1, <2>3 DEF UnlockNext, InsideMutex, LocksInv, LocksType, BatchType
  <2> QED BY <1>2, <1>3, <2>1, <2>2, <2>3 DEF LocksInv, LocksType
<1>5. CASE pos[t] # Len(batch[t])
  <2>1. pc' = pc /\ bank' = bank /\ batch' = batch /\ lock_results' = lock_results
    BY <1>5 DEF UnlockNext
  <2>2. ASSUME NEW u \in Threads, pc'[u] # "idle" PROVE BatchType(u)'
    BY <1>1, <1>5, <2>1, <2>2 DEF UnlockNext, InsideMutex, LocksInv, LocksType, BatchType
  <2> QED BY <1>2, <1>3, <2>1, <2>2 DEF LocksInv, LocksType
<1> QED BY <1>4, <1>5

\* Unlocking one transaction keeps every lock table exact.
LEMMA UnlockKeeps ==
    ASSUME LocksInv, NEW t \in Threads, UnlockNext(t)
    PROVE  LocksInv'
<1>1. BatchType(t) /\ Len(batch[t]) \in Nat /\ bank[t] \in Banks /\ pos[t] \in 1..Len(batch[t])
      /\ batch[t][pos[t]] \in Txs
  BY DEF LocksInv, LocksType, UnlockNext, BatchType
<1> PICK b \in Banks : b = bank[t]
  BY <1>1
<1> PICK i \in 1..Len(batch[t]) : i = pos[t]
  BY <1>1
<1> PICK x \in Txs : x = batch[t][i]
  BY <1>1
<1> DEFINE h == <<t, i>>
<1>2. \A u \in Threads \ {t} : Held(u)' = Held(u) /\ bank'[u] = bank[u] /\ batch'[u] = batch[u]
  BY DEF LocksInv, LocksType, UnlockNext, InsideMutex, Held, Span
<1>3. Held(t)' = Held(t) \ {i}
  BY <1>1 DEF LocksInv, LocksType, BatchType, UnlockNext, InsideMutex, Held, Span
<1>4. Held(t) # {i} /\ Held(t) # {} => bank'[t] = bank[t] /\ batch'[t] = batch[t]
  BY <1>1 DEF LocksInv, LocksType, BatchType, UnlockNext, InsideMutex, Held, Span
<1>5. i \in Held(t) <=> lock_results[t][i] = "Ok"
  BY <1>1 DEF LocksInv, LocksType, BatchType, UnlockNext, Held, Span
<1>6. CASE lock_results[t][i] = "Ok"
  <2>1. unlock_account(b, x)
    BY <1>6 DEF UnlockNext, HoldsLock
  <2>2. Holders(b)' = Holders(b) \ {h} /\ h \in Holders(b)
    <3>1. ASSUME NEW g PROVE g \in Holders(b)' <=> g \in Holders(b) /\ g # h
      BY <1>2, <1>3, <1>4, <1>5, <1>6 DEF Holders
    <3>2. h \in Holders(b)
      BY <1>5, <1>6 DEF Holders
    <3> QED BY <3>1, <3>2
  <2>3. \A g \in Holders(b) \ {h} : TxOf(g)' = TxOf(g)
    BY <1>2, <1>3, <1>4 DEF Holders, TxOf
  <2>4. TxOf(h) = x
    BY DEF TxOf
  <2>5. LocksType /\ TableAt(b)
    BY TablesAt
  <2>6. TableAt(b)'
    <3> HIDE DEF h
    <3> QED BY <2>1, <2>2, <2>3, <2>4, <2>5, RemoveHolder
  <2>7. ASSUME NEW c \in Banks, c # b PROVE TableAt(c)'
    <3>1. Holders(c)' = Holders(c)
      <4>1. ASSUME NEW g PROVE g \in Holders(c)' <=> g \in Holders(c)
        BY <1>2, <1>3, <1>4, <2>7 DEF Holders
      <4> QED BY <4>1, ZenonT(30)
    <3>2. write_locks'[c] = write_locks[c] /\ readonly_locks'[c] = readonly_locks[c]
      BY <2>1, <2>7 DEF unlock_account, LocksInv, LocksType
    <3>3. \A g \in Holders(c) : TxOf(g)' = TxOf(g)
      BY <1>2, <2>7 DEF Holders, TxOf
    <3> QED BY <3>1, <3>2, <3>3, KeepTableAt, TablesAt
  <2> QED BY <2>6, <2>7, UnlockType DEF LocksInv, TableAt, HoldersFinite, LockTableMatchesHolders,
                                       HoldersNeverConflict
<1>7. CASE lock_results[t][i] # "Ok"
  <2>1. ~ HoldsLock(lock_results[t][i])
    BY <1>1, <1>7 DEF BatchType, Results, HoldsLock
  <2>2. write_locks' = write_locks /\ readonly_locks' = readonly_locks
    BY <2>1 DEF UnlockNext
  <2>3. Held(t)' = Held(t) /\ (Held(t) # {} => bank'[t] = bank[t] /\ batch'[t] = batch[t])
    BY <1>3, <1>4, <1>5, <1>7
  <2>4. \A c \in Banks : TableAt(c)'
    BY <1>2, <2>2, <2>3, KeepTables
  <2> QED BY <2>4, UnlockType DEF LocksInv, TableAt, HoldersFinite, LockTableMatchesHolders,
                                  HoldersNeverConflict
<1> QED BY <1>6, <1>7

\* The invariant is inductive.
LEMMA LocksStep == LocksInv /\ [LocksNext]_lockVars => LocksInv'
<1> SUFFICES ASSUME LocksInv, [LocksNext]_lockVars PROVE LocksInv'
  OBVIOUS
<1>1. CASE UNCHANGED lockVars
  <2>1. /\ pc' = pc /\ bank' = bank /\ batch' = batch /\ lock_results' = lock_results
        /\ pos' = pos /\ write_locks' = write_locks /\ readonly_locks' = readonly_locks
        /\ mutex' = mutex
    BY <1>1 DEF lockVars
  <2>2. LocksType'
    BY <2>1, ZenonT(30) DEF LocksInv, LocksType, BatchType
  <2>3. \A t \in Threads : Held(t)' = Held(t) /\ bank'[t] = bank[t] /\ batch'[t] = batch[t]
    BY <2>1, ZenonT(30) DEF Held, Span
  <2>4. \A b \in Banks : TableAt(b)'
    BY <2>1, <2>3, KeepTables
  <2> QED BY <2>2, <2>4 DEF LocksInv, TableAt, HoldersFinite, LockTableMatchesHolders,
                            HoldersNeverConflict
<1>2. CASE LocksNext
  BY <1>2, PrepareKeeps, LockKeeps, DropKeeps, UnlockKeeps DEF LocksNext
<1> QED BY <1>1, <1>2

\* The account locks of accounts.rs, whatever the batches are and however the
\* threads interleave: the lock table is exact and no two locked transactions of
\* a bank conflict.
THEOREM LocksCorrect == LocksSpec => []AccountsAreLocked
<1>1. LocksInv => AccountsAreLocked
  BY DEF LocksInv, AccountsAreLocked
<1> QED BY <1>1, LocksInitInv, LocksStep, PTL DEF LocksSpec
=============================================================================
