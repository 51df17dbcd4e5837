-------------------------- MODULE LeaderPohProofs ---------------------------
(***************************************************************************)
(* Recording a batch keeps the invariant of block production.              *)
(***************************************************************************)
EXTENDS LeaderThreadProofs

\* The record channel after its oldest request was answered.
LEMMA AnswerQueue ==
    ASSUME LeaderInv, record_queue # << >>, record_queue' = Tail(record_queue),
           \A u \in Threads \ {Head(record_queue)} : stage'[u] = stage[u]
    PROVE  record_queue' \in Seq(Threads) /\ QueueInv'
<1>1. record_queue \in Seq(Threads) /\ Len(record_queue) \in Nat \ {0}
      /\ Head(record_queue) = record_queue[1]
      /\ record_queue' \in Seq(Threads) /\ Len(record_queue') = Len(record_queue) - 1
  BY DEF LeaderInv, LeaderType
<1>2. \A j \in 1..Len(record_queue') : record_queue'[j] = record_queue[j + 1] /\ record_queue[j + 1] \in Threads
  BY <1>1
<1>3. ASSUME NEW j \in 1..Len(record_queue')
      PROVE  j + 1 \in 1..Len(record_queue) /\ j + 1 # 1 /\ 1 \in 1..Len(record_queue)
  BY <1>1
<1>4. ASSUME NEW j \in 1..Len(record_queue') PROVE stage'[record_queue'[j]] = "recording"
  BY <1>1, <1>2, <1>3 DEF LeaderInv, QueueInv
<1>5. ASSUME NEW j \in 1..Len(record_queue'), NEW k \in 1..Len(record_queue'), j # k
      PROVE  record_queue'[j] # record_queue'[k]
  <2>1. j + 1 # k + 1
    BY <1>5
  <2> QED BY <1>2, <1>3, <2>1 DEF LeaderInv, QueueInv
<1> QED BY <1>1, <1>4, <1>5 DEF QueueInv

\* The PoH thread answers the oldest request: it records or refuses it.
LEMMA RecordKeeps ==
    ASSUME LocksInv, LeaderInv, record
    PROVE  LeaderInv'
<1>1. Head(record_queue) \in Threads /\ stage[Head(record_queue)] = "recording"
  <2>1. record_queue \in Seq(Threads) /\ record_queue # << >>
    BY DEF LeaderInv, LeaderType, record
  <2>2. 1 \in 1..Len(record_queue) /\ Head(record_queue) = record_queue[1] /\ Head(record_queue) \in Threads
    BY <2>1
  <2> QED BY <2>2 DEF LeaderInv, QueueInv
<1> PICK t \in Threads : t = Head(record_queue)
  BY <1>1
<1>2. executed' = executed /\ UNCHANGED lockVars /\ tick_height' = tick_height /\ parent' = parent
      /\ ancestors' = ancestors /\ frozen' = frozen /\ working_bank' = working_bank
      /\ status_cache' = status_cache /\ panicked' = panicked
      /\ record_queue # << >> /\ record_queue' = Tail(record_queue)
  BY DEF record
<1>3. pc' = pc /\ bank' = bank /\ batch' = batch /\ lock_results' = lock_results
  BY <1>2 DEF lockVars
<1>4. pc[t] = "locked" /\ bank[t] \in Banks /\ Created(bank[t]) /\ Entry(t) \subseteq Txs
      /\ executed[t] \subseteq {i \in DOMAIN batch[t] : lock_results[t][i] = "Ok"}
  BY <1>1, ActiveIsLocked DEF Active, LeaderInv, StageInv
<1>5. executed' \in [Threads -> SUBSET Nat]
  BY <1>2 DEF LeaderInv, LeaderType
<1>6. CASE working_bank # bank[t]
  <2>1. stage' = [stage EXCEPT ![t] = "refused"] /\ block' = block
    BY <1>6 DEF record
  <2>2. stage'[t] = "refused" /\ stage' \in [Threads -> Stages] /\ \A u \in Threads \ {t} : stage'[u] = stage[u]
    BY <2>1 DEF LeaderInv, LeaderType, Stages
  <2>3. LedgerSame
    BY <1>2, <2>1 DEF LedgerSame, LeaderInv, AssertionsHold
  <2>4. record_queue' \in Seq(Threads) /\ QueueInv'
    BY <1>2, <2>2, AnswerQueue
  <2> QED BY <1>1, <1>2, <1>3, <1>4, <1>5, <2>2, <2>3, <2>4, ThreadFrame DEF Active
<1>7. CASE working_bank = bank[t]
  <2> PICK b \in Banks : b = bank[t]
    BY <1>4
  <2> PICK e \in SUBSET Txs : e = Entry(t)
    BY <1>4
  <2>1. stage' = [stage EXCEPT ![t] = "recorded"] /\ block' = [block EXCEPT ![b] = Append(@, e)]
    BY <1>7 DEF record
  <2>2. stage'[t] = "recorded" /\ stage' \in [Threads -> Stages] /\ \A u \in Threads \ {t} : stage'[u] = stage[u]
    BY <2>1 DEF LeaderInv, LeaderType, Stages
  <2>3. b \notin frozen /\ b \in AllBanks
    BY <1>4, <1>7, LocksAssumption DEF LeaderInv, BankInv, AllBanks
  <2>4. block[b] \in Seq(SUBSET Txs) /\ Len(block[b]) \in Nat
    BY <2>3 DEF LeaderInv, LeaderType
  <2>5. block' \in [AllBanks -> Seq(SUBSET Txs)] /\ block'[b] = Append(block[b], e)
        /\ \A c \in AllBanks \ {b} : block'[c] = block[c]
    BY <2>1, <2>3, <2>4 DEF LeaderInv, LeaderType
  <2>6. /\ Len(block'[b]) = Len(block[b]) + 1 /\ block'[b][Len(block[b]) + 1] = e
        /\ \A i \in 1..Len(block[b]) : block'[b][i] = block[b][i]
        /\ DOMAIN block'[b] = 1..(Len(block[b]) + 1)
    BY <2>4, <2>5
  <2>7. Recorded(b)' = Recorded(b) \cup e
    <3>1. 1..Len(block'[b]) = 1..Len(block[b]) \cup {Len(block[b]) + 1}
      BY <2>4, <2>6
    <3>2. ASSUME NEW x PROVE x \in Recorded(b)' <=> x \in Recorded(b) \/ x \in e
      <4>1. x \in Recorded(b)' <=> \E i \in 1..Len(block'[b]) : x \in block'[b][i]
        BY DEF Recorded
      <4>2. x \in Recorded(b) <=> \E i \in 1..Len(block[b]) : x \in block[b][i]
        BY DEF Recorded
      <4> QED BY <2>6, <3>1, <4>1, <4>2, ZenonT(30)
    <3> QED BY <3>2
  <2>8. \A c \in AllBanks \ {b} : Recorded(c)' = Recorded(c)
    BY <2>5 DEF Recorded
  <2>9. \A u \in Threads : Entry(u)' = Entry(u)
    BY <1>2, <1>3 DEF Entry
  <2>10. record_queue' \in Seq(Threads) /\ QueueInv'
    BY <1>2, <2>2, AnswerQueue
  <2>11. LeaderType'
    BY <1>2, <1>5, <2>2, <2>5, <2>10 DEF LeaderInv, LeaderType, WorkingBankType
  <2>12. StageInv'
    BY <1>2, <1>3, <1>4, <2>2 DEF LeaderInv, StageInv, Created
  <2>13. BankInv'
    BY <1>2, <1>4, <2>3, <2>5 DEF LeaderInv, BankInv, Created, is_complete, AllBanks
  <2>14. FreezeInv'
    BY <1>2, <1>3, <2>2, <2>3 DEF LeaderInv, FreezeInv
  <2>15. CacheInv'
    <3> SUFFICES ASSUME NEW c \in AllBanks, NEW x \in Recorded(c)', <<x, c>> \notin status_cache
                 PROVE  \E u \in Threads : /\ bank'[u] = c /\ stage'[u] \in {"recorded", "stored"}
                                           /\ x \in Entry(u)'
      BY <1>2, ZenonT(30) DEF CacheInv
    <3>1. CASE c = b /\ x \in e
      BY <1>3, <2>2, <2>9, <3>1
    <3>2. CASE x \in Recorded(c)
      <4>1. PICK u \in Threads : bank[u] = c /\ stage[u] \in {"recorded", "stored"} /\ x \in Entry(u)
        BY <3>2 DEF LeaderInv, CacheInv
      <4>2. u # t
        BY <1>1, <4>1
      <4> QED BY <1>3, <2>2, <2>9, <4>1, <4>2
    <3> QED BY <2>7, <2>8, <3>1, <3>2
  <2>16. ASSUME NEW c \in AllBanks, b \in ancestors[c] PROVE c = b
    BY <2>3, <2>16 DEF LeaderInv, BankInv
  <2>17. FreshInv'
    <3> SUFFICES ASSUME NEW u \in Threads, stage'[u] \in {"executed", "recording"},
                        NEW s \in ancestors[bank[u]]
                 PROVE  Entry(u) \cap Recorded(s)' = {}
      BY <1>2, <1>3, <2>9 DEF FreshInv
    <3>1. u # t /\ stage[u] = stage'[u] /\ stage[u] \in Active
      BY <2>2 DEF Active
    <3>2. Entry(u) \cap Recorded(s) = {} /\ bank[u] \in Banks /\ s \in AllBanks
      BY <3>1, ActiveIsLocked DEF LeaderInv, FreshInv, LeaderType, AllBanks
    <3>3. CASE s = b
      <4>1. bank[u] = b
        BY <2>16, <3>2, <3>3 DEF AllBanks
      <4>2. Entry(u) \cap Entry(t) = {}
        BY <1>1, <3>1, <4>1, EntriesDisjoint DEF Active
      <4> QED BY <2>7, <3>2, <3>3, <4>2
    <3>4. CASE s # b
      BY <2>8, <3>2, <3>4
    <3> QED BY <3>3, <3>4
  <2>18. RecordedOnce'
    <3> SUFFICES ASSUME NEW c \in AllBanks, NEW s \in ancestors[c],
                        NEW i \in DOMAIN block'[c], NEW j \in DOMAIN block'[s], <<c, i>> # <<s, j>>
                 PROVE  block'[c][i] \cap block'[s][j] = {}
      BY <1>2 DEF RecordedOnce
    <3>1. s \in AllBanks
      BY DEF LeaderInv, LeaderType
    <3>2. \A d \in ancestors[b] : e \cap Recorded(d) = {}
      BY <1>1 DEF LeaderInv, FreshInv
    <3>3. CASE c # b
      <4>1. s # b
        BY <2>16, <3>3
      <4> QED BY <2>5, <3>1, <3>3, <4>1 DEF LeaderInv, RecordedOnce
    <3>4. CASE c = b /\ i \in 1..Len(block[b])
      <4>1. CASE s = b /\ j = Len(block[b]) + 1
        <5>1. b \in ancestors[b] /\ block[b][i] \subseteq Recorded(b)
          BY <2>3, <3>4 DEF LeaderInv, BankInv, Recorded
        <5> QED BY <2>6, <3>2, <3>4, <4>1, <5>1
      <4>2. CASE s # b \/ j \in 1..Len(block[b])
        <5>1. block'[s][j] = block[s][j] /\ j \in DOMAIN block[s] /\ i \in DOMAIN block[c]
              /\ block'[c][i] = block[c][i]
          <6>1. i \in DOMAIN block[c] /\ block'[c][i] = block[c][i]
            BY <2>4, <2>6, <3>4
          <6>2. CASE s # b
            BY <2>5, <3>1, <6>1, <6>2
          <6>3. CASE s = b /\ j \in 1..Len(block[b])
            BY <2>4, <2>6, <6>1, <6>3
          <6> QED BY <4>2, <6>2, <6>3
        <5> QED BY <5>1 DEF LeaderInv, RecordedOnce
      <4> QED BY <2>4, <2>6, <4>1, <4>2
    <3>5. CASE c = b /\ i = Len(block[b]) + 1
      <4>1. j \in 1..Len(block[s]) /\ block'[s][j] = block[s][j]
        <5>1. CASE s = b
          <6>1. j # Len(block[b]) + 1 /\ j \in 1..(Len(block[b]) + 1)
            BY <2>6, <3>5, <5>1
          <6>2. j \in 1..Len(block[b])
            BY ONLY <2>4, <6>1
          <6> QED BY <2>6, <5>1, <6>2
        <5>2. CASE s # b
          <6>1. block[s] \in Seq(SUBSET Txs) /\ block'[s] = block[s]
            BY <2>5, <3>1, <5>2 DEF LeaderInv, LeaderType
          <6> QED BY <6>1
        <5> QED BY <5>1, <5>2
      <4>2. block[s][j] \subseteq Recorded(s)
        BY <4>1 DEF Recorded
      <4> QED BY <2>6, <3>2, <3>5, <4>1, <4>2
    <3> QED BY <2>4, <2>6, <3>3, <3>4, <3>5
  <2>19. AssertionsHold'
    BY <1>2 DEF LeaderInv, AssertionsHold
  <2> QED BY <2>10, <2>11, <2>12, <2>13, <2>14, <2>15, <2>17, <2>18, <2>19 DEF LeaderInv
<1> QED BY <1>6, <1>7
=============================================================================
