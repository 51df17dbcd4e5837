SPECIFICATION Spec
CONSTANTS
  pay = pay
  spend = spend
  advance = advance
  p1 = p1
  p2 = p2
  shared = shared
  nonce = nonce
  t1 = t1
  t2 = t2
  Txs <- MCTxs
  Accounts <- MCAccounts
  Writable <- MCWritable
  Readonly <- MCReadonly
  FeePayer <- MCFeePayer
  NonceAccount = nonce
  NonceOf <- MCNonceOf
  Fails = {advance}
  Threads = {t1, t2}
  Banks = {1, 2}
  Batches <- MCBatches
  NoThread = NoThread
  NoBank = NoBank
  Genesis = 0
  MaxTicks = 1
  Buffers <- MCBuffers
  Throttled = {spend}
  Unfit = {spend}
INVARIANTS
  TypeOK
  AccountsAreLocked
  AssertionsHold
  RecordedOnce
PROPERTIES
  NothingLost
CHECK_DEADLOCK FALSE
