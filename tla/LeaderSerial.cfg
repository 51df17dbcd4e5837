SPECIFICATION FairSpec
CONSTANTS
  pay = pay
  spend = spend
  advance = advance
  p1 = p1
  p2 = p2
  shared = shared
  nonce = nonce
  t1 = t1
  t2 = t2
  Txs <- SmallTxs
  Accounts <- SmallAccounts
  Writable <- SmallWritable
  Readonly <- SmallReadonly
  FeePayer <- SmallFeePayer
  NonceAccount = nonce
  NonceOf <- SmallNonceOf
  Fails = {advance}
  Threads = {t1, t2}
  Banks = {1, 2}
  Batches <- SmallBatches
  NoThread = NoThread
  NoBank = NoBank
  Genesis = 0
  MaxTicks = 1
  Buffers <- SmallBuffers
  Throttled = {advance}
  Unfit = {}
PROPERTIES
  ImplementsSerialBlock
  LocksReleased
  CompleteBankFreezes
CHECK_DEADLOCK FALSE
