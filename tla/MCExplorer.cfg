CONSTANTS
  s = s
  t1 = t1
  t2 = t2
  t3 = t3
  zero = zero
  Torn = Torn
  Self = s
  ZeroHash = zero
  Addr <- MCAddr
  Validators <- MCValidators
  Tx <- MCTx
  Block <- MCBlock
  Genesis <- MCGenesis
  Valid <- MCBlock
  Deliver <- MCDeliver
  Batch <- MCBatch
  MaxPending = 1
  MaxPool = 2
  MaxFaults = 0
  MaxLimit = 2
  DefaultLimit = 2
SPECIFICATION ExplorerSpec
INVARIANTS AnswerIsSlice ShowsLatest ByHeightCanonical ShownIsApplied
CHECK_DEADLOCK FALSE
