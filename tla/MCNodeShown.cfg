CONSTANTS
  s = s
  v = v
  w = w
  t1 = t1
  t2 = t2
  zero = zero
  Torn = Torn
  Self = s
  ZeroHash = zero
  Addr <- MCAddr
  Validators <- Alone
  Tx <- MCTx
  Block <- CrashBlock
  Genesis <- MCGenesis
  Valid <- CrashBlock
  Deliver <- None
  Batch <- None
  MaxPending = 1
  MaxPool = 2
  MaxFaults = 1
SPECIFICATION Spec
INVARIANTS ShownOnce
CHECK_DEADLOCK FALSE
