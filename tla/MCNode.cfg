CONSTANTS
  s = s
  v = v
  w = w
  t1 = t1
  t2 = t2
  zero = zero
  Torn = Torn
  Self = s
  ZeroHash = zero
  Addr <- MCAddr
  Validators <- MCValidators
  Tx <- MCTx
  Block <- MCBlock
  Genesis <- MCGenesis
  Valid <- MCValid
  Deliver <- MCDeliver
  Batch <- MCBatch
  MaxPending = 1
  MaxPool = 2
  MaxFaults = 0
SPECIFICATION Spec
INVARIANTS TypeOK StateIsChain SlashJustified AppliedInTurn SlashedShutOut
CHECK_DEADLOCK FALSE
