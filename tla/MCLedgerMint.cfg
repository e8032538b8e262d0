SPECIFICATION Spec
CONSTANTS
  a = a
  b = b
  v = v
  Addr <- MCAddr
  MaxUint = 15
  MinStake = 2
  Allocation <- MCAllocation
  Validators <- MCValidators
  Tx <- MCTx
  Block <- MCBlock
  ReplayChain <- NoReplay
  MaxLog = 2
INVARIANTS NoMinting
CHECK_DEADLOCK FALSE
