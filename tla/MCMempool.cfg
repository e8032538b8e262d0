SPECIFICATION FairSpec
CONSTANTS
  a = a
  b = b
  v = v
  NoTx = NoTx
  Addr <- MCAddr
  MaxUint = 5
  Tx <- MCTx
  Signed <- MCSigned
  Allocation <- MCAllocation
  Validators <- MCValidators
  Self = v
  PeerBlock <- MCPeerBlock
  Chain <- MCChain
  Cycle = 2
  MinFee = 1
  MaxPool = 3
  MaxPending = 2
  MaxFaults = 2
INVARIANTS TypeOK
PROPERTIES NoReplay SkipJustified PoolDrains
CHECK_DEADLOCK FALSE
