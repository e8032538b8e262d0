SPECIFICATION Spec
CONSTANTS
  a = a
  b = b
  v = v
  Addr <- MCAddr
  MaxUint = 7
  MinStake = 2
  Allocation <- MCAllocation
  Validators <- MCValidators
  Tx <- MCTx
  Block <- MCBlock
  ReplayChain <- MCReplay
  MaxLog = 2
INVARIANTS TypeOK SupplyAccounted SupplyModular NonceAccounted StakeMatchesList BalancesAreReplay
PROPERTIES AtomicSpec
