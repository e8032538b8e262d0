SPECIFICATION FairSpec
CONSTANTS
  Key = {k1, k2, k3}
  Runner = {r1, r2}
  Foreign = Foreign
  None = None
  Torn = Torn
  MaxFaults = 2
INVARIANTS Bootstrapped GenesisOnce
PROPERTIES Recovers
CHECK_DEADLOCK FALSE
