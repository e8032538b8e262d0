CONSTANTS
  me = me
  p = p
  q = q
  e1 = e1
  e2 = e2
  Conn = {c1, c2, c3}
  Address <- MCAddress
  Listen = me
  Ephemeral <- MCEphemeral
  Seeds <- MCSeeds
  MaxPeers = 2
  MaxList = 1
  Main = Main
  None = None
SPECIFICATION FairSpec
INVARIANTS PeersBounded ReaderOwnsEntry NoOpenOrphan OnlyDialledStale
PROPERTIES ReaderCleansUp
CHECK_DEADLOCK FALSE
