CONSTANTS
  me = me
  p = p
  q = q
  e1 = e1
  e2 = e2
  Conn = {c1, c2}
  Address <- MCAddress
  Listen = me
  Ephemeral <- MCEphemeral
  Seeds <- MCSeeds
  MaxPeers = 2
  MaxList = 1
  Main = Main
  None = None
SPECIFICATION FairSpec
PROPERTIES DialledIsRead
CHECK_DEADLOCK FALSE
