CONSTANTS
  p1 = p1
  p2 = p2
  c1 = c1
  c2 = c2
  c3 = c3
  c4 = c4
  Peers = {p1, p2}
  AllowedPeers = {p1, p2}
  Conns = {c1, c2, c4}
  PeerOf <- MCPeerOfThree
  MaxConnections = 2
  MaxFails = 1
  MaxAge = 1
  MaxU32 = 7
  MaxLife = 2
  Builds = {TRUE, FALSE}
SPECIFICATION FairSpec
INVARIANTS TypeOK CountNeverHigh FailsAccounted
PROPERTY SlotReleased
CHECK_DEADLOCK FALSE
