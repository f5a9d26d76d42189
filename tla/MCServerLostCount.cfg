CONSTANTS
  p1 = p1
  p2 = p2
  c1 = c1
  c2 = c2
  c3 = c3
  c4 = c4
  Peers = {p1, p2}
  AllowedPeers = {p1, p2}
  Conns = {c1, c2, c4}
  PeerOf <- MCPeerOfThree
  MaxConnections = 1
  MaxFails = 1
  MaxAge = 1
  MaxU32 = 7
  MaxLife = 2
  Builds = {FALSE}
SPECIFICATION Spec
INVARIANT ConnectionsExact
CHECK_DEADLOCK FALSE
