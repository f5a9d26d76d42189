CONSTANTS
  p1 = p1
  p2 = p2
  c1 = c1
  c2 = c2
  c3 = c3
  c4 = c4
  Peers = {p1, p2}
  AllowedPeers = {p1}
  Conns = {c1, c2, c3, c4}
  PeerOf <- MCPeerOf
  MaxConnections = 1
  MaxFails = 1
  MaxAge = 2
  MaxU32 = 7
  MaxLife = 2
  Builds = {FALSE}
SPECIFICATION FairSpec
INVARIANTS ConnectionsExact AdmissionLimit FailsAccounted
PROPERTIES BanEnforced RejectedForCause ImplementsQuota SlotReleased
CHECK_DEADLOCK FALSE
