SPECIFICATION Spec
CONSTANTS
  p1 = p1
  p2 = p2
  p3 = p3
  alpha = alpha
  bravo = bravo
  charlie = charlie
  delta = delta
  unprintable = unprintable
  Peers <- MCPeers
  NoPeer = NoPeer
  Names <- MCNames
  ValidNames <- MCValidNames
  MaxPlayers = 3
  HeartbeatTimeout = 2
INVARIANTS
  SessionInv
  OneSessionPerName
PROPERTIES
  ImplementsRegistry
