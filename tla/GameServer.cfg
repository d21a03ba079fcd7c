SPECIFICATION FairSpec
CONSTANTS
  p1 = p1
  p2 = p2
  alpha = alpha
  bravo = bravo
  charlie = charlie
  unprintable = unprintable
  Peers <- MCPeers
  NoPeer = NoPeer
  Names <- MCNames
  ValidNames <- MCValidNames
  MaxPlayers = 2
  HeartbeatTimeout = 1
  NoWinner = 0
  PreMatchTicks = 1
  MatchDurationSeconds = 1
  RespawnDelayTicks = 1
  RespawnsPerPlayer = 0
  MinPlayersToStart = 2
  TickLength = 1
  SecondLength = 1
  MaxTotalValue = 0
  MaxDue = 1
INVARIANTS
  ServerInv
  SimulationsFollowSessions
  NewNamesFindRoom
PROPERTIES
  SilenceIsNoticed
