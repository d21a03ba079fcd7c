SPECIFICATION FairSpec
CONSTANTS
  MaxPlayers = 3
  NoWinner = 0
  PreMatchTicks = 2
  MatchDurationSeconds = 2
  RespawnDelayTicks = 1
  RespawnsPerPlayer = 1
  MinPlayersToStart = 2
  TickLength = 2
  SecondLength = 3
  MaxTotalValue = 1
INVARIANTS
  MatchInv
  KillsMatchDeaths
PROPERTIES
  ResultIsFinal
  WinnerLeads
  MatchEnds
