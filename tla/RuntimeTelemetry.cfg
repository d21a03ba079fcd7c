SPECIFICATION TelemetrySpec
CONSTANTS
  ReportInterval = 3
  HistorySize = 2
  TickBudget = 1
  TickLagTolerance = 1
  Percentile = 50
  MaxLagRate = 40
  MaxDropRate = 40
  MaxParseErrorRate = 10
  MinActivePlayers = 1
  Times = {0, 2}
  PlayerCounts = {0, 2}
  MaxPackets = 2
INVARIANTS
  TelemetryInv
  ReportsTellTheirWindow
