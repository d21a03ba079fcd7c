SPECIFICATION PipelineSpec
CONSTANTS
  MaxPlayers = 2
  InputQueueCapacity = 2
  SnapshotIntervalTicks = 2
  TickInterval = 2
  MaxInputSeq = 3
  MaxNow = 8
  MaxPendingInputs = 2
  MaxLag = 2
INVARIANTS
  LoopInv
  PipelineInv
  ReplayExact
  ClientIsHeard
PROPERTIES
  AdvanceCatchesUp
