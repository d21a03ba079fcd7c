SPECIFICATION Spec
CONSTANTS
  MaxPlayers = 2
  Treasures <- MCTreasures
  SpawnIntervalTicks = 2
  MaxActiveSpawns = 2
  PickupQueueCapacity = 2
  MaxItemsPerPlayer = 2
  MaxWeightPerPlayer = 2
  LootDropAll = TRUE
  MaxPickupSeq = 2
  MaxSpawnId = 4
INVARIANTS
  InventoryInv
  TreasuresConserved
  TotalsExact
  DeadCarryNothing
