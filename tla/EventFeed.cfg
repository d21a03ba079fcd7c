SPECIFICATION FeedSpec
CONSTANTS
  StartingHealth = 2
  SnapshotInterval = 2
  RingSize = 4
  BroadcastOnSnapshot = FALSE
  MaxHitsPerTick = 2
  Coins = {0, 1}
  MaxTick = 4
  MaxShots = 2
  MaxRivalShots = 3
  MaxInbox = 1
INVARIANTS
  FeedInv
  HitsShownOnce
  PhaseFollows
  HudFollows
