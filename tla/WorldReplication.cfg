SPECIFICATION Spec
CONSTANTS
  p1 = p1
  p2 = p2
  Peers <- MCPeers
  Players = {1}
  ChunksX = 3
  ChunksY = 1
  ChunksZ = 1
  Radius = 1
  ValidBlocks = {0, 1, 2, 3}
  Blocks = {0, 1, 9}
  Positions <- MCPositions
  MaxChanges = 2
  MaxInbox = 2
INVARIANTS
  TablesAgree
  ReplicaFollows
  RevisionTellsContent
PROPERTIES
  ReplicaConverges
