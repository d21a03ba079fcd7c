SPECIFICATION Spec
CONSTANTS
  Profiles <- MCProfiles
  Cells <- MCCells
  CellHashes <- MCCellHashes
  MapChunks <- MCMapChunks
  Chunks <- MCChunks
INVARIANTS
  PoisAreSpaced
  ChunksMatchTheWhole
