SPECIFICATION SyncSpec
CONSTANTS
  g = g a1 = a1 a2 = a2 a3 = a3 a4 = a4 a5 = a5 a6 = a6 a7 = a7 a8 = a8
  b1 = b1 b2 = b2 c6 = c6
  Block = {g, a1, a2, a3, a4, a5, a6, a7, a8, b1, b2, c6}
  Canonical = {g, a1, a2, a3, a4, a5, a6, a7, a8}
  Genesis = g
  parent <- MCParent
  number <- MCNumber
  ancestors <- MCAncestors
  Chain = {1, 2}
  opsOn <- SparseOps
  bonusBlocks = {a5}
  MaxNumber = 8
  commitInterval = 3
  syncableInterval = 6
  MaxCrashes = 0
  Parts = {"atomic"}
INVARIANT SkippedRootsRight
CHECK_DEADLOCK FALSE
