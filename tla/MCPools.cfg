SPECIFICATION FairSpec
CONSTANT Parts = {"legacy", "blob", "txpool", "building", "deep", "atomictx"}
INVARIANTS LegacySafety BlobSafety CoordinatorSafety AtomicTxSafety
PROPERTY PoolsServed
CHECK_DEADLOCK FALSE
