SPECIFICATION StorageFairSpec
CONSTANTS
    Item = {r1, r2, r3}
    Zero = Zero
    size = 3
    Parts = {"buffer", "snapshot", "iterator", "root", "hashdb", "pathdb", "pruner",
             "populate", "archive"}
INVARIANTS NoUnsetValue SnapshotSafety HashSafety PathSafety OfflineSafety ArchiveSafety
PROPERTIES ImplementsWindow StorageEnds
CHECK_DEADLOCK FALSE
