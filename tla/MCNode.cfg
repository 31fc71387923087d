SPECIFICATION Spec
CONSTANT Parts = {"queries", "indexer", "vm", "restart", "miner"}
INVARIANTS QuerySafety IndexerSafety VMSafety MinerSafety
CHECK_DEADLOCK FALSE
