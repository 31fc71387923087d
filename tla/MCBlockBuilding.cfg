SPECIFICATION Spec
CONSTANTS
    t1 = t1
    t2 = t2
    t3 = t3
    u1 = u1
    u2 = u2
    u3 = u3
    Tx = {t1, t2, t3}
    NoTx = NoTx
    Utxo = {u1, u2, u3}
    InputUTXOs <- MCInputs
    gasPrice <- MCGasPrice
    maxSize = 2
    discardedTxsCacheSize = 1
    MaxBatch = 2
    MaxDepth = 1
    MaxProcessing = 1
    EvmPool = TRUE
INVARIANTS
    MempoolSafety
    ConflictsAreOrphans
    BlocksSpendOnce
PROPERTIES
    NothingLost
