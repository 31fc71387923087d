SPECIFICATION Spec
CONSTANTS
    g = g
    a1 = a1
    a2 = a2
    a3 = a3
    b1 = b1
    b2 = b2
    Block = {g, a1, a2, a3, b1, b2}
    Genesis = g
    NoBlock = NoBlock
    parent <- MCParent
    number <- MCNumber
    ancestors <- MCAncestors
    root <- MCRoot
    NoRoot = NoRoot
    MaxNumber = 3
    AcceptorQueueLimit = 2
    CommitInterval = 2
    StateHistory = 1
    Pruning = TRUE
    Snapshots = TRUE
    MaxBatchSize = 4
    MaxCrashes = 1

INVARIANTS
    TypeOK
    AcceptedCanonical
    CanonicalIsHeadChain
    LiveBlocksUsable
    NoIndexHole
    RestartSafety
PROPERTY
    EventsInOrder
