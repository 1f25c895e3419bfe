SPECIFICATION CheckpointSpec
CONSTANTS
    g = g
    a1 = a1
    a2 = a2
    a3 = a3
    b1 = b1
    b2 = b2
    b3 = b3
    c2 = c2
    c3 = c3
    a4 = a4
    c4 = c4
    NoBlock = NoBlock
    Genesis <- g
    Blocks <- LockBlocks
    Parent <- LockParent
    Height <- LockHeight
    Work <- LockWork
    Chain <- LockChain
    Addrs <- LockAddrs
    Bad = {}
    ContextBad = {}
    Corrupt = {}
    MaxReorgDepth = 9
    LWMA3ForkHeight = 0
    MaxOrphanBlocks = 1
    MaxRestarts = 0
    MaxDiskErrors = 0
    ROLLING_DEPTH = 3
    ROLLING_KEEP = 1
    RollingActivation = 0
    InitialDownload = FALSE
    Broadcast = {b1}
INVARIANTS
    AssertionsHold
CHECK_DEADLOCK FALSE
