SPECIFICATION Spec
CONSTANTS
    g = g
    a1 = a1
    a2 = a2
    a3 = a3
    b1 = b1
    b2 = b2
    b3 = b3
    c2 = c2
    c3 = c3
    NoBlock = NoBlock
    Genesis <- g
    Blocks <- GateBlocks
    Parent <- GateParent
    Height <- GateHeight
    Work <- GateWork
    Chain <- GateChain
    Addrs <- GateAddrs
    Bad = {}
    ContextBad = {}
    Corrupt = {}
    MaxReorgDepth = 1
    LWMA3ForkHeight = 0
    MaxOrphanBlocks = 2
    MaxRestarts = 1
    MaxDiskErrors = 0
INVARIANTS
    NeverRefusesToStart
CHECK_DEADLOCK FALSE
