SPECIFICATION FairSpec
CONSTANTS
    g = g
    a1 = a1
    a2 = a2
    a3 = a3
    b1 = b1
    b2 = b2
    b3 = b3
    c2 = c2
    c3 = c3
    NoBlock = NoBlock
    Genesis <- g
    Blocks <- SmallBlocks
    Parent <- SmallParent
    Height <- SmallHeight
    Work <- SmallWork
    Chain <- SmallChain
    Addrs <- SmallAddrs
    Bad = {c2}
    ContextBad = {}
    Corrupt = {}
    MaxReorgDepth = 9
    LWMA3ForkHeight = 0
    MaxOrphanBlocks = 2
    MaxRestarts = 1
    MaxDiskErrors = 0
PROPERTIES
    ActivationEnds
    ValidBlocksOutweighed
CHECK_DEADLOCK FALSE
