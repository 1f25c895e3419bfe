SPECIFICATION Spec
CONSTANTS
    g = g
    a1 = a1
    a2 = a2
    a3 = a3
    b1 = b1
    b2 = b2
    b3 = b3
    c2 = c2
    c3 = c3
    NoBlock = NoBlock
    Genesis <- g
    Blocks <- ForkBlocks
    Parent <- ForkParent
    Height <- ForkHeight
    Work <- ForkWork
    Chain <- ForkChain
    Addrs <- ForkAddrs
    Bad = {c2}
    ContextBad = {b3}
    Corrupt = {a3}
    MaxReorgDepth = 9
    LWMA3ForkHeight = 0
    MaxOrphanBlocks = 2
    MaxRestarts = 1
    MaxDiskErrors = 1
INVARIANTS
    TypeOK
    CandidatesExact
    ActiveChainValid
    FailedIsJustified
    BestWhenComplete
    OrphansWait
PROPERTIES
    TipAbandonedForBetter
CHECK_DEADLOCK FALSE
