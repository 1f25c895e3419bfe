SPECIFICATION FairSpec
CONSTANTS
    k1 = k1
    k2 = k2
    k3 = k3
    k4 = k4
    w1 = w1
    w2 = w2
    Checks = {k1, k2, k3, k4}
    Good = {k1, k2, k3}
    Workers = {w1, w2}
    Master = Master
    NoThread = NoThread
    BatchSize = 2
    MaxBlocks = 2
    MaxSpurious = 1
INVARIANTS
    TypeOK
    UnusedBetweenBlocks
    WorkIsNoticed
PROPERTIES
    VerdictIsConjunction
    WaitReturns
    WorkersEnd
CHECK_DEADLOCK FALSE
