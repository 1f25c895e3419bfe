SPECIFICATION Spec
CONSTANTS
    g0 = g0
    a1 = a1
    a2 = a2
    a3 = a3
    a4 = a4
    b2 = b2
    c3 = c3
    x1 = x1
    x2 = x2
    x3 = x3
    x4 = x4
    t1 = t1
    t2 = t2
    t3 = t3
    t4 = t4
    t5 = t5
    t6 = t6
    NoTx = NoTx
    Genesis <- g0
    Blocks <- MCBlocks
    Parent <- MCParent
    Height <- MCHeight
    BadBlocks = {}
    Txs <- MCTxs
    Coinbases <- MCCoinbases
    vin <- MCvin
    vout <- MCvout
    vtx <- MCvtx
    COINBASE_MATURITY_LEGACY = 1
    COINBASE_MATURITY_HARDENED = 2
    HARDFORK_COINBASE_MAT = 0
    Utxo <- MCUtxo
    NonStandard = {t3}
    Free = {t2}
    MaxOrphanTxs = 3
    MaxReorgDepth = 1
    MaxRestarts = 1
INVARIANTS
    PoolInputsAvailable
    IndexesExact
PROPERTIES
    OnlyConflictsDropped
    Resurrected
    OrphansFollow
CHECK_DEADLOCK FALSE
