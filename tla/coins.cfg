SPECIFICATION Spec
CONSTANTS
    g0 = g0
    a1 = a1
    a2 = a2
    a3 = a3
    a4 = a4
    b2 = b2
    c3 = c3
    d3 = d3
    e4 = e4
    f1 = f1
    x1 = x1
    x2 = x2
    x3 = x3
    y2 = y2
    t1 = t1
    t2 = t2
    t3 = t3
    t4 = t4
    t5 = t5
    Absent = Absent
    NoUndo = NoUndo
    Genesis <- g0
    Blocks <- MCBlocks
    Parent <- MCParent
    Height <- MCHeight
    BadBlocks = {f1}
    Txs <- MCTxs
    Coinbases <- MCCoinbases
    vin <- MCvin
    vout <- MCvout
    vtx <- MCvtx
    COINBASE_MATURITY_LEGACY = 1
    COINBASE_MATURITY_HARDENED = 3
    HARDFORK_COINBASE_MAT = 4
    Utxo <- MCUtxo
    MaxRestarts = 1
    MaxDiskErrors = 1
INVARIANTS
    ViewExact
    CleanDisconnect
    ValidNeverRefused
PROPERTIES
    ImplementsLedger
CHECK_DEADLOCK FALSE
