SPECIFICATION Spec
CONSTANTS
    COIN = 16
    RestorationForkHeight = 1000000
    SignedWindowStart = 999991
    OpenMiningHeight = 1050666
    PostForkSubsidy = 24
    TreasuryNum = 1
    TreasuryDen = 8
    RestorationTithe = 2400000
    PreForkSubsidy = 2
    EmergencyDiffForkHeight = 989898
    GAP = 1
    DRIFT = 1
    Fees = {1}
    None = None
    Starts = {989896, 999989, 999998, 1050665, 1141664}
    MaxBlocks = 2
    MaxTime = 3
    MaxStepsBack = 1
INVARIANTS
    ServedAcceptable
    SearchAcceptable
    OwnBlockSound
    RitualExact
PROPERTIES
    StallEnds
CHECK_DEADLOCK FALSE
