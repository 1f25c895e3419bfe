SPECIFICATION Spec
CONSTANTS
    p1 = p1
    p2 = p2
    b1 = b1
    b2 = b2
    b3 = b3
    Blocks = {b1, b2, b3}
    Peers = {p1, p2}
    NoNode = NoNode
    MaxInTransit = 2
    MaxOrphans = 0
    Timeout = 1
    QueueLimit = 1
    Penalty = 1
    BanScore = 1
SYMMETRY Symmetric
INVARIANTS
    TypeOK
    ListsMatchMaps
    OnlyMissingWanted
    FrontIsOldest
