SPECIFICATION FairSpec
CONSTANTS
    p1 = p1
    p2 = p2
    b1 = b1
    b2 = b2
    Blocks = {b1, b2}
    Peers = {p1, p2}
    Watched = {p1}
    NoNode = NoNode
    MaxInTransit = 2
    MaxOrphans = 0
    Timeout = 1
    QueueLimit = 2
    Penalty = 1
    BanScore = 2
    Inactivity = 0
PROPERTIES
    RequestEnds
    QueueMoves
