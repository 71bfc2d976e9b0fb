SPECIFICATION PlusSpec
CONSTANTS
    s = s
    a = a
    b = b
    d = d
    p = p
    q = q
    NoLine = NoLine
    Node = {s, a, b, d}
    Packet = {p, q}
    Origin <- FanFrom
    SourceNodes = {s}
    DestId <- BothToD
    InRange <- FanRange
    Dist <- FanDist
    DistToDest <- FanTo
    LineDist <- FanLines
    NbUpdateLimit = 0
    Lossy = TRUE
CHECK_DEADLOCK FALSE
INVARIANTS
    PlusTypeOK
PROPERTIES
    FollowsLine
    ImplementsGreedyPath
