SPECIFICATION WarmSpec
CONSTANTS
    s = s
    a = a
    b = b
    d = d
    p = p
    q = q
    Node = {s, a, b, d}
    Packet = {p, q}
    Origin <- TwoPackets
    SourceNodes = {s, b}
    DestId <- BothToD
    InRange <- LineRange
    Dist <- LineDistances
    DistToDest <- LineTo
    NbUpdateLimit = 0
    Lossy = FALSE
CHECK_DEADLOCK FALSE
PROPERTY
    GreedyDelivers
