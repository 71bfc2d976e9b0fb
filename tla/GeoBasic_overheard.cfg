SPECIFICATION Spec
CONSTANTS
    s = s
    a = a
    b = b
    d = d
    p = p
    q = q
    Node = {s, a, d}
    Packet = {p}
    Origin <- OnePacket
    SourceNodes = {s}
    DestId <- ToD
    InRange <- TriangleRange
    Dist <- TriangleDist
    DistToDest <- TriangleTo
    NbUpdateLimit = 0
    Lossy = TRUE
CHECK_DEADLOCK FALSE
INVARIANT
    LoggedLengthIsPath
