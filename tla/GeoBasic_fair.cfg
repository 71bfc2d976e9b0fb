SPECIFICATION FairSpec
CONSTANTS
    s = s
    a = a
    b = b
    d = d
    p = p
    q = q
    Node = {s, a, d}
    Packet = {p}
    Origin <- OnePacket
    SourceNodes = {s}
    DestId <- ToD
    InRange <- ChainRange
    Dist <- ChainDist
    DistToDest <- ChainTo
    NbUpdateLimit = 1
    Lossy = FALSE
CHECK_DEADLOCK FALSE
INVARIANTS
    TableFromBeacons
    LengthIsPath
    RouteIsHistory
PROPERTIES
    CustodyIsReported
    TablesComplete
