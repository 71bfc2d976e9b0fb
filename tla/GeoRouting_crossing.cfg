SPECIFICATION FairSpec
CONSTANTS
    s = s
    a = a
    b = b
    d = d
    p = p
    q = q
    Node = {s, a, d}
    Packet = {p, q}
    Origin <- Crossing
    SourceNodes = {s, d}
    DestId <- ThereAndBack
    InRange <- TriangleRange
    DistToDest <- TriangleCrossing
    NbUpdateLimit = 0
    Lossy = FALSE
CHECK_DEADLOCK FALSE
INVARIANTS
    PathInv
    EndsOnce
    ReceivedPerTransmission
PROPERTIES
    OverheardFromUnaware
    ImplementsGreedyPath
    PacketEnds
    DeliversOnceSettled
