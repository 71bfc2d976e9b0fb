SPECIFICATION Spec
CONSTANTS
    s = s
    a = a
    b = b
    d = d
    p = p
    q = q
    Node = {s, a, b, d}
    Packet = {p}
    Origin <- OnePacket
    SourceNodes = {s}
    DestId <- ToD
    InRange <- DiamondRange
    Dist <- DiamondDist
    DistToDest <- DiamondTo
    NbUpdateLimit = 0
    Lossy = TRUE
CHECK_DEADLOCK FALSE
INVARIANTS
    TypeOK
    LoopFree
    SingleCustody
PROPERTIES
    NextHopImproves
    ImplementsGreedyPath
