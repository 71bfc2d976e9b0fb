SPECIFICATION WarmSpec
CONSTANTS
    s = s
    a = a
    b = b
    d = d
    p = p
    q = q
    Node = {s, a, b, d}
    Packet = {p}
    Origin <- OnePacket
    SourceNodes = {s}
    DestId <- ToD
    InRange <- DiamondRange
    Dist <- DiamondDist
    DistToDest <- DiamondTo
    NbUpdateLimit = 0
    Lossy = FALSE
CHECK_DEADLOCK FALSE
INVARIANTS
    StuckIsGenuine
    ChoiceIsLoop
