SPECIFICATION PlusWarmSpec
CONSTANTS
    s = s
    a = a
    b = b
    d = d
    p = p
    q = q
    NoLine = NoLine
    Node = {s, a, b, d}
    Packet = {p}
    Origin <- OnePacket
    SourceNodes = {s}
    DestId <- ToD
    InRange <- DiamondRange
    Dist <- DiamondDist
    DistToDest <- DiamondTo
    LineDist <- DiamondLines
    NbUpdateLimit = 1
    Lossy = FALSE
CHECK_DEADLOCK FALSE
INVARIANTS
    StuckIsGenuine
    LineChoiceIsLoop
