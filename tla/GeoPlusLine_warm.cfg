SPECIFICATION PlusWarmSpec
CONSTANTS
    s = s
    a = a
    b = b
    d = d
    p = p
    q = q
    NoLine = NoLine
    Node = {s, a, b, d}
    Packet = {p}
    Origin <- OnePacket
    SourceNodes = {s}
    DestId <- ToD
    InRange <- LineRange
    Dist <- LineDistances
    DistToDest <- LineTo1
    LineDist <- LineLines
    NbUpdateLimit = 1
    Lossy = FALSE
CHECK_DEADLOCK FALSE
PROPERTIES
    PlusDelivers
