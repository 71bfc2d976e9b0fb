SPECIFICATION RoundSpec
CONSTANTS
    a = a
    b = b
    d = d
    e = e
    Node = {a, b, d, e}
    Packet = {}
    DestId <- NoPacket
    DistToDest <- NoPacket
    InRange <- RingRange
    Angle <- RingAngle
    Gap <- RingGap
    RouterLimit = 5
    NbUpdateLimit = 1
    MaxStarts = 1
    MaxRouters = 9
    Lossy = FALSE
CHECK_DEADLOCK FALSE
INVARIANTS
    RoutersAreWalk
    NoRepeats
    RecognisedInTime
    OrderIsLoop
PROPERTIES
    BoundaryIsRecognised
