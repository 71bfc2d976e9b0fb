SPECIFICATION FairSpec
CONSTANTS
    a = a
    b = b
    p = p
    q = q
    r = r
    w = w
    Node = {a, b}
    Packet = {p, q, r, w}
    Broadcast = Broadcast
    NoHost = NoHost
    Src <- Source
    Dest <- Destination
    Order <- InTurn
    QueueLength = 1
    MaxBackoffs = 1
    MaxRetries = 0
INVARIANTS
    TypeOK
    StateIsHardware
    QueueIsUnfinished
    DuplicateMeansTaken
    AckIsExpected
    AttemptsBounded
    LossPerTransmission
PROPERTIES
    EveryPacketEnds
    ImplementsMacService
CHECK_DEADLOCK FALSE
