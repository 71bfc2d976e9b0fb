SPECIFICATION Spec
CONSTANTS
    a = a
    b = b
    p = p
    q = q
    r = r
    w = w
    Node = {a, b}
    Packet = {p, q, r, w}
    Broadcast = Broadcast
    NoHost = NoHost
    Src <- Source
    Dest <- Destination
    Order <- InTurn
    QueueLength = 1
    MaxBackoffs = 0
    MaxRetries = 0
INVARIANT
    RetransmissionsAsDocumented
CHECK_DEADLOCK FALSE
