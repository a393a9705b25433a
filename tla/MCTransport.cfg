SPECIFICATION FairSpec
CONSTANTS
    Poster = {t1, t2}
    Urgent <- MCUrgent
    MaxPosts = 2
    MaxConns = 2
    MaxFaults = 1
INVARIANTS
    TransportInv
    OKIsAccounted
    OrderOfOneThread
PROPERTIES
    OKIsDelivered
CHECK_DEADLOCK FALSE
