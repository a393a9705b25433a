\* With every message read, producers stop and readers wait: the system may stop.
SPECIFICATION FairSpec
CONSTANTS
    p1 = p1
    p2 = p2
    c1 = c1
    c2 = c2
    low1 = low1
    low2 = low2
    urgent = urgent
    Producers = {p1, p2}
    Consumers = {c1, c2}
    Messages = {low1, low2, urgent}
    Priority <- MCPriority
    QueueLimit = 2
    MaxDeactivations = 1
    None = None
INVARIANTS
    IInv
PROPERTIES
    ImplementsMailbox
    QueuedIsDelivered
CHECK_DEADLOCK FALSE
