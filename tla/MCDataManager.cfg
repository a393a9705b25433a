\* A thread may keep its connection and call no more: the system may stop.
SPECIFICATION FairSpec
CONSTANTS
    t1 = t1
    t2 = t2
    c1 = c1
    h1 = h1
    h2 = h2
    h3 = h3
    set1 = set1
    Threads = {t1, t2}
    Sets = {set1}
    Connections = {c1}
    Handles = {h1, h2, h3}
    SetOf <- MCSetOf
    MaxFailures = 1
    None = None
INVARIANTS
    Lending
    SessionsAreSeparate
PROPERTIES
    CallsReturn
CHECK_DEADLOCK FALSE
