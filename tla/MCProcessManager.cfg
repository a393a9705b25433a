SPECIFICATION FairSpec
CONSTANTS
    Proc = {p1, p2}
INVARIANTS
    IInv
    DeletedHandlerIsNotUsed
PROPERTIES
    DeadAreRestarted
    ShutdownEnds
CHECK_DEADLOCK FALSE
