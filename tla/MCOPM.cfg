\* A thread that has made its MaxCalls calls stops, so the system may stop.
SPECIFICATION OPMFairSpec
CONSTANTS
    Threads = {t1, t2}
    Types = {messageType, bufferType}
    CallerIds <- CallerIdsOfRun
    CallerIncrements = {0, 1}
    MaxCalls = 2
    NoThread = NoThread
INVARIANTS
    IdsNameTheirPools
    NoMorePoolsThanRivals
    SearchesAgree
PROPERTIES
    OnlyAbandonedMutexBlocks
CHECK_DEADLOCK FALSE
