SPECIFICATION LogFairSpec
CONSTANTS
    Producer = {a}
    Processor = lp
    NoQueue = none
    Keep = 3
    SizeLimit = 2
    CheckEvery = 1
    SemMax = 2
    MaxLogs = 6
    MaxEnds = 1
    MaxFailures = 1
INVARIANTS
    LogInv
    NewestAreKept
    LossesAreBounded
PROPERTIES
    LogsAreTaken
CHECK_DEADLOCK FALSE
