\* trunc(2 * 60%) = 1, so the pool grows when a single object is left; seven
\* addresses allow up to five enlargements with increments of one and two.
SPECIFICATION Spec
CONSTANTS
    Objects <- SevenObjects
    InitialCapacity = 2
    ThresholdPct = 60
    Increments = {1, 2}
    GrowthMode = "OPM_GROW_AND_SHRINK"
INVARIANTS
    IInv
    IdlePoolIsInitialSize
PROPERTIES
    ShrinkExactlyAtThreshold
