SPECIFICATION Spec
CONSTANTS
    Objects = {o1, o2, o3, o4, o5}
    Null = Null
    InitialCapacity = 2
    ThresholdPct = 60
    Increments = {1, 2}
    GrowthMode = "OPM_GROW_AND_SHRINK"
PROPERTIES
    ImplementsObjectPool
