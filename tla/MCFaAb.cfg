SPECIFICATION Spec
CONSTANTS
    p1 = p1
    p2 = p2
    s1 = s1
    s2 = s2
    Project = {p1, p2}
    SamplesOf <- MCSamplesOf
    StoreId = {old, new}
    Unset = Unset
    NoDir = NoDir
CHECK_DEADLOCK FALSE
INVARIANT EveryPrMeasured
