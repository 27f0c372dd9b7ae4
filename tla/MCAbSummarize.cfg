SPECIFICATION Spec
CONSTANTS
    p1 = p1
    p2 = p2
    s1 = s1
    s2 = s2
    Project = {p1, p2}
    SamplesOf <- MCSamplesOf
    Old = Old
    StoreMs = {2}
    IncMs <- MCIncMs
    Order <- MCOrder
    MaxBare = 3
CHECK_DEADLOCK FALSE
INVARIANTS TypeOK SummaryNeedsMain TotalsAreSums DominanceShows
