SPECIFICATION Spec
CONSTANTS
    n1 = n1
    n2 = n2
    Pr = {n1, n2}
    Recorded = {n1}
    Round2 = {n1}
    Stray = {n1}
    Prs <- MCPrs
    NoFile = NoFile
    Partial = Partial
    Mixed = Mixed
    NoPr = NoPr
    MaxTimes = 2
    MaxPin = 2
    MaxKills = 1
INVARIANTS TypeOK OwnSourcesOnly OldIsPinned CountsAreRight
PROPERTY WholeStays
