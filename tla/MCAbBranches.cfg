SPECIFICATION FairSpec
CONSTANTS
    p1 = p1
    p2 = p2
    s1 = s1
    s2 = s2
    Project = {p1, p2}
    Built = {p1}
    Sample = {s1, s2}
    SamplesOf <- MCSamplesOf
    Old = Old
    NoDir = NoDir
    None = None
    Runs = 2
    MaxKills = 1
INVARIANTS TypeOK OwnStorePristine CallState Accounted
PROPERTIES Terminates LogSpec
