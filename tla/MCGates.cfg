SPECIFICATION FairSpec
CONSTANTS
    TableOf <- MCTableOf
    NameInside <- MCNameInside
    Robin = "robin_map_stat_name"
    Stat <- MCStat
    Largest <- MCLargest
    MaxExtra = 1
    None = None
INVARIANTS TypeOK ExitIsVerdict RejectsUnfixed
PROPERTY EndsInTime
