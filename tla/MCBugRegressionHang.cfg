SPECIFICATION HarnessFairSpec
CONSTANTS
    k1 = k1
    k2 = k2
    N = 3
    DirOf <- MCDirOf
    ProjectOf <- MCProjectOf
    Expected <- MCExpected
    HasBc = {1, 2}
    JobsChoices = {1, 2}
    Report <- MCReport
    OldReport <- MCOldReport
    NoLine = NoLine
    NoFile = NoFile
    Corrupt = Corrupt
PROPERTY TimeLimitKept
