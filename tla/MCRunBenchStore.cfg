SPECIFICATION Spec
CONSTANTS
    p1 = p1
    p2 = p2
    p3 = p3
    s1 = s1
    s2 = s2
    f = f
    g = g
    h = h
    v0 = v0
    v1 = v1
    v2 = v2
    Project = {p1, p2, p3}
    Wanted = {p1, p2, p3}
    HasOld = {p1, p2}
    Sample = {s1, s2}
    SamplesOf <- MCSamplesOf
    Caller = Caller
    OldModule <- MCOldModule
    ModuleOf <- MCModuleOf
    Probe = Probe
    Defined = {f, h}
    Report <- MCReport
    OldReport <- MCOldReport
    Func = {f, g, h}
    Calls <- MCCalls
    NoSeg = NoSeg
    NoFile = NoFile
    None = None
PROPERTY OkCoversChange
