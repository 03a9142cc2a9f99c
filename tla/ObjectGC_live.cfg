CONSTANTS
    o1 = o1
    o2 = o2
    o3 = o3
    Obj <- TwoObj
    NoObj = NoObj
    MaxMembers = 1
    MaxExt = 1
    MaxWeak = 1
    Dtors = {TRUE, FALSE}
    MaxDtorOps = 1
    Reenters = FALSE
    UsesScheduled = FALSE
SPECIFICATION LoopSpec
PROPERTIES
    GarbageReclaimed
