CONSTANTS
    o1 = o1
    o2 = o2
    o3 = o3
    Obj <- ThreeObj
    NoObj = NoObj
    MaxMembers = 2
    MaxExt = 1
    MaxWeak = 0
    Dtors = {FALSE}
    MaxDtorOps = 0
    Reenters = FALSE
    UsesScheduled = FALSE
SPECIFICATION Spec
SYMMETRY ThreeSym
INVARIANTS
    CollectsOnlyGarbage
    RootsOwnTheirReferrers
