CONSTANTS
    o1 = o1
    o2 = o2
    o3 = o3
    Obj <- TwoObj
    NoObj = NoObj
    MaxMembers = 2
    MaxExt = 2
    MaxWeak = 1
    Dtors = {TRUE, FALSE}
    MaxDtorOps = 2
    Reenters = FALSE
    UsesScheduled = FALSE
SPECIFICATION Spec
SYMMETRY TwoSym
INVARIANTS
    RefCountExact
    WeakCountExact
    DestroyedHoldsNothing
    AssertionsHold
    CollectsOnlyGarbage
