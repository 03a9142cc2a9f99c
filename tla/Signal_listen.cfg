CONSTANTS
    h1 = h1
    h2 = h2
    once1 = once1
    s1 = s1
    s2 = s2
    Handler <- TwoHandlers
    Once <- OnceHandlers
    Sig <- Signals
    NoSig = NoSig
    MaxDepth = 2
    MaxOps = 1
    MaxTwice = 1
SPECIFICATION Spec
SYMMETRY Symmetry
INVARIANTS
    HandlersCounted
    OnceStopped
    SignalListened
PROPERTIES
    StopIsExact
