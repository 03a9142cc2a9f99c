CONSTANTS
    Names = {n1, n2}
    Peers = {p1, p2}
    None = None
    Serials = {s1, s2}
    MaxWire = 2
    MaxDrift = 1
    HasInterface = TRUE
    WhileReading = FALSE
SYMMETRY Interchangeable
SPECIFICATION Spec
CHECK_DEADLOCK FALSE
INVARIANTS
    WatchedWhileAwaited
    OwnerInSync
    SignalsRouted
