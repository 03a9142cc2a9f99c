CONSTANTS
    InputSignals = {"new-device"}
    RandrSignals = {"output-change", "view-change"}
    ConnSignals = {"raw", "connection-error"}
    Outputs = {o1, o2}
    None = None
    MaxEvents = 2
    MaxChanges = 1
    DisconnectInHandler = FALSE
SPECIFICATION Spec
SYMMETRY Interchangeable
CHECK_DEADLOCK FALSE
INVARIANTS
    ReadWhileListened
PROPERTIES
    OutputsKept
    EventsReachListeners
