CONSTANTS
    Objs = {o1}
    Refs = {r1, r2}
    Vals = {v1}
    Uds = {u1, u2, u3}
    None = None
    Slots = {s1, s2, s3}
    MaxNative = 1
    MaxCalls = 1
SYMMETRY Interchangeable
SPECIFICATION Spec
CHECK_DEADLOCK FALSE
INVARIANTS
    OneProxy
    ProxiesTracked
PROPERTIES
    OwnsOnce
