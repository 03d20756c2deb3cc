SPECIFICATION Spec
CONSTANTS
    Slots = {s1, s2}
    Workers = {w1, w2}
    Memberships = {m1, m2}
    None = None
    IdleTimeout = 2
    AbsoluteTimeout = 3
    LastSeenInterval = 1
    MaxSessions = 1
    MaxTime = 3
    MaxBearers = 3
    MaxVersion = 2
SYMMETRY Interchangeable
INVARIANTS
    TypeOK
    ExpiryPolicy
PROPERTIES
    NoResurrection
    RotationIsCompareAndSwap
CHECK_DEADLOCK FALSE
