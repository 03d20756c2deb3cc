SPECIFICATION Spec
CONSTANTS
    Requests = {r1, r2, r3}
    Nobody = Nobody
    Passwords = {p1}
    InitialPassword = p1
    Calls = {"request"}
    MaxSessions = 1
    MaxSuspensions = 0
SYMMETRY Interchangeable
INVARIANTS
    OneUnusedToken
CHECK_DEADLOCK FALSE
