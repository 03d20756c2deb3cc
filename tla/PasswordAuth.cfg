SPECIFICATION FairSpec
CONSTANTS
    Requests = {r1, r2, r3}
    Nobody = Nobody
    Passwords = {p1, p2}
    InitialPassword = p1
    Calls = {"login", "change", "request", "complete", "revokeAll", "logout"}
    MaxSessions = 2
    MaxSuspensions = 1
INVARIANTS
    TypeOK
    UnrevokedMatchCredential
    TokenUsedOnce
    ConcurrentLimit
    LoginNeverDeadlocks
PROPERTIES
    
    ImplementsAuthority
    EveryRequestEnds
CHECK_DEADLOCK FALSE
