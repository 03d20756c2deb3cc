SPECIFICATION Spec
CONSTANTS
    Ids = {i1}
    Permissions = {p1}
    BigintMax = 1000
    Requests = {r1, r2}
    m1 = m1
    m2 = m2
    Memberships = {m1, m2}
    None = None
    User = user
    Session = session
    Permission = p1
    Headers <- Deviating
    MaxChanges = 1
    Names = {n1, n2}
    Address = address
    States = {s1, s2, s3}
    Limit <- One
    Window <- Lengths
    Lifetime = 1
    MaxTime = 1
INVARIANTS
    EveryDenialLeavesATrace
CHECK_DEADLOCK FALSE
