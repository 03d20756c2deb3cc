SPECIFICATION Spec
CONSTANTS
    Tabs = {t1, t2}
    u1 = u1
    u2 = u2
    Users = {u1, u2}
    Memberships = {m1, m2}
    OwnerOf <- AllOfFirst
    None = None
    Calls = {c1, c2, c3}
    Logins = {c1}
SYMMETRY Interchangeable
INVARIANTS
    TypeOK
    ActsAsShown
    NoReturn
CHECK_DEADLOCK FALSE
