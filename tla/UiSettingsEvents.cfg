SPECIFICATION FairSpec
CONSTANTS
    t1 = t1
    t2 = t2
    u1 = u1
    u2 = u2
    k1 = k1
    v1 = v1
    v2 = v2
    Tabs = {t1, t2}
    Users = {u1, u2}
    Tenant = tenant
    UserOf <- TwoUsers
    Managers = {u1}
    Keys = {k1}
    Values = {v1}
    BuiltIn <- AllFirst
    Scopes = {"tenant"}
    Platform <- NoPatch
    MaxEdits = 1
    MaxReloads = 1
    MaxEvents = 1
CHECK_DEADLOCK FALSE
INVARIANTS
    NothingFromBeforeAnEvent
PROPERTIES
    EditsEnd
