SPECIFICATION Spec
CONSTANTS
    t1 = t1
    t2 = t2
    u1 = u1
    u2 = u2
    k1 = k1
    v1 = v1
    v2 = v2
    Tabs = {t1, t2}
    Users = {u1}
    Tenant = tenant
    UserOf <- OneUser
    Managers = {u1}
    Keys = {k1}
    Values = {v1, v2}
    BuiltIn <- AllFirst
    Scopes = {"user", "tenant"}
    Platform <- PlatformSecond
    MaxEdits = 3
    MaxReloads = 0
    MaxEvents = 0
SYMMETRY TabSymmetry
CHECK_DEADLOCK FALSE
INVARIANTS
    TypeOK
    ShownIsCoherent
PROPERTIES
    WriteReplacesWhatWasShown
