SPECIFICATION Spec
CONSTANTS
    Requests = {q1, q2}
    Members = {a, b}
    Actors = {a}
    Roles = {admins, clerks}
    AdminRole = admins
    Permissions = {rolesManage, membershipsManage}
    RolesManage = rolesManage
    MembershipsManage = membershipsManage
    Kinds = {"create_role", "update_role", "disable_role", "assign_permission", "remove_permission", "assign_role", "remove_role"}
    None = none
    MaxVersion = 3
CHECK_DEADLOCK FALSE
SYMMETRY RequestSymmetry
INVARIANTS
    TypeOK
    AuditExplainsState
PROPERTIES
    CommitsInGoodStanding
    NoLostRoleUpdate
