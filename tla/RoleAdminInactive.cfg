SPECIFICATION Spec
CONSTANTS
    Requests = {q1, q2}
    Members = {a, b}
    Actors = {a}
    Roles = {admins}
    AdminRole = admins
    Permissions = {rolesManage, membershipsManage}
    RolesManage = rolesManage
    MembershipsManage = membershipsManage
    Kinds = {"disable_role", "assign_permission", "assign_role"}
    None = none
    MaxVersion = 1
CHECK_DEADLOCK FALSE
PROPERTIES
    DisabledRoleGainsNothing
