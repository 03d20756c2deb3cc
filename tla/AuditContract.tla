--------------------------- MODULE AuditContract ---------------------------
(***************************************************************************)
(* What a security event may look like, written twice in the code: once as *)
(* SecurityAuditEvent._validate over the Python catalogues, and once as    *)
(* the CHECK expressions frozen in migration 0014, which the insert        *)
(* trigger evaluates.                                                      *)
(*                                                                         *)
(* An optional column is a set with at most one member, so that IS NULL is *)
(* emptiness.  A digest is known by its length.                            *)
(***************************************************************************)
EXTENDS Integers

CONSTANTS
    Ids,         \* identifiers of users, sessions, memberships and roles
    Permissions, \* PERMISSION_CATALOG, in Python and in the migration
    BigintMax    \* 2^63 - 1

ASSUME BigintAssumption == BigintMax \in Nat /\ BigintMax >= 1000

Null == {}
Given(column) == column # Null
Maybe(S) == {Null} \cup {{x} : x \in S}

Results == {"success", "failure", "denied"}

Policy(result, reasons) == [result |-> result, reasons |-> Maybe(reasons)]

SECURITY_EVENT_POLICIES ==
    [login_success            |-> Policy("success", {}),
     login_failure            |-> Policy("failure", {"invalid_credentials", "dependency_unavailable"}),
     logout                   |-> Policy("success", {"logout"}),
     session_revoked          |-> Policy("success", {"concurrent_limit", "logout", "revoke_all",
                                                     "password_reset"}),
     all_sessions_revoked     |-> Policy("success", {"revoke_all", "password_reset"}),
     password_changed         |-> Policy("success", {"password_reset"}),
     password_reset_requested |-> Policy("success", {}),
     password_reset_completed |-> Policy("success", {"password_reset"}),
     membership_denied        |-> Policy("denied", {"membership_unavailable", "dependency_unavailable"}),
     tenant_switch            |-> Policy("success", {}),
     throttling_triggered     |-> Policy("denied", {"csrf_bootstrap", "login_username", "login_ip",
                                                    "login_ip_username", "reset_username", "reset_ip"}),
     authorization_denied     |-> Policy("denied", {"permission_denied", "membership_unavailable",
                                                    "dependency_unavailable"}),
     csrf_rejected            |-> Policy("denied", {"csrf_missing", "csrf_invalid", "csrf_stale"}),
     origin_rejected          |-> Policy("denied", {"origin_denied"}),
     role_created             |-> Policy("success", {}),
     role_updated             |-> Policy("success", {}),
     role_disabled            |-> Policy("success", {}),
     role_permission_assigned |-> Policy("success", {}),
     role_permission_removed  |-> Policy("success", {}),
     membership_role_assigned |-> Policy("success", {}),
     membership_role_removed  |-> Policy("success", {}),
     security_events_pruned   |-> Policy("success", {"retention_expired"})]

EventTypes == DOMAIN SECURITY_EVENT_POLICIES

Reasons ==
    {"invalid_credentials", "membership_unavailable", "permission_denied", "csrf_missing",
     "csrf_invalid", "csrf_stale", "origin_denied", "csrf_bootstrap", "concurrent_limit",
     "logout", "revoke_all", "password_reset", "retention_expired", "dependency_unavailable",
     "login_username", "login_ip", "login_ip_username", "reset_username", "reset_ip"}

SmallintMax == 32767

SubjectKinds == {"login_username", "login_ip", "reset_username", "reset_ip"}

ROLE_PERMISSION_EVENT_TYPES == {"role_permission_assigned", "role_permission_removed"}
MEMBERSHIP_ROLE_EVENT_TYPES == {"membership_role_assigned", "membership_role_removed"}
ROLE_EVENT_TYPES ==
    {"role_created", "role_updated", "role_disabled"}
        \cup ROLE_PERMISSION_EVENT_TYPES \cup MEMBERSHIP_ROLE_EVENT_TYPES

(* SecurityAuditEvent with every optional argument left at its default.    *)
SecurityAuditEvent(type, result) ==
    [type |-> type, result |-> result, reason |-> Null, user |-> Null, session |-> Null,
     membership |-> Null, role |-> Null, target |-> Null, permission |-> Null,
     digest |-> Null, kind |-> Null, key |-> Null, count |-> Null]

-----------------------------------------------------------------------------
(* SecurityAuditEvent._validate                                            *)

Identities(e) == {e.user, e.session, e.membership, e.role, e.target}
HasSubject(e) == Given(e.digest) \/ Given(e.kind) \/ Given(e.key)

ValidPolicy(e) ==
    /\ e.type \in EventTypes
    /\ e.result = SECURITY_EVENT_POLICIES[e.type].result
    /\ e.reason \in SECURITY_EVENT_POLICIES[e.type].reasons

(* Mutant of ValidIdentity: a membership may be named without its user.    *)
MembershipAlone(e) ==
    /\ Given(e.session) => Given(e.user)
    /\ e.type \in ROLE_EVENT_TYPES \cup {"tenant_switch"} =>
          Given(e.user) /\ Given(e.session) /\ Given(e.membership)

ValidIdentity(e) ==
    /\ ~Given(e.user) => ~Given(e.session) /\ ~Given(e.membership)
    /\ e.type \in ROLE_EVENT_TYPES \cup {"tenant_switch"} =>
          Given(e.user) /\ Given(e.session) /\ Given(e.membership)

ValidRole(e) ==
    /\ e.type \in ROLE_EVENT_TYPES <=> Given(e.role)
    /\ e.type \in MEMBERSHIP_ROLE_EVENT_TYPES <=> Given(e.target)

ValidPermission(e) ==
    IF Given(e.permission)
    THEN /\ e.permission \subseteq Permissions
         /\ e.type \in ROLE_PERMISSION_EVENT_TYPES \cup {"authorization_denied"}
    ELSE e.type \notin ROLE_PERMISSION_EVENT_TYPES

ValidSubject(e) ==
    HasSubject(e) =>
        /\ e.digest = {32}
        /\ Given(e.kind) /\ e.kind \subseteq SubjectKinds
        /\ Given(e.key) /\ e.key \subseteq 1..SmallintMax

ValidCount(e) ==
    IF e.type = "security_events_pruned"
    THEN /\ Given(e.count) /\ e.count \subseteq 0..BigintMax
         /\ Identities(e) = {Null} /\ ~HasSubject(e)
    ELSE ~Given(e.count)

Validate(e) ==
    /\ ValidPolicy(e) /\ ValidIdentity(e) /\ ValidRole(e)
    /\ ValidPermission(e) /\ ValidSubject(e) /\ ValidCount(e)

-----------------------------------------------------------------------------
(* AUDIT_CHECKS of the migration, by the names of the constraints.         *)

event_contract(e) ==
    \/ /\ e.type \in {"login_success", "password_reset_requested", "tenant_switch",
                      "role_created", "role_updated", "role_disabled",
                      "role_permission_assigned", "role_permission_removed",
                      "membership_role_assigned", "membership_role_removed"}
       /\ e.result = "success" /\ e.reason = Null
    \/ /\ e.type = "login_failure" /\ e.result = "failure"
       /\ e.reason \subseteq {"dependency_unavailable", "invalid_credentials"}
    \/ e.type = "logout" /\ e.result = "success" /\ e.reason \subseteq {"logout"}
    \/ /\ e.type = "session_revoked" /\ e.result = "success"
       /\ e.reason \subseteq {"concurrent_limit", "logout", "password_reset", "revoke_all"}
    \/ /\ e.type = "all_sessions_revoked" /\ e.result = "success"
       /\ e.reason \subseteq {"password_reset", "revoke_all"}
    \/ /\ e.type \in {"password_changed", "password_reset_completed"}
       /\ e.result = "success" /\ e.reason \subseteq {"password_reset"}
    \/ /\ e.type = "membership_denied" /\ e.result = "denied"
       /\ e.reason \subseteq {"dependency_unavailable", "membership_unavailable"}
    \/ /\ e.type = "throttling_triggered" /\ e.result = "denied"
       /\ e.reason \subseteq {"csrf_bootstrap", "login_ip", "login_ip_username",
                              "login_username", "reset_ip", "reset_username"}
    \/ /\ e.type = "authorization_denied" /\ e.result = "denied"
       /\ e.reason \subseteq {"dependency_unavailable", "membership_unavailable",
                              "permission_denied"}
    \/ /\ e.type = "csrf_rejected" /\ e.result = "denied"
       /\ e.reason \subseteq {"csrf_invalid", "csrf_missing", "csrf_stale"}
    \/ e.type = "origin_rejected" /\ e.result = "denied" /\ e.reason \subseteq {"origin_denied"}
    \/ /\ e.type = "security_events_pruned" /\ e.result = "success"
       /\ e.reason \subseteq {"retention_expired"}

identity_shape(e) ==
    /\ Given(e.user) \/ (~Given(e.session) /\ ~Given(e.membership))
    /\ \/ e.type \notin {"tenant_switch", "membership_role_assigned", "membership_role_removed",
                         "role_created", "role_disabled", "role_permission_assigned",
                         "role_permission_removed", "role_updated"}
       \/ Given(e.user) /\ Given(e.session) /\ Given(e.membership)

role_shape(e) ==
    (e.type \in {"membership_role_assigned", "membership_role_removed", "role_created",
                 "role_disabled", "role_permission_assigned", "role_permission_removed",
                 "role_updated"}) = Given(e.role)

target_membership_shape(e) ==
    (e.type \in {"membership_role_assigned", "membership_role_removed"}) = Given(e.target)

permission_catalog(e) == ~Given(e.permission) \/ e.permission \subseteq Permissions

permission_shape(e) ==
    /\ \/ e.type \notin {"role_permission_assigned", "role_permission_removed"}
       \/ Given(e.permission)
    /\ \/ ~Given(e.permission)
       \/ e.type \in {"authorization_denied", "role_permission_assigned",
                      "role_permission_removed"}

subject_shape(e) ==
    \/ ~Given(e.digest) /\ ~Given(e.kind) /\ ~Given(e.key)
    \/ /\ e.digest = {32}
       /\ Given(e.kind)
       /\ e.kind \subseteq {"login_ip", "login_username", "reset_ip", "reset_username"}
       /\ Given(e.key) /\ e.key \subseteq 1..SmallintMax

affected_count_shape(e) ==
    \/ e.type # "security_events_pruned" /\ ~Given(e.count)
    \/ /\ e.type = "security_events_pruned" /\ Given(e.count)
       /\ \A n \in e.count : n >= 0
       /\ ~Given(e.user) /\ ~Given(e.session) /\ ~Given(e.membership)
       /\ ~Given(e.role) /\ ~Given(e.target)
       /\ ~Given(e.digest) /\ ~Given(e.kind) /\ ~Given(e.key)

(* The casts of append_security_event's arguments to smallint and bigint.  *)
Castable(e) ==
    /\ e.key \subseteq -SmallintMax - 1 .. SmallintMax
    /\ \A n \in e.count : -BigintMax - 1 <= n /\ n <= BigintMax

EventShape(e) ==
    /\ Castable(e)
    /\ event_contract(e) /\ identity_shape(e) /\ role_shape(e)
    /\ target_membership_shape(e) /\ permission_catalog(e) /\ permission_shape(e)
    /\ subject_shape(e) /\ affected_count_shape(e)
=============================================================================
