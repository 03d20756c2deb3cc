----------------------------- MODULE RoleAdmin ------------------------------
(***************************************************************************)
(* Role administration of one tenant: RoleAdministrationService behind the *)
(* require_permission dependency, over auth.roles, auth.role_permissions   *)
(* and auth.membership_roles, with the role-event intents of migration     *)
(* 0015.                                                                   *)
(*                                                                         *)
(* A request is used once and runs one operation.  The permission is       *)
(* decided in a transaction of its own; a second transaction reads its     *)
(* guards without locks, arms an intent under share locks on the actor's   *)
(* rows, changes one row, has that change attested by a trigger, writes    *)
(* the event or cancels the intent, and commits.  pc names the statement a *)
(* request is about to execute.  A transaction's writes appear at its      *)
(* commit, and the one row it writes is locked from the statement on.      *)
(***************************************************************************)
EXTENDS Naturals, FiniteSets

CONSTANTS
    Requests,            \* HTTP requests; each runs one operation
    Members,             \* memberships of the tenant, one user each
    Actors,              \* the members with a session that selects them
    Roles,               \* roles, known by their keys
    AdminRole,           \* the role provisioned with the tenant
    Permissions,         \* tenant.* permission identifiers
    RolesManage,         \* Permission.TENANT_ROLES_MANAGE
    MembershipsManage,   \* Permission.TENANT_MEMBERSHIPS_MANAGE
    Kinds,               \* the operations in use
    None,                \* no row, no argument
    MaxVersion           \* bound: versions of one membership

RoleKinds == {"create_role", "update_role", "disable_role"}
PermissionKinds == {"assign_permission", "remove_permission"}
MemberKinds == {"assign_role", "remove_role"}
InsertKinds == {"create_role", "assign_permission", "assign_role"}

ASSUME FiniteAssumption == IsFiniteSet(Requests)
ASSUME KindsAssumption == Kinds \subseteq RoleKinds \cup PermissionKinds \cup MemberKinds
ASSUME NamesAssumption == /\ Actors \subseteq Members
                          /\ AdminRole \in Roles
                          /\ {RolesManage, MembershipsManage} \subseteq Permissions
                          /\ None \notin Members \cup Permissions
ASSUME BoundAssumption == MaxVersion \in Nat \ {0}

VARIABLES
    roles,     \* auth.roles: status and version
    links,     \* auth.role_permissions and auth.membership_roles
    members,   \* session, user and membership of each member
    events,    \* requests whose security event is committed
    pc,        \* the statement each request is about to execute
    work,      \* what each request was asked to do, and its grant
    intent,    \* the request's row of auth.role_security_event_intents
    shared,    \* rows each request has locked FOR SHARE
    row        \* the row each request has written

store == <<roles, links, events>>
vars == <<store, members, pc, work, intent, shared, row>>

-----------------------------------------------------------------------------
(* A link is a row of one of the two link tables: the permission or the    *)
(* membership that a role is tied to.                                      *)
PermissionLink(r, p) == <<"role_permissions", r, p>>
MemberLink(m, r) == <<"membership_roles", r, m>>
Links == {PermissionLink(r, p) : r \in Roles, p \in Permissions}
            \cup {MemberLink(m, r) : m \in Members, r \in Roles}

(* The row an operation writes; a role is found by its key.                *)
Row(w) == CASE w.kind \in RoleKinds       -> <<"roles", w.role, None>>
            [] w.kind \in PermissionKinds -> PermissionLink(w.role, w.arg)
            [] w.kind \in MemberKinds     -> MemberLink(w.arg, w.role)

Rows == {<<"roles", r, None>> : r \in Roles} \cup Links

ASSUME RowAssumption == None \notin Rows

NoWork == [kind |-> None, role |-> None, arg |-> None, expected |-> 0,
           actor |-> None, version |-> 0]

(* A tenant starts with one administration role, held by every actor.      *)
Init ==
    /\ roles = [r \in Roles |-> IF r = AdminRole
                                THEN [status |-> "active", version |-> 1]
                                ELSE [status |-> "absent", version |-> 0]]
    /\ links = {PermissionLink(AdminRole, p) : p \in {RolesManage, MembershipsManage}}
                  \cup {MemberLink(m, AdminRole) : m \in Actors}
    /\ members = [m \in Members |->
                     [session |-> IF m \in Actors THEN "live" ELSE "revoked",
                      selected |-> 1, user |-> TRUE, active |-> TRUE, version |-> 1]]
    /\ events = {}
    /\ pc = [q \in Requests |-> "idle"]
    /\ work = [q \in Requests |-> NoWork]
    /\ intent = [q \in Requests |-> "none"]
    /\ shared = [q \in Requests |-> {}]
    /\ row = [q \in Requests |-> None]

-----------------------------------------------------------------------------
(* The session, the user and the membership of m are in force.             *)
Trusted(m) ==
    /\ members[m].session = "live"
    /\ members[m].user
    /\ members[m].active
    /\ members[m].selected = members[m].version

(* The live lookup behind every decision: an active role of the membership *)
(* that carries the permission.                                            *)
HasPermission(m, p) ==
    /\ Trusted(m)
    /\ \E r \in Roles : /\ MemberLink(m, r) \in links
                        /\ roles[r].status = "active"
                        /\ PermissionLink(r, p) \in links

Needed(kind) == IF kind \in MemberKinds THEN MembershipsManage ELSE RolesManage

Go(q, label) == pc' = [pc EXCEPT ![q] = label]

EndKeepingRow(q, outcome) ==
    /\ Go(q, outcome)
    /\ intent' = [intent EXCEPT ![q] = "none"]
    /\ shared' = [shared EXCEPT ![q] = {}]
    /\ row' = row

(* The transaction ends, in commit or in rollback: its locks are released  *)
(* and its intent is gone.                                                 *)
End(q, outcome) ==
    /\ Go(q, outcome)
    /\ intent' = [intent EXCEPT ![q] = "none"]
    /\ shared' = [shared EXCEPT ![q] = {}]
    /\ row' = [row EXCEPT ![q] = None]

Arguments(kind) == CASE kind \in RoleKinds       -> {None}
                     [] kind \in PermissionKinds -> Permissions
                     [] kind \in MemberKinds     -> Members

(* Versions a client may have seen; an operation without one carries zero. *)
Expectations(kind, r) ==
    IF kind \in {"update_role", "disable_role"} THEN 1..roles[r].version ELSE {0}

FirstStatement(kind) == IF kind \in RoleKinds THEN "prepare" ELSE "role"

(* require_permission: the trusted access and the decision are two         *)
(* transactions, but the second looks the first one's facts up again.      *)
Authorize(q, m) ==
    /\ pc[q] = "idle"
    /\ \E kind \in Kinds, r \in Roles :
         \E arg \in Arguments(kind), expected \in Expectations(kind, r) :
            /\ work' = [work EXCEPT ![q] =
                          [kind |-> kind, role |-> r, arg |-> arg, expected |-> expected,
                           actor |-> m, version |-> members[m].version]]
            /\ IF HasPermission(m, Needed(kind))
               THEN Go(q, FirstStatement(kind))
               ELSE Go(q, "refused")
    /\ UNCHANGED <<store, members, intent, shared, row>>

Refuse(q) == End(q, "refused") /\ UNCHANGED <<store, members, work>>

(* _require_role of the removals, _require_active_role of the assignments; *)
(* both read the role without a lock.                                      *)
Admits(w) ==
    IF w.kind \in InsertKinds THEN roles[w.role].status = "active"
                              ELSE roles[w.role].status # "absent"

RequireRole(q) ==
    /\ pc[q] = "role"
    /\ IF Admits(work[q])
       THEN /\ Go(q, IF work[q].kind \in MemberKinds THEN "target" ELSE "prepare")
            /\ UNCHANGED <<store, members, work, intent, shared, row>>
       ELSE Refuse(q)

(* auth.is_active_membership_in_tenant, also without a lock.               *)
RequireTarget(q) ==
    /\ pc[q] = "target"
    /\ LET m == members[work[q].arg]
       IN  IF m.active /\ m.user
           THEN Go(q, "prepare") /\ UNCHANGED <<store, members, work, intent, shared, row>>
           ELSE Refuse(q)

Targets(w) == IF w.kind \in MemberKinds THEN {w.arg} ELSE {}

ShareNothing(w) == {}

ShareLocks(w) ==
    {<<"user", w.actor>>, <<"session", w.actor>>, <<"membership", w.actor>>}
       \cup {<<"membership", m>> : m \in Targets(w)}

(* auth.prepare_role_security_event: the actor is checked once more, now   *)
(* under share locks, and the intent is inserted.                          *)
Prepare(q) ==
    /\ pc[q] = "prepare"
    /\ IF /\ Trusted(work[q].actor)
          /\ members[work[q].actor].version = work[q].version
          /\ \A m \in Targets(work[q]) : members[m].active
       THEN /\ shared' = [shared EXCEPT ![q] = ShareLocks(work[q])]
            /\ intent' = [intent EXCEPT ![q] = "armed"]
            /\ Go(q, "change")
            /\ UNCHANGED <<store, members, work, row>>
       ELSE Refuse(q)

HitsAnyVersion(w) ==
    IF w.kind \in {"update_role", "disable_role"}
    THEN roles[w.role].status # "absent"
    ELSE IF w.kind = "create_role" THEN roles[w.role].status = "absent"
    ELSE IF w.kind \in InsertKinds THEN Row(w) \notin links ELSE Row(w) \in links

(* Whether the statement finds its row: the conflict target of an INSERT,  *)
(* the WHERE clause of an UPDATE or DELETE, over the committed rows.       *)
Hits(w) ==
    CASE w.kind = "create_role"  -> roles[w.role].status = "absent"
      [] w.kind = "update_role"  -> roles[w.role].version = w.expected
      [] w.kind = "disable_role" -> /\ roles[w.role].version = w.expected
                                    /\ roles[w.role].status = "active"
      [] w.kind \in {"assign_permission", "assign_role"} -> Row(w) \notin links
      [] w.kind \in {"remove_permission", "remove_role"} -> Row(w) \in links

NeverWaits(q) == FALSE

(* An INSERT meets an uncommitted row of its key in the unique index; an   *)
(* UPDATE or DELETE waits only for a row that its WHERE clause accepts,    *)
(* and looks at the row again after the wait.                              *)
Waits(q) ==
    /\ Hits(work[q]) \/ work[q].kind \in InsertKinds
    /\ \E o \in Requests \ {q} : row[o] = Row(work[q])

(* The change itself, with the trigger that attests it; a role statement   *)
(* that finds no row raises, a link statement reports changed = false.     *)
Change(q) ==
    /\ pc[q] = "change"
    /\ ~Waits(q)
    /\ \/ /\ Hits(work[q])
          /\ row' = [row EXCEPT ![q] = Row(work[q])]
          /\ intent' = [intent EXCEPT ![q] = "attested"]
          /\ Go(q, "record")
          /\ UNCHANGED <<store, members, work, shared>>
       \/ /\ ~Hits(work[q])
          /\ work[q].kind \notin RoleKinds
          /\ Go(q, "record")
          /\ UNCHANGED <<store, members, work, intent, shared, row>>
       \/ /\ ~Hits(work[q])
          /\ work[q].kind \in RoleKinds
          /\ Refuse(q)

(* write(event) consumes an attested intent, cancel_role an armed one.     *)
Outcome(q) == IF intent[q] = "attested" THEN "written" ELSE "cancelled"

Record(q) ==
    /\ pc[q] = "record"
    /\ intent' = [intent EXCEPT ![q] = Outcome(q)]
    /\ Go(q, "commit")
    /\ UNCHANGED <<store, members, work, shared, row>>

ApplyRole(w) ==
    [roles EXCEPT ![w.role] =
        [status |-> CASE w.kind = "create_role"  -> "active"
                      [] w.kind = "update_role"  -> @.status
                      [] w.kind = "disable_role" -> "inactive",
         version |-> @.version + 1]]

ApplyLink(w) ==
    IF w.kind \in InsertKinds THEN links \cup {Row(w)} ELSE links \ {Row(w)}

(* The deferred trigger lets no transaction commit with an intent left.    *)
Commit(q) ==
    /\ pc[q] = "commit"
    /\ intent[q] \in {"written", "cancelled"}
    /\ roles' = IF row[q] # None /\ work[q].kind \in RoleKinds
                THEN ApplyRole(work[q]) ELSE roles
    /\ links' = IF row[q] # None /\ work[q].kind \notin RoleKinds
                THEN ApplyLink(work[q]) ELSE links
    /\ events' = IF intent[q] = "written" THEN events \cup {q} ELSE events
    /\ End(q, "done")
    /\ UNCHANGED <<members, work>>

Finished == {"idle", "refused", "done"}

(* The connection is lost, or the process dies: PostgreSQL rolls back.     *)
Abort(q) == pc[q] \notin Finished /\ Refuse(q)

-----------------------------------------------------------------------------
(* What the rest of the system does to the rows this one only reads.  A    *)
(* writer waits for the share locks on its row; the clock does not.        *)
Writable(x) == \A q \in Requests : x \notin shared[q]

SetMember(m, value) ==
    /\ members' = [members EXCEPT ![m] = value]
    /\ UNCHANGED <<store, pc, work, intent, shared, row>>

(* Logout, revocation, or a switch to another tenant.                      *)
RevokeSession(m) ==
    /\ members[m].session # "revoked"
    /\ Writable(<<"session", m>>)
    /\ SetMember(m, [members[m] EXCEPT !.session = "revoked"])

ExpireSession(m) ==
    /\ members[m].session = "live"
    /\ SetMember(m, [members[m] EXCEPT !.session = "expired"])

(* The session selects its membership again, at the present version.       *)
Reselect(m) ==
    /\ members[m].session = "live"
    /\ members[m].active
    /\ members[m].selected # members[m].version
    /\ Writable(<<"session", m>>)
    /\ SetMember(m, [members[m] EXCEPT !.selected = members[m].version])

SuspendUser(m) ==
    /\ members[m].user
    /\ Writable(<<"user", m>>)
    /\ SetMember(m, [members[m] EXCEPT !.user = FALSE])

ChangeMembership(m) ==
    /\ members[m].version < MaxVersion
    /\ Writable(<<"membership", m>>)
    /\ SetMember(m, [members[m] EXCEPT !.active = ~@, !.version = @ + 1])

Step(q) == RequireRole(q) \/ RequireTarget(q) \/ Prepare(q) \/ Change(q) \/ Record(q) \/ Commit(q)

Environment(m) ==
    \/ RevokeSession(m) \/ ExpireSession(m) \/ Reselect(m)
    \/ SuspendUser(m) \/ ChangeMembership(m)

Next ==
    \/ \E q \in Requests : (\E m \in Actors : Authorize(q, m)) \/ Step(q) \/ Abort(q)
    \/ \E m \in Members : Environment(m)

Spec == Init /\ [][Next]_vars

-----------------------------------------------------------------------------
(* Types of the rows, and of the requests' variables: a request holds      *)
(* locks only inside its transaction.                                      *)
TypeOK ==
    /\ roles \in [Roles -> [status : {"absent", "active", "inactive"}, version : Nat]]
    /\ links \subseteq Links
    /\ members \in [Members -> [session : {"live", "expired", "revoked"}, selected : Nat,
                                user : BOOLEAN, active : BOOLEAN, version : Nat]]
    /\ events \subseteq Requests
    /\ \A q \in Requests :
         /\ pc[q] \in Finished \cup {"role", "target", "prepare", "change", "record", "commit"}
         /\ intent[q] \in {"none", "armed", "attested", "written", "cancelled"}
         /\ pc[q] \in Finished => intent[q] = "none" /\ shared[q] = {} /\ row[q] = None

Count(kind, r, arg) ==
    Cardinality({q \in events : /\ work[q].kind = kind
                                /\ work[q].role = r
                                /\ work[q].arg = arg})

Initially(link) ==
    IF \/ \E p \in {RolesManage, MembershipsManage} : link = PermissionLink(AdminRole, p)
       \/ \E m \in Actors : link = MemberLink(m, AdminRole)
    THEN 1 ELSE 0

(* The audit trail accounts for the tables, and for nothing else: every    *)
(* link there is was assigned once more often than it was removed, a       *)
(* role's version counts its events, and it is inactive iff one disabled   *)
(* it.  An idempotent assignment that changed nothing leaves no event, and *)
(* of two concurrent ones only the first leaves one.                       *)
AuditExplainsState ==
    /\ \A r \in Roles :
         /\ roles[r].version = (IF r = AdminRole THEN 1 ELSE 0)
                                + Count("create_role", r, None)
                                + Count("update_role", r, None)
                                + Count("disable_role", r, None)
         /\ Count("disable_role", r, None) = IF roles[r].status = "inactive" THEN 1 ELSE 0
         /\ \A p \in Permissions :
              Initially(PermissionLink(r, p)) + Count("assign_permission", r, p)
                = Count("remove_permission", r, p)
                    + (IF PermissionLink(r, p) \in links THEN 1 ELSE 0)
         /\ \A m \in Members :
              Initially(MemberLink(m, r)) + Count("assign_role", r, m)
                = Count("remove_role", r, m) + (IF MemberLink(m, r) \in links THEN 1 ELSE 0)

(* Nothing is changed in the name of somebody who has lost the standing to *)
(* change it: when a change commits, its actor's session is not revoked    *)
(* (it may have run out since the intent was armed), the user is not       *)
(* suspended, and the actor's membership is active and still the version   *)
(* that was authorised; a member who gains or loses a role is active.      *)
CommitsInGoodStanding ==
    [][\A q \in Requests :
          pc[q] = "commit" /\ pc'[q] = "done" /\ row[q] # None =>
             LET a == members[work[q].actor]
             IN  /\ a.session # "revoked" /\ a.user /\ a.active
                 /\ a.version = work[q].version
                 /\ \A m \in Targets(work[q]) : members[m].active]_vars

(* No role update is lost: a role's version moves only in a commit of a    *)
(* request that expected exactly the version it replaces, however long     *)
(* its statement waited for another writer.                                *)
NoLostRoleUpdate ==
    [][\A r \in Roles :
          roles[r].version > 0 /\ roles'[r] # roles[r] =>
             /\ roles'[r].version = roles[r].version + 1
             /\ \E q \in Requests : /\ pc[q] = "commit" /\ pc'[q] = "done"
                                    /\ work[q].role = r
                                    /\ work[q].expected = roles[r].version]_vars

(* "The server checks that the role and the membership are active": a      *)
(* disabled role gains no permission and no member.  The check reads the   *)
(* role without a lock, and the insert that follows does not conflict with *)
(* a disabling in between.                                                 *)
DisabledRoleGainsNothing ==
    [][\A link \in links' \ links : roles[link[2]].status = "active"]_vars
=============================================================================
