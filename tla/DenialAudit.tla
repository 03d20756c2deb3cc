---------------------------- MODULE DenialAudit ----------------------------
(***************************************************************************)
(* A request to a route that requires a permission: the session is         *)
(* authenticated in one transaction, the request's headers are compared    *)
(* with the copy it read, the permission is looked up live in a second     *)
(* transaction, and a denial is recorded in a third, after the others have *)
(* ended.  Between them the session may be switched to another tenant or   *)
(* revoked, and memberships and grants may change.                         *)
(***************************************************************************)
EXTENDS AuditContract, FiniteSets

CONSTANTS
    Requests,     \* HTTP requests, of any kind
    Memberships,  \* the user's memberships
    None,         \* no membership
    User,         \* the user
    Session,      \* the user's session
    Permission,   \* the permission the route requires
    Headers,      \* what requests may present besides the cookie
    MaxChanges    \* bound: switches, revocations and changes of rights

ASSUME RequestAssumption ==
    /\ IsFiniteSet(Requests) /\ Memberships # {} /\ None \notin Memberships
    /\ Headers \subseteq [unsafe : BOOLEAN, expected : Memberships \cup {None},
                          origin : BOOLEAN, csrf : {"missing", "wrong", "right"}]
    /\ Permission \in Permissions /\ MaxChanges \in Nat

VARIABLES
    session,    \* the row of auth.sessions
    members,    \* auth.tenant_memberships: active status and version
    grants,     \* memberships whose active roles hold the route's permission
    changes,    \* how many changes were made
    pc,         \* how far each request is
    ask,        \* what each request presented
    principal,  \* the AuthenticatedPrincipal of each request
    denial,     \* the event each denied request has to record
    trace,      \* what its denial left: nothing yet, an event, a diagnostic
    log         \* auth.security_events, with the request that wrote each

callVars == <<session, members, grants, changes>>

NoPrincipal == [member |-> None, version |-> 0]

(* AuthenticatedPrincipal of a session whose membership was proved.        *)
Principal == [member |-> session.member, version |-> session.version]

(* auth.resolve_active_membership for the selected membership.             *)
ActiveMembership(m, version) ==
    /\ m \in Memberships
    /\ members[m].active
    /\ members[m].version = version

Goes(r, place) == pc' = [pc EXCEPT ![r] = place]

-----------------------------------------------------------------------------
(* The insert trigger and SecurityEventWriter.write.                       *)

(* The user and the session exist; a membership has to be the one the      *)
(* session has selected now, and its user's.                               *)
LinksHold(e) ==
    /\ e.user \subseteq {User}
    /\ e.session \subseteq {Session}
    /\ Given(e.session) => e.membership \subseteq {session.member}
    /\ e.membership \subseteq Memberships

Appendable(e) == Validate(e) /\ EventShape(e) /\ LinksHold(e)

Entries(r, events) == {[by |-> r, event |-> e] : e \in events}

-----------------------------------------------------------------------------
(* The events of rejected requests.                                        *)

Denied(type, reason) == [SecurityAuditEvent(type, "denied") EXCEPT !.reason = {reason}]

OfSession(e) == [e EXCEPT !.user = {User}, !.session = {Session}]

(* _denial for a CsrfRejectedError                                         *)
CsrfDenial(h) ==
    IF ~h.origin THEN Denied("origin_rejected", "origin_denied")
    ELSE IF h.csrf = "missing" THEN Denied("csrf_rejected", "csrf_missing")
    ELSE Denied("csrf_rejected", "csrf_invalid")

(* _denial for a TenantAccessDeniedError or TenantContextChangedError      *)
MembershipDenial == Denied("membership_denied", "membership_unavailable")

AuthorizationDenial(p) ==
    [OfSession(Denied("authorization_denied", "permission_denied"))
        EXCEPT !.membership = {p.member}, !.permission = {Permission}]

Deny(r, e) ==
    /\ Goes(r, "denied")
    /\ denial' = [denial EXCEPT ![r] = {e}]

-----------------------------------------------------------------------------
(* trusted_access_from_bearer                                              *)

Known(r) == session.open /\ ask[r].bearer = session.bearer

(* Only denials of a tenant are recorded; an unknown session is answered   *)
(* 401 without a trace.                                                    *)
Authenticate(r) ==
    /\ pc[r] = "sent" /\ ask[r].kind = "call"
    /\ \/ /\ ~Known(r)
          /\ Goes(r, "rejected")
          /\ UNCHANGED <<principal, denial>>
       \/ /\ Known(r) /\ ~ActiveMembership(session.member, session.version)
          /\ Deny(r, OfSession(MembershipDenial))
          /\ UNCHANGED principal
       \/ /\ Known(r) /\ ActiveMembership(session.member, session.version)
          /\ Goes(r, "checking")
          /\ principal' = [principal EXCEPT ![r] = Principal]
          /\ UNCHANGED denial
    /\ UNCHANGED <<callVars, ask, trace, log>>

-----------------------------------------------------------------------------
(* require_authenticated_access                                            *)

(* validate_expected_membership and validate_session_csrf; the token is    *)
(* compared with the digest of the session that was read.                  *)
ExpectedMembership(h, m) == h.unsafe => h.expected = m
SessionCsrf(h) == h.unsafe => h.origin /\ h.csrf = "right"

(* Mutant of Check: the membership hint of the tab is not compared.        *)
CheckTokenOnly(r) ==
    /\ pc[r] = "checking"
    /\ LET h == ask[r].headers
       IN \/ /\ ~SessionCsrf(h)
             /\ Deny(r, OfSession(CsrfDenial(h)))
          \/ /\ SessionCsrf(h)
             /\ Goes(r, "authorizing")
             /\ UNCHANGED denial
    /\ UNCHANGED <<callVars, ask, principal, trace, log>>

(* A missing hint is a CsrfRejectedError, another one a stale context.     *)
Check(r) ==
    /\ pc[r] = "checking"
    /\ LET h == ask[r].headers
           here == ExpectedMembership(h, principal[r].member)
       IN \/ /\ ~here /\ h.expected # None
             /\ Deny(r, OfSession(MembershipDenial))
          \/ /\ IF here THEN ~SessionCsrf(h) ELSE h.expected = None
             /\ Deny(r, OfSession(CsrfDenial(h)))
          \/ /\ here /\ SessionCsrf(h)
             /\ Goes(r, "authorizing")
             /\ UNCHANGED denial
    /\ UNCHANGED <<callVars, ask, principal, trace, log>>

-----------------------------------------------------------------------------
(* require_permission                                                      *)

(* Mutant of HasPermission: the copy that was read is trusted.             *)
HasPermissionOfTheCopy(p) ==
    /\ ActiveMembership(p.member, p.version)
    /\ p.member \in grants

(* has_permission: the session is open and still has the membership and    *)
(* version of the principal, which is active and holds the permission.     *)
HasPermission(p) ==
    /\ session.open
    /\ Principal = p
    /\ ActiveMembership(p.member, p.version)
    /\ p.member \in grants

(* Every failure of the lookup is a DENY.                                  *)
Authorize(r) ==
    /\ pc[r] = "authorizing"
    /\ \/ HasPermission(principal[r]) /\ Goes(r, "allowed") /\ UNCHANGED denial
       \/ Deny(r, AuthorizationDenial(principal[r]))
    /\ UNCHANGED <<callVars, ask, principal, trace, log>>

-----------------------------------------------------------------------------
(* SecurityDenialAuditor and audited_auth_transaction: the denial is       *)
(* written in a transaction of its own, and the request is refused whether *)
(* or not that succeeds.                                                   *)

RecordDenial(r) ==
    /\ pc[r] = "denied"
    /\ \A e \in denial[r] : Appendable(e)
    /\ log' = log \cup Entries(r, denial[r])
    /\ trace' = [trace EXCEPT ![r] = "event"]
    /\ Goes(r, "refused")
    /\ UNCHANGED <<callVars, ask, principal, denial>>

(* The trigger refuses the event or the database is out of reach:          *)
(* audit_write_failed is logged.                                           *)
LoseDenial(r) ==
    /\ pc[r] = "denied"
    /\ trace' = [trace EXCEPT ![r] = "diagnostic"]
    /\ Goes(r, "refused")
    /\ UNCHANGED <<callVars, ask, principal, denial, log>>

-----------------------------------------------------------------------------
(* What others do to the session and to its rights meanwhile.              *)

Change ==
    /\ changes < MaxChanges
    /\ changes' = changes + 1
    /\ \/ \E m \in Memberships :
             /\ session.open /\ members[m].active
             /\ session' = [session EXCEPT !.bearer = @ + 1, !.member = m,
                                           !.version = members[m].version]
             /\ UNCHANGED <<members, grants>>
       \/ /\ session.open
          /\ session' = [session EXCEPT !.open = FALSE]
          /\ UNCHANGED <<members, grants>>
       \/ \E m \in Memberships :
             /\ members' = [members EXCEPT ![m] = [active |-> ~@.active,
                                                   version |-> @.version + 1]]
             /\ UNCHANGED <<session, grants>>
       \/ \E m \in Memberships :
             /\ grants' = (grants \ {m}) \cup ({m} \ grants)
             /\ UNCHANGED <<session, members>>
    /\ UNCHANGED <<pc, ask, principal, denial, trace, log>>

CallStep(r) == \/ Authenticate(r) \/ Check(r) \/ Authorize(r)
               \/ RecordDenial(r) \/ LoseDenial(r)
=============================================================================
