----------------------------- MODULE AccessGate -----------------------------
(***************************************************************************)
(* The doors of the API together: requests of every kind, in any order and *)
(* overlapping, while the clock, the session and its rights move.          *)
(***************************************************************************)
EXTENDS LoginGate

vars == <<session, members, grants, changes, pc, ask, principal, denial, trace, log,
          now, bucket, held, within, pending, preauth, holder, spent, entered>>

NoHeaders == [unsafe |-> FALSE, expected |-> None, origin |-> TRUE, csrf |-> "missing"]

Nothing == [kind |-> "none", bearer |-> 0, headers |-> NoHeaders, at |-> 0,
            name |-> CHOOSE n \in Names : TRUE, state |-> CHOOSE s \in States : TRUE]

(* A session with a selected membership, and one pre-authentication state  *)
(* that was issued and not yet used.                                       *)
Init ==
    /\ session = [bearer |-> 1, open |-> TRUE, version |-> 1,
                  member |-> CHOOSE m \in Memberships : TRUE]
    /\ members = [m \in Memberships |-> [active |-> TRUE, version |-> 1]]
    /\ grants = {session.member}
    /\ changes = 0
    /\ pc = [r \in Requests |-> "idle"]
    /\ ask = [r \in Requests |-> Nothing]
    /\ principal = [r \in Requests |-> NoPrincipal]
    /\ denial = [r \in Requests |-> {}]
    /\ trace = [r \in Requests |-> "none"]
    /\ log = {}
    /\ now = 0
    /\ bucket = [row \in Rows |-> 0]
    /\ held = [r \in Requests |-> {}]
    /\ within = [r \in Requests |-> TRUE]
    /\ pending = [r \in Requests |-> {}]
    /\ preauth = [s \in States |-> [state |-> IF s = Nothing.state THEN "issued" ELSE "absent",
                                    expires |-> Lifetime]]
    /\ holder = [s \in States |-> {}]
    /\ spent = {}
    /\ entered = [s \in States |-> {}]

(* The kinds of request and what each presents: the cookie and headers of  *)
(* a tab, or a pre-authentication state, which may have been used already. *)
CallOf(h) == [Nothing EXCEPT !.kind = "call", !.bearer = session.bearer, !.headers = h]

BootstrapOf(kind, origin) ==
    [Nothing EXCEPT !.kind = kind, !.bearer = session.bearer, !.headers.origin = origin]

LoginOf(n, s, h) == [Nothing EXCEPT !.kind = "login", !.name = n, !.state = s,
                                    !.headers = [h EXCEPT !.expected = None]]

Asked ==
    {CallOf(h) : h \in Headers}
    \cup {BootstrapOf(kind, origin) : kind \in {"preauth", "csrf"}, origin \in BOOLEAN}
    \cup {LoginOf(n, s, h) : n \in Names, s \in {x \in States : preauth[x].state # "absent"},
                             h \in {x \in Headers : x.unsafe}}

Send(r) ==
    /\ pc[r] = "idle"
    /\ \E a \in Asked : ask' = [ask EXCEPT ![r] = a]
    /\ Goes(r, "sent")
    /\ UNCHANGED <<callVars, gateVars, now, principal, denial, trace, log>>

Tick ==
    /\ now < MaxTime
    /\ now' = now + 1
    /\ UNCHANGED <<callVars, gateVars, pc, ask, principal, denial, trace, log>>

Call(r) == CallStep(r) /\ UNCHANGED <<gateVars, now>>

ChangeRights == Change /\ UNCHANGED <<gateVars, now>>

Next ==
    \/ \E r \in Requests : Send(r) \/ Call(r) \/ GateStep(r) \/ Abort(r)
    \/ ChangeRights
    \/ Tick

Spec == Init /\ [][Next]_vars

(* The server goes on with every request it has received.                  *)
FairSpec == Spec /\ \A r \in Requests : WF_vars(Call(r) \/ GateStep(r))

-----------------------------------------------------------------------------
Answers == {"allowed", "refused", "rejected", "admitted", "throttled", "done", "failed"}

Places == Answers \cup Scopes \cup
    {"idle", "sent", "checking", "authorizing", "denied", "preauth", "consuming",
     "counted", "issuing"}

(* Types; a request holds quota rows only inside its quota transaction and *)
(* a pre-authentication row only while it consumes it.                     *)
TypeOK ==
    /\ pc \in [Requests -> Places]
    /\ trace \in [Requests -> {"none", "event", "diagnostic"}]
    /\ session.member \in Memberships /\ session.open \in BOOLEAN
    /\ now \in 0..MaxTime
    /\ bucket \in [Rows -> Nat]
    /\ \A r \in Requests :
          /\ denial[r] # {} => pc[r] \in {"denied", "refused"}
          /\ held[r] # {} => pc[r] \in Scopes \cup {"counted"}
          /\ Cardinality({s \in States : r \in holder[s]}) <= 1
          /\ (\E s \in States : r \in holder[s]) <=> pc[r] = "consuming"

Recorded(r) == {x.event : x \in {x \in log : x.by = r}}

(* What the routes with an auditor leave of a refusal: a request refused   *)
(* for its tenant, its headers or its permission, its event or, when that  *)
(* could not be written, the audit_write_failed diagnostic; one over a     *)
(* quota, the throttling event.                                            *)
RefusalsAreRecorded ==
    \A r \in Requests :
        /\ pc[r] = "refused" => \/ trace[r] = "event" /\ denial[r] \subseteq Recorded(r)
                                \/ trace[r] = "diagnostic"
        /\ pc[r] = "throttled" =>
              \E e \in Recorded(r) : e.type = "throttling_triggered"

(* The audit contract's claim that no denial disappears silently, whatever *)
(* the route: a rejected origin or CSRF token leaves origin_rejected or    *)
(* csrf_rejected, or the diagnostic.  A login is rejected for nothing else *)
(* before its quotas, and a bootstrap for nothing but its origin; neither  *)
(* has an auditor (AuthHttpService.login, the /auth/preauth route).        *)
EveryDenialLeavesATrace ==
    /\ RefusalsAreRecorded
    /\ \A r \in Requests :
          pc[r] = "rejected" /\ ask[r].kind \in {"login", "preauth"} =>
              \/ \E e \in Recorded(r) : e.type \in {"origin_rejected", "csrf_rejected"}
              \/ trace[r] = "diagnostic"

(* What is recorded is what happened: an origin event only of a request    *)
(* from a wrong origin and the other way round, a missing token only when  *)
(* it was missing, a membership only of the principal that was denied, and *)
(* nothing at all of a request that was let in.                            *)
EvidenceIsTrue ==
    \A x \in log :
        LET h == ask[x.by].headers
        IN /\ x.event.type = "origin_rejected" => ~h.origin
           /\ x.event.type = "csrf_rejected" => h.origin
           /\ x.event.reason = {"csrf_missing"} => h.csrf = "missing"
           /\ x.event.reason = {"csrf_invalid"} => h.csrf = "wrong" \/ h.expected = None
           /\ Given(x.event.membership) => x.event.membership = {principal[x.by].member}
           /\ pc[x.by] \notin {"allowed", "admitted", "done"}

(* A request that was allowed acts for the membership its tab showed, with *)
(* the origin and token of that tab, although the session may have been    *)
(* switched between any two of its three transactions.                     *)
AllowedInItsOwnContext ==
    \A r \in Requests : pc[r] = "allowed" /\ ask[r].headers.unsafe =>
        /\ ask[r].headers.expected = principal[r].member
        /\ ask[r].headers.origin /\ ask[r].headers.csrf = "right"

(* Every answer agrees with what its request presented: what is recorded   *)
(* of a refused one on a route with an auditor or over a quota, and the    *)
(* context an allowed one acts in (require_authenticated_access, _denial,  *)
(* PostgresThrottleStore.consume).                                         *)
AnswersMatchRequests ==
    EvidenceIsTrue /\ RefusalsAreRecorded /\ AllowedInItsOwnContext

(* The copy of the session that a request's headers were compared with is  *)
(* not what lets it in: at the moment it is allowed, the session is open,  *)
(* has selected the very membership the tab showed, and that membership is *)
(* active, at the version the session has, and holds the permission, even  *)
(* if the session was switched or revoked, or the membership suspended,    *)
(* after it was read (require_permission, has_permission).                 *)
AllowedInTheSessionsContext ==
    [][\A r \in Requests : pc[r] # "allowed" /\ pc'[r] = "allowed" =>
          /\ session.open
          /\ ActiveMembership(session.member, session.version)
          /\ session.member \in grants
          /\ ask[r].headers.unsafe => ask[r].headers.expected = session.member]_vars

(* One pre-authentication state lets at most one login in, although it may *)
(* be presented by several at once.                                        *)
StateLetsOneIn == \A s \in States : Cardinality(entered[s]) <= 1

(* Every attempt counts: a quota row holds exactly the attempts that       *)
(* committed it and those that have it open, whether they were let in or   *)
(* refused, and a failed transaction takes only its own count back.        *)
EveryAttemptCounts ==
    \A row \in Rows :
        bucket[row] = Cardinality({x \in spent : x.row = row})
                      + Cardinality({r \in Requests : row \in held[r]})

(* No window lets in more than its limit, for any scope, however attempts  *)
(* interleave; two adjacent windows together may let in twice as many.     *)
WindowLimit ==
    \A row \in Rows :
        Cardinality({x \in spent : x.row = row /\ pc[x.by] # "throttled"}) <= Limit[row[1]]

(* Every request that was received is answered: quota rows and states are  *)
(* locked in one order, so no two requests wait for each other.            *)
EveryRequestIsAnswered == \A r \in Requests : pc[r] = "sent" ~> pc[r] \in Answers
=============================================================================
