----------------------------- MODULE LoginGate -----------------------------
(***************************************************************************)
(* The way in without a session: GET /auth/preauth and GET /auth/csrf,     *)
(* throttled per address, and POST /auth/login, which consumes one         *)
(* pre-authentication state and then three quotas in one transaction       *)
(* before it looks at the password.                                        *)
(*                                                                         *)
(* A quota row is counted in place and stays locked until its transaction  *)
(* ends; held remembers what a request has counted and not yet committed.  *)
(***************************************************************************)
EXTENDS DenialAudit

CONSTANTS
    Names,      \* normalized identifiers
    Address,    \* the client address the requests come from
    States,     \* pre-authentication states
    Limit,      \* POLICIES: requests per window of each scope
    Window,     \* POLICIES: length of a window of each scope
    Lifetime,   \* PREAUTH_LIFETIME
    MaxTime     \* bound: the last instant of the clock

Scopes == {"login_username", "login_ip", "login_ip_username", "csrf_ip"}

ASSUME PolicyAssumption ==
    /\ Limit \in [Scopes -> Nat \ {0}] /\ Window \in [Scopes -> Nat \ {0}]
    /\ Lifetime \in Nat /\ MaxTime \in Nat
    /\ Names # {} /\ States # {}

VARIABLES
    now,      \* clock_timestamp()
    bucket,   \* auth.throttle_buckets: the count of each row
    held,     \* rows each request has counted in an open transaction
    within,   \* whether every quota the request consumed allowed it
    pending,  \* events written in that transaction
    preauth,  \* auth.preauth_csrf_states
    holder,   \* the request whose transaction has locked a state
    spent,    \* history: quotas committed, and by whom
    entered   \* history: which login each state let in

gateVars == <<bucket, held, within, pending, preauth, holder, spent, entered>>

Keys(scope) == CASE scope \in {"login_ip", "csrf_ip"} -> {Address}
                 [] OTHER                              -> Names

Key(r, scope) == IF scope \in {"login_ip", "csrf_ip"} THEN Address ELSE ask[r].name

(* window_started_at, as a number of windows                               *)
Started(scope, t) == t \div Window[scope]

Rows == UNION {{<<scope, key, start>> : key \in Keys(scope), start \in 0..MaxTime} :
                  scope \in Scopes}

-----------------------------------------------------------------------------
(* Origin and the form of the tokens, before any transaction.  Only the    *)
(* CSRF route records a wrong origin.  From ask[r].at on, the request      *)
(* executes its next statement, which may have to wait for a row: a login  *)
(* reads the clock at once, before it asks for its state's row.            *)
Enter(r) ==
    /\ pc[r] = "sent" /\ ask[r].kind \in {"login", "preauth", "csrf"}
    /\ LET h == ask[r].headers
       IN \/ /\ ask[r].kind = "csrf" /\ ~h.origin
             /\ Deny(r, Denied("origin_rejected", "origin_denied"))
             /\ UNCHANGED ask
          \/ /\ ask[r].kind # "csrf"
             /\ ~h.origin \/ (ask[r].kind = "login" /\ h.csrf = "missing")
             /\ Goes(r, "rejected")
             /\ UNCHANGED <<ask, denial>>
          \/ /\ h.origin /\ (ask[r].kind = "login" => h.csrf # "missing")
             /\ Goes(r, IF ask[r].kind = "login" THEN "preauth" ELSE "csrf_ip")
             /\ ask' = [ask EXCEPT ![r].at = now]
             /\ UNCHANGED denial
    /\ UNCHANGED <<callVars, gateVars, now, principal, trace, log>>

-----------------------------------------------------------------------------
(* SessionService.consume_preauth                                          *)

(* Mutant of OpenState: the row is read without FOR UPDATE.                *)
OpenStateUnlocked(r) ==
    /\ pc[r] = "preauth"
    /\ IF /\ preauth[ask[r].state].state = "issued"
          /\ ask[r].at < preauth[ask[r].state].expires
          /\ ask[r].headers.csrf = "right"
       THEN Goes(r, "consuming")
       ELSE Goes(r, "rejected")
    /\ UNCHANGED <<callVars, gateVars, now, ask, principal, denial, trace, log>>

(* SELECT ... FOR UPDATE, then the checks on what was read.                *)
OpenState(r) ==
    /\ pc[r] = "preauth"
    /\ holder[ask[r].state] = {}
    /\ IF /\ preauth[ask[r].state].state = "issued"
          /\ ask[r].at < preauth[ask[r].state].expires
          /\ ask[r].headers.csrf = "right"
       THEN /\ Goes(r, "consuming")
            /\ holder' = [holder EXCEPT ![ask[r].state] = {r}]
       ELSE /\ Goes(r, "rejected")
            /\ UNCHANGED holder
    /\ UNCHANGED <<callVars, bucket, held, within, pending, preauth, spent, entered,
                   now, ask, principal, denial, trace, log>>

(* The state is used up, whatever becomes of the login.                    *)
ConsumeState(r) ==
    /\ pc[r] = "consuming"
    /\ preauth' = [preauth EXCEPT ![ask[r].state].state = "used"]
    /\ holder' = [holder EXCEPT ![ask[r].state] = {}]
    /\ entered' = [entered EXCEPT ![ask[r].state] = @ \cup {r}]
    /\ ask' = [ask EXCEPT ![r].at = now]
    /\ Goes(r, "login_username")
    /\ UNCHANGED <<callVars, bucket, held, within, pending, spent,
                   now, principal, denial, trace, log>>

-----------------------------------------------------------------------------
(* auth.consume_throttle and PostgresThrottleStore.consume                 *)

Reason(scope) == IF scope = "csrf_ip" THEN "csrf_bootstrap" ELSE scope

After(scope) == CASE scope = "login_username" -> "login_ip"
                  [] scope = "login_ip"       -> "login_ip_username"
                  [] OTHER                    -> "counted"

Unlocked(r, row) == \A q \in Requests \ {r} : row \notin held[q]

(* Mutant of Allowed: the request after the last one is let through.       *)
AllowedOneMore(scope, count) == count <= Limit[scope] + 1

Allowed(scope, count) == count <= Limit[scope]

(* The statement reads the clock once, which fixes the window, and may     *)
(* then wait for the row: the window is that of any instant since the      *)
(* statement before it, and need not be the current one when the wait ends.*)
Consume(r, scope) ==
    \E t \in ask[r].at..now :
        LET row == <<scope, Key(r, scope), Started(scope, t)>>
            ok  == Allowed(scope, bucket[row] + 1)
        IN /\ pc[r] = scope
           /\ Unlocked(r, row)
           /\ bucket' = [bucket EXCEPT ![row] = @ + 1]
           /\ held' = [held EXCEPT ![r] = @ \cup {row}]
           /\ within' = [within EXCEPT ![r] = @ /\ ok]
           /\ pending' = IF ok THEN pending
                         ELSE [pending EXCEPT ![r] = @ \cup {Denied("throttling_triggered",
                                                                     Reason(scope))}]
           /\ ask' = [ask EXCEPT ![r].at = now]
           /\ Goes(r, After(scope))
           /\ UNCHANGED <<callVars, preauth, holder, spent, entered,
                          now, principal, denial, trace, log>>

LoginFailure ==
    [SecurityAuditEvent("login_failure", "failure") EXCEPT !.reason = {"invalid_credentials"}]

(* A refused login adds its failure to the same transaction.               *)
Outcomes(r) ==
    pending[r] \cup (IF ask[r].kind = "login" /\ ~within[r] THEN {LoginFailure} ELSE {})

(* Mutant of CommitQuota: a refused attempt is rolled back.                *)
CommitAllowedOnly(r) ==
    /\ pc[r] = "counted"
    /\ bucket' = IF within[r] THEN bucket
                 ELSE [row \in Rows |-> IF row \in held[r] THEN bucket[row] - 1
                                                           ELSE bucket[row]]
    /\ spent' = spent \cup {[by |-> r, row |-> row] : row \in held[r]}
    /\ held' = [held EXCEPT ![r] = {}]
    /\ pending' = [pending EXCEPT ![r] = {}]
    /\ log' = log \cup Entries(r, Outcomes(r))
    /\ Goes(r, IF ~within[r] THEN "throttled"
               ELSE IF ask[r].kind = "login" THEN "admitted" ELSE "issuing")
    /\ UNCHANGED <<callVars, within, preauth, holder, entered,
                   now, ask, principal, denial, trace>>

(* Quotas are committed whatever the decision is, before anything else.    *)
CommitQuota(r) ==
    /\ pc[r] = "counted"
    /\ \A e \in Outcomes(r) : Appendable(e)
    /\ spent' = spent \cup {[by |-> r, row |-> row] : row \in held[r]}
    /\ held' = [held EXCEPT ![r] = {}]
    /\ pending' = [pending EXCEPT ![r] = {}]
    /\ log' = log \cup Entries(r, Outcomes(r))
    /\ Goes(r, IF ~within[r] THEN "throttled"
               ELSE IF ask[r].kind = "login" THEN "admitted" ELSE "issuing")
    /\ UNCHANGED <<callVars, bucket, within, preauth, holder, entered,
                   now, ask, principal, denial, trace>>

AtDatabase(r) ==
    \/ pc[r] \in Scopes \cup {"preauth", "consuming", "counted", "issuing"}
    \/ pc[r] = "sent" /\ ask[r].kind = "call"

(* Mutant of Abort: the transaction is left open.                          *)
AbortLeavingOpen(r) ==
    /\ AtDatabase(r)
    /\ Goes(r, "failed")
    /\ UNCHANGED <<callVars, gateVars, now, ask, principal, denial, trace, log>>

(* A statement fails, an event cannot be written or the connection is      *)
(* lost: the open transaction is rolled back and the answer is an error.   *)
Abort(r) ==
    /\ AtDatabase(r)
    /\ bucket' = [row \in Rows |-> IF row \in held[r] THEN bucket[row] - 1 ELSE bucket[row]]
    /\ held' = [held EXCEPT ![r] = {}]
    /\ pending' = [pending EXCEPT ![r] = {}]
    /\ holder' = [s \in States |-> holder[s] \ {r}]
    /\ Goes(r, "failed")
    /\ UNCHANGED <<callVars, within, preauth, spent, entered,
                   now, ask, principal, denial, trace, log>>

-----------------------------------------------------------------------------
(* The second transaction of the two bootstrap routes.                     *)

IssuePreauth(r) ==
    /\ pc[r] = "issuing" /\ ask[r].kind = "preauth"
    /\ \E s \in States : preauth[s].state = "absent"
    /\ LET s == CHOOSE s \in States : preauth[s].state = "absent"
       IN preauth' = [preauth EXCEPT ![s] = [state |-> "issued", expires |-> now + Lifetime]]
    /\ Goes(r, "done")
    /\ UNCHANGED <<callVars, bucket, held, within, pending, holder, spent, entered,
                   now, ask, principal, denial, trace, log>>

(* bootstrap_csrf stores the token derived from the bearer.                *)
RenewCsrf(r) ==
    /\ pc[r] = "issuing" /\ ask[r].kind = "csrf"
    /\ Goes(r, IF Known(r) THEN "done" ELSE "rejected")
    /\ UNCHANGED <<callVars, gateVars, now, ask, principal, denial, trace, log>>

GateStep(r) ==
    \/ Enter(r) \/ OpenState(r) \/ ConsumeState(r)
    \/ \E scope \in Scopes : Consume(r, scope)
    \/ CommitQuota(r) \/ IssuePreauth(r) \/ RenewCsrf(r)
=============================================================================
