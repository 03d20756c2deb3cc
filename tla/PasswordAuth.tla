---------------------------- MODULE PasswordAuth ----------------------------
(***************************************************************************)
(* The password, reset-token and session rows of one user, and the         *)
(* requests that read and write them concurrently: login, password change, *)
(* reset request, reset completion, "revoke all sessions" and logout.      *)
(*                                                                         *)
(* The grain is one SQL statement that can wait: a READ COMMITTED snapshot *)
(* read, a row lock, an advisory lock.  A transaction's writes become      *)
(* visible at its commit, and every lock it took is held until then.       *)
(* Password hashing happens between transactions, so anything may commit   *)
(* between the snapshot a password is verified against and the             *)
(* transaction that acts on the result.                                    *)
(*                                                                         *)
(* A request is used once, and the session or reset token it inserts is    *)
(* named after it.                                                         *)
(***************************************************************************)
EXTENDS Naturals, FiniteSets

CONSTANTS
    Requests,          \* calls of the services; also the rows they insert
    Nobody,            \* no request
    Passwords,         \* plaintext passwords
    InitialPassword,   \* the password the user starts with
    Calls,             \* the operations the clients of this instance use
    MaxSessions,       \* MAX_CONCURRENT_SESSIONS
    MaxSuspensions     \* bound: status changes that raise the user's version

Operations == {"login", "change", "request", "complete", "revokeAll", "logout"}

ASSUME FiniteAssumption == IsFiniteSet(Requests)
ASSUME NobodyAssumption == Nobody \notin Requests
ASSUME PasswordAssumption == InitialPassword \in Passwords
ASSUME CallsAssumption == Calls \subseteq Operations
ASSUME LimitAssumption == MaxSessions \in Nat \ {0} /\ MaxSuspensions \in Nat

VARIABLES
    cred,      \* auth.password_credentials: hash and credential_version
    user,      \* auth.users: active status and security_version
    sessions,  \* auth.sessions
    tokens,    \* auth.password_reset_tokens
    holder,    \* which transaction holds each lockable row or advisory lock
    pc,        \* the statement each request is about to execute
    op,        \* the operation each request performs
    row,       \* the session or token the caller presented
    fresh,     \* the new password hash the caller's request computed
    snap,      \* the credential snapshot the password was verified against
    todo       \* rows the current statement still has to lock

vars == <<cred, user, sessions, tokens, holder, pc, op, row, fresh, snap, todo>>
requestVars == <<op, row, fresh, snap>>

-----------------------------------------------------------------------------
(* Argon2 salts each hash, so a hash is known by its password and by the   *)
(* request that computed it.                                               *)
Hashes == [password : Passwords, salt : Requests \cup {Nobody}]
InitialHash == [password |-> InitialPassword, salt |-> Nobody]
InitialSnapshot == [hash |-> InitialHash, cv |-> 1, sv |-> 1]
Hash(password, salt) == [password |-> password, salt |-> salt]
Verifies(password, hash) == hash.password = password

SessionStatus == {"absent", "active", "expired", "revoked"}
TokenStatus == {"absent", "open", "expired", "consumed", "revoked"}
Finished == {"committed", "refused", "aborted"}
Statements == {"lockFirst", "lockSecond", "confirm", "lockAdvisory",
               "lockOwnSession", "lockOwnToken", "scanTokens", "lockTokens",
               "scanSessions", "lockSessions", "commit"}

Cred == <<"cred", Nobody>>
User == <<"user", Nobody>>
Advisory == <<"advisory", Nobody>>
Session(s) == <<"session", s>>
Token(t) == <<"token", t>>
Resources == {Cred, User, Advisory} \cup {Session(s) : s \in Requests}
                                    \cup {Token(t) : t \in Requests}

NoSession == [status |-> "absent", version |-> 0, born |-> 0,
              hash |-> InitialHash]

(* Rows with revoked_at (and consumed_at) null, whether or not their time  *)
(* has run out: what the UPDATE statements and active_for_user select.     *)
Unrevoked == {s \in Requests : sessions[s].status \in {"active", "expired"}}
Unused == {t \in Requests : tokens[t] \in {"open", "expired"}}

HeldSessions(r) == {s \in Requests : holder[Session(s)] = r}
Free(x) == holder[x] = Nobody

(* The rows with the status a session has when nothing but time and        *)
(* revocation matter, at the version the user has now.                     *)
Valid == {s \in Requests : /\ sessions[s].status = "active"
                           /\ sessions[s].version = user.version}

Running(r) == pc[r] \in Statements

Init ==
    /\ cred = [hash |-> InitialHash, version |-> 1]
    /\ user = [active |-> TRUE, version |-> 1]
    /\ sessions = [s \in Requests |-> NoSession]
    /\ tokens = [t \in Requests |-> "absent"]
    /\ holder = [x \in Resources |-> Nobody]
    /\ pc = [r \in Requests |-> "idle"]
    /\ op = [r \in Requests |-> "none"]
    /\ row = [r \in Requests |-> Nobody]
    /\ fresh = [r \in Requests |-> InitialHash]
    /\ snap = [r \in Requests |-> InitialSnapshot]
    /\ todo = [r \in Requests |-> {}]

-----------------------------------------------------------------------------
(* Steps every request is made of.                                         *)

Go(r, statement) == pc' = [pc EXCEPT ![r] = statement]

Take(r, x) ==
    /\ Free(x)
    /\ holder' = [holder EXCEPT ![x] = r]

(* Commit and rollback both release every lock of the transaction.         *)
Release(r) ==
    holder' = [x \in Resources |-> IF holder[x] = r THEN Nobody ELSE holder[x]]

(* The request's own variables end with it; which row it was about is kept *)
(* for the properties.                                                     *)
Forget(r) ==
    /\ todo' = [todo EXCEPT ![r] = {}]
    /\ fresh' = [fresh EXCEPT ![r] = InitialHash]
    /\ snap' = [snap EXCEPT ![r] = InitialSnapshot]
    /\ UNCHANGED <<op, row>>

EndHoldingLocks(r, outcome) ==
    /\ Go(r, outcome)
    /\ Forget(r)
    /\ IF outcome = "committed" THEN Release(r) ELSE UNCHANGED holder

End(r, outcome) ==
    /\ Go(r, outcome)
    /\ Forget(r)
    /\ Release(r)

(* The transaction ends without a write: a check failed and the function   *)
(* returned false or no row.                                               *)
Refuse(r) ==
    /\ End(r, "refused")
    /\ UNCHANGED <<cred, user, sessions, tokens>>

(* The request reaches its mutating transaction, at the given statement.   *)
Start(r, operation, statement, presented, hash, snapshot) ==
    /\ pc[r] = "idle"
    /\ operation \in Calls
    /\ Go(r, statement)
    /\ op' = [op EXCEPT ![r] = operation]
    /\ row' = [row EXCEPT ![r] = presented]
    /\ fresh' = [fresh EXCEPT ![r] = hash]
    /\ snap' = [snap EXCEPT ![r] = snapshot]
    /\ UNCHANGED <<cred, user, sessions, tokens, holder, todo>>

(* The request ends before it: no snapshot row, or the password is wrong.  *)
Reject(r, operation) ==
    /\ pc[r] = "idle"
    /\ operation \in Calls
    /\ Go(r, "refused")
    /\ op' = [op EXCEPT ![r] = operation]
    /\ UNCHANGED <<cred, user, sessions, tokens, holder, row, fresh, snap, todo>>

Snapshot == [hash |-> cred.hash, cv |-> cred.version, sv |-> user.version]

-----------------------------------------------------------------------------
(* What each service does before its mutating transaction: the snapshot    *)
(* transaction and the Argon2 work.                                        *)

(* password_authentication_snapshot returns no row for a user who is not   *)
(* active; the dummy hash it is then verified against never matches.       *)
LoginSnapshot(r, password) ==
    IF user.active /\ Verifies(password, cred.hash)
    THEN Start(r, "login", "lockFirst", Nobody, InitialHash, Snapshot)
    ELSE Reject(r, "login")

ChangeSnapshot(r, s, old, new) ==
    IF user.active /\ s \in Valid /\ Verifies(old, cred.hash)
    THEN Start(r, "change", "lockFirst", s, Hash(new, r), Snapshot)
    ELSE Reject(r, "change")

(* request_password_reset reads the user's status without locking the row. *)
RequestReset(r) ==
    IF user.active
    THEN Start(r, "request", "scanTokens", Nobody, InitialHash, InitialSnapshot)
    ELSE Reject(r, "request")

CompleteReset(r, t, new) ==
    /\ tokens[t] # "absent"
    /\ Start(r, "complete", "lockOwnToken", t, Hash(new, r), InitialSnapshot)

RevokeAll(r) ==
    Start(r, "revokeAll", "lockAdvisory", Nobody, InitialHash, InitialSnapshot)

-----------------------------------------------------------------------------
(* The statements of the mutating transactions.                            *)

LoginLocksUserFirst(operation) ==
    IF operation = "login" THEN <<User, Cred>> ELSE <<Cred, User>>

(* confirm_password_authentication and complete_password_reset both reach  *)
(* the credential row before the user row.                                 *)
CredentialLocks(operation) == <<Cred, User>>

LockFirst(r) ==
    /\ pc[r] = "lockFirst"
    /\ Take(r, CredentialLocks(op[r])[1])
    /\ Go(r, "lockSecond")
    /\ UNCHANGED <<cred, user, sessions, tokens, requestVars, todo>>

LockSecondUnconfirmed(r) ==
    /\ pc[r] = "lockSecond"
    /\ Take(r, CredentialLocks(op[r])[2])
    /\ Go(r, IF op[r] = "login" THEN "confirm" ELSE "scanSessions")
    /\ UNCHANGED <<cred, user, sessions, tokens, requestVars, todo>>

LockSecond(r) ==
    /\ pc[r] = "lockSecond"
    /\ Take(r, CredentialLocks(op[r])[2])
    /\ Go(r, IF op[r] = "complete" THEN "scanSessions" ELSE "confirm")
    /\ UNCHANGED <<cred, user, sessions, tokens, requestVars, todo>>

ConfirmStatusOnly(r) == user.active

ConfirmHashOnly(r) ==
    /\ user.active
    /\ snap[r].hash = cred.hash

(* What was verified outside the transaction still holds inside it.        *)
StillCurrent(r) ==
    /\ user.active
    /\ snap[r] = Snapshot

Confirm(r) ==
    /\ pc[r] = "confirm"
    /\ \/ /\ StillCurrent(r)
          /\ Go(r, IF op[r] = "login" THEN "lockAdvisory" ELSE "lockOwnSession")
          /\ UNCHANGED <<cred, user, sessions, tokens, holder, requestVars, todo>>
       \/ /\ ~StillCurrent(r)
          /\ Refuse(r)

LockAdvisory(r) ==
    /\ pc[r] = "lockAdvisory"
    /\ Take(r, Advisory)
    /\ Go(r, "scanSessions")
    /\ UNCHANGED <<cred, user, sessions, tokens, requestVars, todo>>

(* The change's own session, found by its bearer.  The search also fails   *)
(* when a tenant switch gave the session another bearer meanwhile, which   *)
(* this module leaves open.                                                *)
LockOwnSession(r) ==
    /\ pc[r] = "lockOwnSession"
    /\ \/ /\ sessions[row[r]].status = "active"
          /\ sessions[row[r]].version = snap[r].sv
          /\ Take(r, Session(row[r]))
          /\ Go(r, "scanSessions")
          /\ UNCHANGED <<cred, user, sessions, tokens, requestVars, todo>>
       \/ Refuse(r)

LockOwnTokenTwice(r) ==
    /\ pc[r] = "lockOwnToken"
    /\ Take(r, Token(row[r]))
    /\ Go(r, "scanTokens")
    /\ UNCHANGED <<cred, user, sessions, tokens, requestVars, todo>>

(* The reset token, if it is unused and unexpired once its lock is free.   *)
LockOwnToken(r) ==
    /\ pc[r] = "lockOwnToken"
    /\ \/ /\ tokens[row[r]] = "open"
          /\ Take(r, Token(row[r]))
          /\ Go(r, "scanTokens")
          /\ UNCHANGED <<cred, user, sessions, tokens, requestVars, todo>>
       \/ /\ tokens[row[r]] # "open"
          /\ Refuse(r)

(* An UPDATE of the user's other unused tokens: the statement's snapshot   *)
(* fixes which rows it will visit, and it then locks them one by one.      *)
ScanTokens(r) ==
    /\ pc[r] = "scanTokens"
    /\ todo' = [todo EXCEPT ![r] = Unused \ {row[r]}]
    /\ Go(r, "lockTokens")
    /\ UNCHANGED <<cred, user, sessions, tokens, holder, requestVars>>

(* A row whose lock had to be waited for is checked again, and is left     *)
(* alone if it no longer qualifies.                                        *)
LockNextToken(r, t) ==
    /\ pc[r] = "lockTokens"
    /\ t \in todo[r]
    /\ Free(Token(t))
    /\ holder' = IF t \in Unused THEN [holder EXCEPT ![Token(t)] = r] ELSE holder
    /\ todo' = [todo EXCEPT ![r] = @ \ {t}]
    /\ UNCHANGED <<cred, user, sessions, tokens, pc, requestVars>>

EndTokens(r) ==
    /\ pc[r] = "lockTokens"
    /\ todo[r] = {}
    /\ Go(r, IF op[r] = "complete" THEN "lockFirst" ELSE "commit")
    /\ UNCHANGED <<cred, user, sessions, tokens, holder, requestVars, todo>>

ScanSessions(r) ==
    /\ pc[r] = "scanSessions"
    /\ todo' = [todo EXCEPT ![r] = Unrevoked \ HeldSessions(r)]
    /\ Go(r, "lockSessions")
    /\ UNCHANGED <<cred, user, sessions, tokens, holder, requestVars>>

(* active_for_user locks its rows ORDER BY created_at; the UPDATE of a     *)
(* change or a completion locks them in whatever order it meets them.      *)
MayLockNext(r, s) ==
    /\ s \in todo[r]
    /\ op[r] \in {"login", "revokeAll"} =>
          \A q \in todo[r] : sessions[s].born <= sessions[q].born

LockNextSession(r, s) ==
    /\ pc[r] = "lockSessions"
    /\ MayLockNext(r, s)
    /\ Free(Session(s))
    /\ holder' = IF s \in Unrevoked THEN [holder EXCEPT ![Session(s)] = r] ELSE holder
    /\ todo' = [todo EXCEPT ![r] = @ \ {s}]
    /\ UNCHANGED <<cred, user, sessions, tokens, pc, requestVars>>

EndSessions(r) ==
    /\ pc[r] = "lockSessions"
    /\ todo[r] = {}
    /\ Go(r, "commit")
    /\ UNCHANGED <<cred, user, sessions, tokens, holder, requestVars, todo>>

-----------------------------------------------------------------------------
(* The writes of each transaction, at its commit.                          *)

RevokeWithReason(S) ==
    [s \in Requests |-> IF s \in S THEN [sessions[s] EXCEPT !.status = "logout"]
                                   ELSE sessions[s]]

Revoke(S) ==
    [s \in Requests |-> IF s \in S THEN [sessions[s] EXCEPT !.status = "revoked"]
                                   ELSE sessions[s]]

RevokeNone(r) == {}

(* The rows the UPDATE auth.sessions of a change, a completion or a        *)
(* revoke_all wrote: the ones it locked.                                   *)
Revocable(r) == HeldSessions(r)

Countable(r) == {s \in HeldSessions(r) : /\ sessions[s].status = "active"
                                          /\ sessions[s].version = snap[r].sv}

SurplusByOne(r) ==
    {s \in Countable(r) :
        Cardinality({q \in Countable(r) : sessions[q].born > sessions[s].born})
            >= MaxSessions}

(* SessionService.issue revokes the oldest valid sessions until one place  *)
(* is left below the limit.                                                *)
Surplus(r) ==
    {s \in Countable(r) :
        Cardinality({q \in Countable(r) : sessions[q].born > sessions[s].born})
            >= MaxSessions - 1}

Issue(r) ==
    [Revoke(Surplus(r)) EXCEPT ![r] =
        [status |-> "active", version |-> snap[r].sv, hash |-> snap[r].hash,
         born |-> 1 + Cardinality({s \in Requests : sessions[s].status # "absent"})]]

CommitLogin(r) ==
    /\ pc[r] = "commit"
    /\ op[r] = "login"
    /\ sessions' = Issue(r)
    /\ End(r, "committed")
    /\ UNCHANGED <<cred, user, tokens>>

ReplaceCredential(r) ==
    /\ cred' = [hash |-> fresh[r], version |-> cred.version + 1]
    /\ user' = [user EXCEPT !.version = @ + 1]
    /\ sessions' = Revoke(Revocable(r))

CommitChange(r) ==
    /\ pc[r] = "commit"
    /\ op[r] = "change"
    /\ ReplaceCredential(r)
    /\ End(r, "committed")
    /\ UNCHANGED tokens

RevokeTokens(r) ==
    [t \in Requests |-> IF holder[Token(t)] = r THEN "revoked" ELSE tokens[t]]

CommitRequest(r) ==
    /\ pc[r] = "commit"
    /\ op[r] = "request"
    /\ tokens' = [RevokeTokens(r) EXCEPT ![r] = "open"]
    /\ End(r, "committed")
    /\ UNCHANGED <<cred, user, sessions>>

CommitComplete(r) ==
    /\ pc[r] = "commit"
    /\ op[r] = "complete"
    /\ tokens' = [RevokeTokens(r) EXCEPT ![row[r]] = "consumed"]
    /\ ReplaceCredential(r)
    /\ End(r, "committed")

CommitRevokeAll(r) ==
    /\ pc[r] = "commit"
    /\ op[r] = "revokeAll"
    /\ sessions' = Revoke(Revocable(r))
    /\ End(r, "committed")
    /\ UNCHANGED <<cred, user, tokens>>

(* Logout locks one row and waits for nothing while it holds it, so it is  *)
(* one step.                                                               *)
Logout(r, s) ==
    /\ pc[r] = "idle"
    /\ "logout" \in Calls
    /\ s \in Valid
    /\ user.active
    /\ Free(Session(s))
    /\ sessions' = Revoke({s})
    /\ op' = [op EXCEPT ![r] = "logout"]
    /\ row' = [row EXCEPT ![r] = s]
    /\ Go(r, "committed")
    /\ UNCHANGED <<cred, user, tokens, holder, fresh, snap, todo>>

-----------------------------------------------------------------------------
(* What happens to a request or to the rows from outside.                  *)

(* The row the request waits for is held by these requests.                *)
Wanted(r) ==
    CASE pc[r] = "lockFirst" -> {CredentialLocks(op[r])[1]}
      [] pc[r] = "lockSecond" -> {CredentialLocks(op[r])[2]}
      [] pc[r] = "lockAdvisory" -> {Advisory}
      [] pc[r] = "lockOwnSession" -> {Session(row[r])}
      [] pc[r] = "lockOwnToken" -> {Token(row[r])}
      [] pc[r] = "lockTokens" -> {Token(t) : t \in todo[r]}
      [] pc[r] = "lockSessions" -> {Session(s) : s \in {q \in todo[r] : MayLockNext(r, q)}}
      [] OTHER -> {}

Blockers(r) ==
    IF Wanted(r) # {} /\ \A x \in Wanted(r) : ~Free(x)
    THEN {holder[x] : x \in Wanted(r)}
    ELSE {}

(* r is on a cycle of requests each of which waits for the next one.       *)
OnCycle(r) ==
    /\ Blockers(r) # {}
    /\ \E S \in SUBSET {q \in Requests : Blockers(q) # {}} :
        /\ r \in S
        /\ \E next \in [S -> S] :
              \A q \in S : next[q] \in Blockers(q) /\ \E p \in S : next[p] = q

(* The connection is lost, the process dies, or PostgreSQL picks the       *)
(* transaction as a deadlock victim: it is rolled back.                    *)
Abort(r) ==
    /\ Running(r)
    /\ End(r, "aborted")
    /\ UNCHANGED <<cred, user, sessions, tokens>>

DeadlockVictim(r) == OnCycle(r) /\ Abort(r)

SessionExpires(s) ==
    /\ sessions[s].status = "active"
    /\ sessions' = [sessions EXCEPT ![s].status = "expired"]
    /\ UNCHANGED <<cred, user, tokens, holder, pc, requestVars, todo>>

TokenExpires(t) ==
    /\ tokens[t] = "open"
    /\ tokens' = [tokens EXCEPT ![t] = "expired"]
    /\ UNCHANGED <<cred, user, sessions, holder, pc, requestVars, todo>>

(* Status changes come from outside the API; a suspension raises the       *)
(* user's version.                                                         *)
Suspend ==
    /\ user.active
    /\ Free(User)
    /\ user.version < cred.version + MaxSuspensions
    /\ user' = [active |-> FALSE, version |-> user.version + 1]
    /\ UNCHANGED <<cred, sessions, tokens, holder, pc, requestVars, todo>>

Reactivate ==
    /\ ~user.active
    /\ Free(User)
    /\ user' = [user EXCEPT !.active = TRUE]
    /\ UNCHANGED <<cred, sessions, tokens, holder, pc, requestVars, todo>>

-----------------------------------------------------------------------------
(* One statement of a started request.                                     *)
Step(r) ==
    \/ LockFirst(r) \/ LockSecond(r) \/ Confirm(r) \/ LockAdvisory(r)
    \/ LockOwnSession(r) \/ LockOwnToken(r) \/ ScanTokens(r) \/ EndTokens(r)
    \/ ScanSessions(r) \/ EndSessions(r)
    \/ \E x \in Requests : LockNextToken(r, x) \/ LockNextSession(r, x)
    \/ CommitLogin(r) \/ CommitChange(r) \/ CommitRequest(r)
    \/ CommitComplete(r) \/ CommitRevokeAll(r)

Begin(r) ==
    \/ \E p \in Passwords : LoginSnapshot(r, p)
    \/ \E s \in Requests, old, new \in Passwords : ChangeSnapshot(r, s, old, new)
    \/ RequestReset(r)
    \/ \E t \in Requests, new \in Passwords : CompleteReset(r, t, new)
    \/ RevokeAll(r)
    \/ \E s \in Requests : Logout(r, s)

Environment ==
    \/ \E x \in Requests : SessionExpires(x) \/ TokenExpires(x)
    \/ Suspend
    \/ Reactivate

Next ==
    \/ \E r \in Requests : Begin(r) \/ Step(r) \/ Abort(r)
    \/ Environment

Spec == Init /\ [][Next]_vars

(* A started request keeps executing its statements, and PostgreSQL breaks *)
(* every cycle of waiting transactions.  Nobody is obliged to start.       *)
Fairness == \A r \in Requests : WF_vars(Step(r)) /\ WF_vars(DeadlockVictim(r))

FairSpec == Spec /\ Fairness
-----------------------------------------------------------------------------
SessionRows == [status : SessionStatus, version : Nat, born : Nat, hash : Hashes]

(* Types of the rows, the lock table and the requests' variables: a status *)
(* is one the columns can have, and every lock belongs to a request.       *)
TypeOK ==
    /\ cred \in [hash : Hashes, version : Nat]
    /\ user \in [active : BOOLEAN, version : Nat]
    /\ sessions \in [Requests -> SessionRows]
    /\ tokens \in [Requests -> TokenStatus]
    /\ holder \in [Resources -> Requests \cup {Nobody}]
    /\ pc \in [Requests -> {"idle"} \cup Statements \cup Finished]
    /\ op \in [Requests -> {"none"} \cup Operations]
    /\ row \in [Requests -> Requests \cup {Nobody}]
    /\ fresh \in [Requests -> Hashes]
    /\ snap \in [Requests -> [hash : Hashes, cv : Nat, sv : Nat]]
    /\ todo \in [Requests -> SUBSET Requests]

(* Every session row that is not revoked was opened by proving the         *)
(* password that is in force now: a change or a reset leaves none of the   *)
(* sessions opened before it, and a login verified before it opens none    *)
(* after it, whatever commits between the snapshot and the insert.         *)
UnrevokedMatchCredential ==
    \A s \in Unrevoked : sessions[s].hash = cred.hash

(* Nobody replaces a password that somebody else replaced meanwhile: when  *)
(* the credential row is written, a change finds in it the very hash and   *)
(* versions its caller was verified against, before the locks and before   *)
(* the Argon2 work, and its own session is not revoked; a completion finds *)
(* its token neither consumed nor revoked.  Of two changes verified on one *)
(* version, or of a change and a reset, the later one is refused           *)
(* (apply_password_change, complete_password_reset).                       *)
NoStaleReplacement ==
    [][cred' # cred =>
          \E r \in Requests :
              /\ pc[r] # "committed" /\ pc'[r] = "committed"
              /\ cred'.hash = fresh[r]
              /\ \/ /\ op[r] = "change"
                    /\ user.active /\ snap[r] = Snapshot
                    /\ row[r] \in Unrevoked
                 \/ /\ op[r] = "complete"
                    /\ row[r] \in Unused]_vars

(* A reset token replaces the password once, however many completions      *)
(* present it at the same time.                                            *)
TokenUsedOnce ==
    \A r, q \in Requests :
        /\ {op[r], op[q]} = {"complete"}
        /\ {pc[r], pc[q]} = {"committed"}
        /\ row[r] = row[q]
        => r = q

(* Concurrent logins never leave the user with more valid sessions than    *)
(* MAX_CONCURRENT_SESSIONS.                                                *)
ConcurrentLimit == Cardinality(Valid) <= MaxSessions

(* A login can wait for a deadlock between others, but it is never one of  *)
(* the transactions in the cycle, so it is never the victim.               *)
LoginNeverDeadlocks ==
    \A r \in Requests : op[r] = "login" => ~OnCycle(r)

(* Every request that starts ends, committed, refused or rolled back: no   *)
(* lock is left behind and no cycle of waiting requests survives.          *)
EveryRequestEnds ==
    \A r \in Requests : Running(r) ~> pc[r] \in Finished

(* The recovery contract's claim that a user has one unused and unrevoked  *)
(* reset token, because issuing a token revokes the previous one under a   *)
(* lock.                                                                   *)
OneUnusedToken == Cardinality(Unused) <= 1

-----------------------------------------------------------------------------
(* The rows and transactions implement CredentialAuthority: a session is   *)
(* accepted while its row is valid, and whoever reads the rows between any *)
(* two commits sees what the abstract specification allows.                *)
Authority == INSTANCE CredentialAuthority WITH
    Sessions <- Requests,
    Limit <- MaxSessions,
    hash <- cred.hash,
    active <- user.active,
    live <- {<<s, sessions[s].hash>> : s \in Valid},
    opened <- {s \in Requests : sessions[s].status # "absent"}

(* Every behaviour of the services is one that CredentialAuthority allows. *)
ImplementsAuthority == Authority!Spec
=============================================================================
