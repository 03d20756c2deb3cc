-------------------------- MODULE SessionLifecycle --------------------------
(***************************************************************************)
(* The session rows of one user over time, and the HTTP requests that use  *)
(* them: me, memberships, CSRF bootstrap, the second transaction of a      *)
(* login, tenant switch and logout.                                        *)
(*                                                                         *)
(* A request presents what its sender knew when it was sent.  Its          *)
(* transaction finds the row by bearer, locks it and copies it (Open),     *)
(* then writes the whole row back from the copy (Apply): the clock, the    *)
(* user row and the memberships may change in between, and another request *)
(* may have rotated or revoked the session before the lock was granted.    *)
(***************************************************************************)
EXTENDS Naturals, FiniteSets

CONSTANTS
    Slots,              \* session rows
    Workers,            \* requests in progress at one time
    Memberships,        \* the user's memberships
    None,               \* no worker, no membership
    IdleTimeout,        \* IDLE_TIMEOUT
    AbsoluteTimeout,    \* ABSOLUTE_TIMEOUT
    LastSeenInterval,   \* LAST_SEEN_INTERVAL
    MaxSessions,        \* MAX_CONCURRENT_SESSIONS
    MaxTime,            \* bound: the last instant of the clock
    MaxBearers,         \* bound: bearers ever generated
    MaxVersion          \* bound: versions of the user and of a membership

ASSUME TimeoutAssumption ==
    /\ {IdleTimeout, AbsoluteTimeout, LastSeenInterval, MaxTime, MaxBearers} \subseteq Nat
    /\ 0 < IdleTimeout /\ IdleTimeout <= AbsoluteTimeout
    /\ MaxSessions \in Nat \ {0} /\ MaxVersion \in Nat \ {0}
ASSUME NoneAssumption == None \notin Slots \cup Workers \cup Memberships

VARIABLES
    now,       \* clock_timestamp()
    user,      \* auth.users: active status and security_version
    members,   \* auth.tenant_memberships: active status and version
    rows,      \* auth.sessions
    bearers,   \* how many bearers were generated; each new one is larger
    holder,    \* the worker whose transaction holds the row's lock
    work,      \* what each worker's request presented
    copy       \* the SessionRecord each transaction read

vars == <<now, user, members, rows, bearers, holder, work, copy>>

Reads == {"me", "memberships", "bootstrap", "seal"}
Unsafe == {"switch", "logout"}
Selections == Memberships \cup {None}

NoRow == [state |-> "absent", id |-> 0, bearer |-> 0, sealed |-> FALSE, version |-> 0,
          created |-> 0, seen |-> 0, idle |-> 0, absolute |-> 0,
          member |-> None, memberVersion |-> 0]

NoWork == [op |-> "none", bearer |-> 0, expected |-> None, target |-> None, slot |-> None]

(* SessionRecord.is_valid                                                  *)
IsValid(c, t, version) ==
    /\ c.state = "open"
    /\ c.version = version
    /\ t < c.idle
    /\ t < c.absolute

Valid(s) == IsValid(rows[s], now, user.version)
Min(a, b) == IF a < b THEN a ELSE b
Free(s) == holder[s] = None

Init ==
    /\ now = 0
    /\ user = [active |-> TRUE, version |-> 1]
    /\ members = [m \in Memberships |-> [active |-> TRUE, version |-> 1]]
    /\ rows = [s \in Slots |-> NoRow]
    /\ bearers = 0
    /\ holder = [s \in Slots |-> None]
    /\ work = [w \in Workers |-> NoWork]
    /\ copy = [w \in Workers |-> NoRow]

-----------------------------------------------------------------------------
(* Transactions of the password services that write several rows; they     *)
(* wait until no request holds a row they need.                            *)

Open == {s \in Slots : rows[s].state = "open"}
AllOpenFree == \A s \in Open : Free(s)

Countable == {s \in Open : Valid(s)}

(* Of two rows created at the same instant the smaller id is the older     *)
(* one, and a row that rotated keeps its place.                            *)
Older(s, q) == \/ rows[s].created < rows[q].created
               \/ rows[s].created = rows[q].created /\ rows[s].id < rows[q].id

(* The oldest valid sessions, so many that one place is left for the new   *)
(* one below the limit.                                                    *)
Surplus ==
    {s \in Countable : Cardinality({q \in Countable : Older(s, q)}) >= MaxSessions - 1}

Issue(s) ==
    /\ rows[s].state = "absent"
    /\ user.active
    /\ AllOpenFree
    /\ bearers < MaxBearers
    /\ now + AbsoluteTimeout <= MaxTime
    /\ bearers' = bearers + 1
    /\ rows' = [q \in Slots |->
          IF q = s
          THEN [NoRow EXCEPT !.state = "open", !.id = bearers + 1, !.bearer = bearers + 1,
                             !.version = user.version, !.created = now, !.seen = now,
                             !.idle = now + IdleTimeout, !.absolute = now + AbsoluteTimeout]
          ELSE IF q \in Surplus THEN [rows[q] EXCEPT !.state = "revoked"] ELSE rows[q]]
    /\ UNCHANGED <<now, user, members, holder, work, copy>>

(* A password change or reset, and revoke_all, which leaves the version.   *)
RevokeAll(version) ==
    /\ AllOpenFree
    /\ user' = [user EXCEPT !.version = version]
    /\ rows' = [s \in Slots |-> IF s \in Open THEN [rows[s] EXCEPT !.state = "revoked"]
                                              ELSE rows[s]]
    /\ UNCHANGED <<now, members, bearers, holder, work, copy>>

ReplacePassword == user.version < MaxVersion /\ RevokeAll(user.version + 1)
RevokeAllSessions == Open # {} /\ RevokeAll(user.version)

-----------------------------------------------------------------------------
(* A request is sent with a bearer that was handed out at some time and,   *)
(* when it is unsafe, the membership its tab shows and the CSRF token      *)
(* derived from that bearer.                                               *)
Send(w, operation, bearer, expected, target) ==
    /\ work[w].op = "none"
    /\ work' = [work EXCEPT ![w] = [op |-> operation, bearer |-> bearer,
                                    expected |-> expected, target |-> target,
                                    slot |-> None]]
    /\ UNCHANGED <<now, user, members, rows, bearers, holder, copy>>

Arrive(w) ==
    \E bearer \in 1..bearers :
        \/ \E operation \in Reads : Send(w, operation, bearer, None, None)
        \/ \E expected \in Selections :
              \/ Send(w, "logout", bearer, expected, None)
              \/ \E target \in Memberships : Send(w, "switch", bearer, expected, target)

(* _active_session and _validate_unsafe on the row as it is under lock.    *)
Accepts(w, s) ==
    /\ user.active
    /\ Valid(s)
    /\ work[w].op \in Unsafe => rows[s].sealed /\ work[w].expected = rows[s].member

Found(w) == {s \in Slots : rows[s].bearer = work[w].bearer /\ rows[s].state # "absent"}

OpenUnlocked(w, s) ==
    /\ work[w].op # "none" /\ work[w].slot = None
    /\ s \in Found(w)
    /\ Accepts(w, s)
    /\ copy' = [copy EXCEPT ![w] = rows[s]]
    /\ work' = [work EXCEPT ![w].slot = s]
    /\ UNCHANGED <<now, user, members, rows, bearers, holder>>

(* SELECT ... WHERE bearer_digest = ... FOR UPDATE, then the checks.       *)
OpenSession(w, s) ==
    /\ work[w].op # "none" /\ work[w].slot = None
    /\ s \in Found(w)
    /\ Free(s)
    /\ Accepts(w, s)
    /\ holder' = [holder EXCEPT ![s] = w]
    /\ copy' = [copy EXCEPT ![w] = rows[s]]
    /\ work' = [work EXCEPT ![w].slot = s]
    /\ UNCHANGED <<now, user, members, rows, bearers>>

(* The transaction ends and the worker is free for another request.        *)
Finish(w) ==
    /\ work' = [work EXCEPT ![w] = NoWork]
    /\ copy' = [copy EXCEPT ![w] = NoRow]
    /\ holder' = [s \in Slots |-> IF holder[s] = w THEN None ELSE holder[s]]

(* No row, a failed check, a lost connection or a crash: rolled back.      *)
GiveUp(w) ==
    /\ work[w].op # "none"
    /\ Finish(w)
    /\ UNCHANGED <<now, user, members, rows, bearers>>

-----------------------------------------------------------------------------
(* What the transactions do with the copied record.                        *)

TouchAlways(c, t) ==
    [c EXCEPT !.seen = t, !.idle = Min(t + IdleTimeout, c.absolute)]

TouchPastAbsolute(c, t) ==
    IF IsValid(c, t, c.version) /\ t - c.seen >= LastSeenInterval
    THEN [c EXCEPT !.seen = t, !.idle = t + IdleTimeout]
    ELSE c

(* SessionService.resolve: no effect on a record that is not valid.        *)
Touch(c, t) ==
    IF IsValid(c, t, c.version) /\ t - c.seen >= LastSeenInterval
    THEN [c EXCEPT !.seen = t, !.idle = Min(t + IdleTimeout, c.absolute)]
    ELSE c

RotateRenewing(c, t, bearer, m, version) ==
    [Touch(c, t) EXCEPT !.bearer = bearer, !.sealed = TRUE, !.seen = t,
                        !.idle = t + AbsoluteTimeout, !.absolute = t + AbsoluteTimeout,
                        !.member = m, !.memberVersion = version]

(* SessionService.rotate_to_membership, with the CSRF token of the new     *)
(* bearer that switch stores before it commits.                            *)
Rotate(c, t, bearer, m, version) ==
    [Touch(c, t) EXCEPT !.bearer = bearer, !.sealed = TRUE, !.seen = t,
                        !.member = m, !.memberVersion = version]

(* auth.resolve_active_membership                                          *)
ActiveMembership(m, version) ==
    /\ user.active
    /\ user.version = version
    /\ members[m].active

(* PostgresSessionStore.replace writes every column from the record.       *)
Write(w, record) == rows' = [rows EXCEPT ![work[w].slot] = record]

Me(w) ==
    /\ work[w].op = "me"
    /\ copy[w].member # None =>
          /\ ActiveMembership(copy[w].member, copy[w].version)
          /\ members[copy[w].member].version = copy[w].memberVersion
    /\ Write(w, Touch(copy[w], now))
    /\ UNCHANGED bearers

(* Reads the membership list and leaves the row as it is.                  *)
ListMemberships(w) ==
    /\ work[w].op = "memberships"
    /\ UNCHANGED <<rows, bearers>>

(* bootstrap_csrf, and the transaction in which login replaces the random  *)
(* CSRF token of the new session.                                          *)
Seal(w) ==
    /\ work[w].op \in {"bootstrap", "seal"}
    /\ Write(w, [copy[w] EXCEPT !.sealed = TRUE])
    /\ UNCHANGED bearers

Switch(w) ==
    /\ work[w].op = "switch"
    /\ IsValid(copy[w], now, copy[w].version)
    /\ ActiveMembership(work[w].target, copy[w].version)
    /\ bearers < MaxBearers
    /\ bearers' = bearers + 1
    /\ Write(w, Rotate(copy[w], now, bearers + 1, work[w].target,
                       members[work[w].target].version))

Logout(w) ==
    /\ work[w].op = "logout"
    /\ Write(w, [copy[w] EXCEPT !.state = "revoked"])
    /\ UNCHANGED bearers

Apply(w) ==
    /\ work[w].slot # None
    /\ Me(w) \/ ListMemberships(w) \/ Seal(w) \/ Switch(w) \/ Logout(w)
    /\ Finish(w)
    /\ UNCHANGED <<now, user, members>>

-----------------------------------------------------------------------------
(* The clock, and status changes made by operators.                        *)

Tick ==
    /\ now < MaxTime
    /\ now' = now + 1
    /\ UNCHANGED <<user, members, rows, bearers, holder, work, copy>>

Suspend ==
    /\ user.active
    /\ user.version < MaxVersion
    /\ user' = [active |-> FALSE, version |-> user.version + 1]
    /\ UNCHANGED <<now, members, rows, bearers, holder, work, copy>>

Reactivate ==
    /\ ~user.active
    /\ user' = [user EXCEPT !.active = TRUE]
    /\ UNCHANGED <<now, members, rows, bearers, holder, work, copy>>

ChangeMembership(m) ==
    /\ members[m].version < MaxVersion
    /\ members' = [members EXCEPT ![m] = [active |-> ~@.active, version |-> @.version + 1]]
    /\ UNCHANGED <<now, user, rows, bearers, holder, work, copy>>

Next ==
    \/ \E s \in Slots : Issue(s)
    \/ ReplacePassword
    \/ RevokeAllSessions
    \/ \E w \in Workers :
          \/ Arrive(w)
          \/ \E s \in Slots : OpenSession(w, s)
          \/ Apply(w)
          \/ GiveUp(w)
    \/ Tick
    \/ Suspend
    \/ Reactivate
    \/ \E m \in Memberships : ChangeMembership(m)

Spec == Init /\ [][Next]_vars

-----------------------------------------------------------------------------
(* Types of the rows, the clock and the requests' records; every instant a *)
(* row stores lies within the clock's range, and a request that has opened *)
(* no session holds no copy of one.                                        *)
TypeOK ==
    /\ now \in 0..MaxTime
    /\ user \in [active : BOOLEAN, version : 1..MaxVersion]
    /\ members \in [Memberships -> [active : BOOLEAN, version : 1..MaxVersion]]
    /\ rows \in [Slots -> [state : {"absent", "open", "revoked"}, id : 0..MaxBearers,
                           bearer : 0..MaxBearers, sealed : BOOLEAN, version : 0..MaxVersion,
                           created : 0..MaxTime, seen : 0..MaxTime, idle : 0..MaxTime,
                           absolute : 0..MaxTime, member : Selections,
                           memberVersion : 0..MaxVersion]]
    /\ bearers \in 0..MaxBearers
    /\ holder \in [Slots -> Workers \cup {None}]
    /\ work \in [Workers -> [op : Reads \cup Unsafe \cup {"none"}, bearer : 0..MaxBearers,
                             expected : Selections, target : Selections,
                             slot : Slots \cup {None}]]
    /\ \A w \in Workers : work[w].slot = None => copy[w] = NoRow

(* The columns the table's checks and the timeout policy are about: use    *)
(* never moves the absolute end, the idle end never passes it, and no      *)
(* session outlives its last recorded use by more than the idle timeout.   *)
ExpiryPolicy ==
    \A s \in Slots : rows[s].state # "absent" =>
        /\ rows[s].absolute = rows[s].created + AbsoluteTimeout
        /\ rows[s].idle <= rows[s].absolute
        /\ rows[s].idle <= rows[s].seen + IdleTimeout
        /\ rows[s].created <= rows[s].seen /\ rows[s].seen <= now

Ended(s) == rows[s].state # "absent" /\ ~Valid(s)

(* A session that expired, was revoked or whose user version has passed    *)
(* never becomes valid again, although requests that accepted it earlier   *)
(* may still write its row.                                                *)
NoResurrection == [][\A s \in Slots : Ended(s) => Ended(s)']_vars

(* A rotation is a compare-and-swap: the bearer of an open session changes *)
(* only for a request that presented the bearer and the membership the row *)
(* has at that moment, so of several tabs switching at once one wins and a *)
(* tab that shows another membership changes nothing.  A session that a    *)
(* login left without its CSRF token, because it failed between its two    *)
(* transactions, is rotated by nobody until a bootstrap has sealed it.     *)
RotationIsCompareAndSwap ==
    [][\A s \in Slots :
          rows[s].state = "open" /\ rows'[s].bearer # rows[s].bearer =>
              /\ rows[s].sealed
              /\ \E w \in Workers : /\ work[w].op = "switch"
                                    /\ work[w].slot = s
                                    /\ work[w].bearer = rows[s].bearer
                                    /\ work[w].expected = rows[s].member]_vars
=============================================================================
