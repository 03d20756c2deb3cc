# Verification of the Sahl platform foundation

TLA+ models of the parts of this repository whose correctness depends on the
order in which requests, transactions, browser tabs and time meet: password
authentication and recovery, the quotas and single-use states in front of it,
server-side sessions, tenant switching, the checks every protected request
passes and the denials they record, the browser tabs that send those requests,
role administration, the persisted UI settings, the security event contract and
its retention, and the gates of a continuous-integration job. TLC checks every
model on small instances; TLAPS proves every safety property the runs check, and
the refinement, for every value of the constants; of the liveness properties it
proves what they rest on besides fairness.

`PROJECT.json` lists the components, the runs, the source lines behind every
definition, the hazards and the findings. This file says how they fit together.

## The system

| Component | State | Operations | Hard part |
|---|---|---|---|
| Password authentication (`auth/password_authentication.py`, SQL functions of migration 0015) | `auth.password_credentials`, `auth.users` | login, password change | the password is verified against a snapshot, outside the transaction that acts on it |
| Recovery (`auth/controls.py`, migrations 0014 and 0015) | `auth.password_reset_tokens` | reset request, reset completion | tokens presented twice, row-lock cycles |
| Sessions (`auth/sessions.py`, `auth/postgres.py`) | `auth.sessions` | issue with eviction, touch, rotate, logout, revoke all | whole-row writes from a copied record, clock moving inside a transaction |
| Tenant switching (`auth/tenants.py`) | the selected membership of a session | resolve, switch | concurrent switches, membership changes |
| Auth HTTP boundary (`db/auth_http.py`, `auth/http.py`) | cookies, CSRF digests, pre-authentication states | me, memberships, CSRF bootstrap, login, switch, logout | a request presents what its tab knew when it was sent |
| Authorization (`authorization/service.py`, `api/authorization_dependencies.py`) | none of its own | `authorize` | decision and operation are separate transactions |
| Role administration (`services/role_administration.py`, role intents of migration 0015) | `auth.roles`, `role_permissions`, `membership_roles`, intents | create, update, disable, assign and remove | unlocked guards, session revoked mid-way, audit event for every change |
| Persisted UI settings (`ui_settings/service.py`, `db/ui_settings_repository.py`) | one versioned patch per tenant and per user | read, put, delete, resolve | optimistic versions, reads spread over five transactions |
| UI customization provider (`web/.../UiCustomizationProvider.tsx`, `httpUiSettingsSource.ts`) | snapshot, sequence, busy and available flags | load, edit, react to auth events | late answers of overtaken requests |
| Web auth client (`web/src/auth/client.ts`) | generation, CSRF token, selected membership | login, switch, logout, broadcast | answers and broadcasts of older generations |
| Throttling (`auth/controls.py`, migration 0009) | one counter per scope, key and window | consume | counted in the login's own transaction, window boundary |
| Pre-authentication states (`auth/sessions.py`, `auth/postgres.py`) | `auth.preauth_csrf_states` | issue, consume | one state presented by several logins |
| Request checks and denials (`api/authorization_dependencies.py`, `audit/request_events.py`) | the principal copied for each request | authenticate, compare headers, look up the permission, record a denial | three or four transactions, the session switched between them |
| Security audit (`audit/`, migration 0014) | `auth.security_events` | validate, append in the operation's transaction, or after a denial | one contract written in Python and in SQL; a denial's own transaction rolled back |
| Audit retention (`maintenance/`, migration 0016) | the same table | prune in batches, report | concurrent runners, unacknowledged commits |
| CI gates (`.github/ci/*.py`) | scanner cache, process tree, lock files, reports | secret scan, bounded command, dependency audit | descendants that will not end, half-written cache, inputs that move |

Login, change, completion and revoke-all share the credential, user and session
rows; me, switch and logout share the session rows with them; role
administration share-locks the actor's user, session and membership rows; the
settings provider is told of every context change by the auth client. The login
gate runs before the password services; the request checks run before every
route that needs a session or a permission. All of them append to the event
table that the retention command prunes. The CI gates share nothing with the
application but a workspace with each other.

What makes each part correct: a session exists only for somebody who proved the
password now in force; a reset token works once; the session limit holds under
concurrent logins; a session that ended never becomes valid again; a rotation
has one winner; every committed role change has exactly one audit event, made
by an actor whose session was valid when it committed; a settings write
replaces only what its author saw; nothing a tab shows predates the last change
of context; no quota window lets in more than its limit, and no
pre-authentication state more than one login; a request acts only in the context
its tab showed and its session has selected; where an auditor runs no denial
disappears and none is misattributed; what retention
erases is accounted for and what it prints is true; a CI gate passes only when
it has earned it, and always ends.

## Modules

| Module | Models |
|---|---|
| `PasswordAuth` | login, change, reset request, reset completion, revoke-all and logout of one user, one SQL statement that can wait per step, with row locks, the advisory lock and the deadlock detector |
| `CredentialAuthority` | what those services promise, without transactions: the accepted sessions and the hash each one's owner proved |
| `SessionLifecycle` | the session rows over time: requests that open a row, copy it and write it back, while the clock, the user's status and the memberships move |
| `RoleAdmin` | role administration from the permission check to the commit: guards, intent, share locks, change, attestation, event |
| `UiSettings` | settings rows and the tabs that load and edit them |
| `AuthClient` | the tabs of one browser: shared cookies, tokens and memberships in memory, generations, the broadcast channel, and the routes they call |
| `AuditContract` | what an event may look like, as the Python validation and as the frozen SQL checks |
| `DenialAudit` | a call to a route that requires a permission, from its cookie to the denial event |
| `LoginGate` | the way in without a session: pre-authentication, CSRF bootstrap, login up to its quotas |
| `AccessGate` | `DenialAudit` and `LoginGate` composed: requests of every kind overlapping on one session, one clock and one event table |
| `AuditRetention` | the event table, its writers and concurrent runs of the retention command |
| `GitleaksGate`, `CommandGate`, `DependencyGate` | the three gates, step by step |
| `CiJob` | a job that runs gates one after the other in one workspace |
| `*_proofs` | the theorems about the module of that name |
| `MC*` | symmetry sets and constants of the TLC instances |

`DenialAudit` and `AuditRetention` extend `AuditContract`; `CommandGate` and
`DependencyGate` extend `GitleaksGate`, whose scan of standard input judges a
command's output and whose lock-file hashes both other gates take.

### PasswordAuth

A request is used once and runs one operation; `pc` names the statement it is
about to execute. `Start` stands for the snapshot transaction and the Argon2
work; the statements after it belong to the mutating transaction. `holder` maps
each lockable row (credential, user, session, token) and the per-user advisory
lock to the transaction holding it. A transaction's writes appear at its
commit, which is exact here: every row it writes is locked by it from the
statement that writes it. An `UPDATE` that visits several rows is a scan, which
fixes the set from the rows committed at that moment, followed by one lock per
row with PostgreSQL's READ COMMITTED re-check. `Abort` is a crash, a lost
connection, or the deadlock victim.

Abstractions: Argon2 is a salted hash known by its password and the request
that computed it; expiry is one step from `active` to `expired`; suspension
raises the user's version, as ADR-0020 requires of whoever performs it (no code
in the repository does). `born` orders sessions by commit; in the code
`created_at` is read before the advisory lock, so the eviction order of two
simultaneous logins may differ, and no property depends on it. The bearer
rotation that can make a change lose its session is left open as a refusal.

### SessionLifecycle

A worker is a request in progress. `Send` fixes what it presents: any bearer
ever generated, the membership its tab shows. `OpenSession` is the `SELECT ...
FOR UPDATE` with the checks of `_active_session` and `_validate_unsafe`;
`Apply` is the rest of the transaction, working on the copied record at a later
time. Time is a bounded integer clock. The transactions of the password
services appear as single steps that wait for the rows they need.

### RoleAdmin

One tenant. `Authorize` is the decision, in a transaction of its own;
`RequireRole` and `RequireTarget` are the guard reads, `Prepare` is
`prepare_role_security_event`, `Change` the statement with its attesting
trigger, `Record` the event or the cancelled intent, `Commit` the commit with
the deferred check that no intent is left. The share locks of `Prepare` keep
the actor's session, user and membership, and the target membership, as they
are until the commit: revocations and status changes wait for them, the clock
does not. A transaction writes one row, locked from `Change` on; an insert
waits for an uncommitted row of its key, an update or delete for a row it
matches. The insert of a link only key-share locks the role it refers to, so a
role can be disabled between the guard and the insert.

`events` holds the requests whose event is committed (a request has at most
one), which is enough to count them. Display names are abstracted to the
version that changes with them, a role id to its key (roles are never deleted).
The trusted access and the decision are one step, because the decision looks up
every fact of the access again. How the first role of a tenant comes to be is
outside the repository; `Init` has one. The tenant's own status stays active.

### UiSettings

A load is four reads in any order (the effective route's and the layer route's
read of each editable layer; the platform row cannot change through the
application). An overtaken load reads no further because its answers are
dropped. `births` counts the rows an owner has had and `since` the auth events
a tab had seen: both exist for the properties only. A write can fail at the tab
and still be executed by the server. Auth events arrive at any time.
Unmounting is left out.

### AuthClient

A call of a method is a request, or several: `Begin` sends the first one,
`Serve` is the server, `Arrive` the browser taking the answer's cookies,
`Resume` the tab's code looking at the answer, which may send the next request,
and `ReadBody` the second check of `me`. A `Set-Cookie` takes effect whether or
not the code then discards the answer. `Receive` handles a broadcast message.
Messages of one tab may overtake each other here, which `BroadcastChannel` does
not allow; the properties hold all the same. A lost request or answer is one
whose next step is never taken, since a rejected fetch changes nothing at the
tab. A token is known by the bearer it is derived from. The server's routes are
single steps with the order of checks of `_validate_unsafe`; their transactions
are in `SessionLifecycle` and `AccessGate`. Expiry is not repeated: a session
ended by a call whose answer is lost looks the same to a tab. `told` and `from`
exist for the properties only.

`ActsAsShown` is about sessions with a selected membership. Before a membership
is selected the client sends no hint, and a token fetched after another tab's
login lets a request act for the new user while the tab still shows the old one,
until the message arrives; all that such a session can do is select a
membership or log out.

### AuditContract and AuditRetention

`SECURITY_EVENT_POLICIES` and `Validate` are the Python side, `event_contract`
and the other `AUDIT_CHECKS` the SQL side; `ContractsAgree` compares them for
every type, with every result and reason, with every combination of identity,
role and permission columns, and with every combination of subject and count at
their boundaries. A column that may be NULL is a set with at most one member, a digest is
known by its length, and `BigintMax` stands for 2^63 - 1.

A batch of the retention command is one transaction: `Begin` fixes the cutoff,
`Delete` takes the oldest expired rows that no other batch has locked, `Append`
writes the prune event and looks for a backlog, `Commit` publishes both.
`Acknowledge` is the caller's view of the commit, which `Fail` may replace: the
commit took effect and the command does not know. Role events need an armed
intent and are `RoleAdmin`'s; the writer here refuses them and prune events.

### DenialAudit, LoginGate and AccessGate

A call is authenticated in one transaction (`Authenticate`), its headers are
compared with the copy it read (`Check`), its permission is looked up in another
(`Authorize`) and a denial recorded in a third (`RecordDenial`), or lost with a
diagnostic (`LoseDenial`). A login consumes its state in a transaction
(`OpenState`, `ConsumeState`), counts its three quotas in another (`Consume` per
scope, `CommitQuota`) and is then let in or refused; what follows is
`PasswordAuth`. A quota is counted in place and its row stays locked until the
transaction ends, so a refused attempt still counts and an aborted one does not.
The window of a quota is fixed when its statement starts, which is any instant
between the request's previous step and the one in which it gets the row.

Abstractions: the switch, the revocation and the changes of rights are single
environment steps here (`SessionLifecycle` and `RoleAdmin` have them in detail).
All requests come from one address, so a pair of address and name is known by
its name. The session always has a selected membership. The keys of quotas are
digests in the code, taken as collision-free. `spent`, `entered` and `trace`
exist for the properties only.

### CiJob and its gates

`GitleaksGate` prepares the pinned scanner (fetch, store, verify, write, make
executable, check its version) and scans history and files. `CommandGate`
spawns a command, waits, signals its group or job object, waits again, kills,
and judges the output; the command's processes fork, detach, ignore SIGTERM and
hold the inherited pipe as they like, on both systems. `DependencyGate` hashes
the lock files, reads and exports inventories, audits each and compares the
hashes. `Killed` stops any gate at any step and leaves the workspace as it is;
`ChangeLock` rewrites a lock file.

Abstractions: scanners and auditors are external; they may fail, skip a part of
their input or contradict their own exit status, and are trusted only where a
clean status comes without a warning and agrees with the inventory. Of
pip-audit's answer the code compares every row with the inventory, of npm's only
the number of dependencies and the nodes of its findings: that npm examined
those dependencies and not as many others is trusted. An output fails at most one of the checks
made on it; process ids are not reused; a lock file never returns to earlier
contents.

## Runs

| Run | Question | Bounds |
|---|---|---|
| `password_auth` | the safety properties, the refinement, and every request ends | 3 requests of any of the six operations, 2 passwords, 2 sessions, 1 suspension |
| `reset_tokens` | is there ever more than one unused token? (violated) | 3 requests |
| `session_lifecycle` | expiry, no resurrection, rotation | 2 rows, 2 workers, 2 memberships, 2 membership versions, 3 bearers, 4 clock values (0 to 3, the absolute timeout); symmetric rows, workers and memberships |
| `role_admin` | audit trail, actor validity, optimistic versions | 2 requests of any kind, 1 administrator, 1 other member, 2 roles, 3 membership versions; symmetric requests |
| `role_admin_inactive` | can a disabled role gain permissions or members? (violated) | 2 requests |
| `ui_settings` | coherence of what is shown, no blind overwrite | 2 tabs, both layers, 3 edits |
| `ui_settings_events` | nothing from before an auth event; an edit always ends | 2 users' tabs, 1 edit, 1 reload, 1 event each |
| `auth_client` | requests act as shown, no return to an ended session | 2 tabs that have loaded, 3 calls of which one may be a login, 2 users, 2 memberships of one of them; symmetric tabs, memberships and other calls |
| `access_gate` | quotas, single-use states, denial events, the context a call is allowed in; every request is answered | 2 requests, 1 change of session or rights, 2 names, 3 states of which one is issued, limit 1 per scope, windows of 1 and 2 instants, 2 instants, headers that deviate in one or two fields |
| `login_denials` | does every rejected origin or CSRF token leave a trace? (violated) | as `access_gate` |
| `audit_retention` | erasures accounted for, reports true, both contracts equal, every run ends | 2 runs, retention 1, batches of 2, at most 2 batches, 5 instants, 3 appended events |
| `ci_job` | a pass is earned, owned processes end, every gate ends | 2 gates of any kind, 1 rewrite of a lock file, 1 descendant |

Two operations that race plus one that prepares the state they race on (a
session, a token, a row) is three. A fourth request of `password_auth`, a third
party that commits between the two, is beyond an instance that is checked for
liveness as well; the theorems cover it. Three edits create a row, change it and
race. In `role_admin` the provisioned role is what two requests race on, so two are
enough; three membership versions let a membership be withdrawn, restored and
selected again between a grant and its use. `ui_settings_events` needs one
preset value only: which one is shown does not decide whose answer is late.

In `auth_client` three calls are a switch in one tab, a renewed token and a
write in the other.

In `access_gate` a limit of 1 makes two requests enough to exceed it, and the
windows differ so that one scope's window ends while another's goes on; a state
that is already issued lets both requests present it. In `audit_retention` the
clock runs long enough for a prune event to expire and be pruned itself, and
three events do not fit one batch. In `ci_job` the second gate meets what the
first, killed one left; one descendant is enough to keep a pipe open after the
command has ended.

Deadlock checking is off where every request may be finished and nobody has to
start another.

### Fairness

`PasswordAuth`: a started request keeps executing statements that can proceed,
and PostgreSQL aborts a transaction of every cycle of waiters
(`deadlock_timeout`). No request is obliged to start, no client to retry.
`UiSettings`: the network settles requests (a fetch resolves or rejects);
nobody has to edit or reload.
`AccessGate`: the server goes on with every request it has received; no client
has to send one, and no transaction has to fail.
`AuditRetention`: a started run executes its next statement, because
`statement_timeout` and `lock_timeout` end any wait; runs need not start.
`CiJob`: a gate's own steps go on, because each of its waits has a timeout. The
steps of the command's processes carry no fairness.

## Proofs

Each `*_proofs` module proves `Spec => []P` (or `Spec => P` for an action
property) without fairness and for every value of the constants that the named
ASSUMEs of its component allow. The bounds of the models (`MaxTime`, `MaxRows`,
`MaxRuns`...) are such constants: a theorem holds for every bound. The argument is the
same everywhere: a property is seldom inductive as it stands, so `IndInv` adds
what keeps it so; `InitHolds` and `StepKeeps` show that `IndInv` is inductive,
with one lemma per action or group of actions, and the theorem follows from
`IndInv`. TLC checked every `IndInv` on the instance of its run before it was
proved.

The assumptions say that sets of requests are finite where they are counted,
that a default value (`None`, `Nobody`) is none of the values it stands in for,
that limits and timeouts are positive, that an idle timeout is not longer than
an absolute one, and that names, states and memberships exist.

| Module | Theorem | Property |
|---|---|---|
| `PasswordAuth_proofs` | `TypeCorrect` | `TypeOK` |
| | `SessionsMatchCredential` | `UnrevokedMatchCredential`: no session survives, or appears after, a replacement of the password |
| | `TokensWorkOnce` | `TokenUsedOnce` |
| | `ReplacementsAreCurrent` | `NoStaleReplacement`: the credential a change replaces is the one it verified, in a session that is still open; the token of a completion is unused (action property) |
| | `LoginsNeverDeadlock` | `LoginNeverDeadlocks` |
| | `SessionsStayLimited` | `ConcurrentLimit` |
| | `AuthorityImplemented` | `ImplementsAuthority`: the refinement of `CredentialAuthority` |
| | `AuthorityKeepsItsPromises` | what `CredentialAuthority` alone implies for whoever reads the rows: each accepted session proves the password in force, at most the limit of them, none while suspended |
| | `LocksEndWithTheirRequest` | whoever holds a lock is still executing |
| | `RequestsAreBounded` | every statement leaves fewer to execute, or fewer rows to lock (action property) |
| `SessionLifecycle_proofs` | `TypeCorrect`, `TimeoutsHold` | `TypeOK`, `ExpiryPolicy` |
| | `EndedSessionsStayEnded` | `NoResurrection` (action property) |
| | `RotationsAreCompareAndSwap` | `RotationIsCompareAndSwap` (action property) |
| `RoleAdmin_proofs` | `TypeCorrect`, `AuditIsComplete` | `TypeOK`, `AuditExplainsState` |
| | `NoRoleUpdateIsLost` | `NoLostRoleUpdate` (action property) |
| | `ChangesCommitInStanding` | `CommitsInGoodStanding` (action property) |
| `UiSettings_proofs` | `TypeCorrect`, `ShownSettingsCohere` | `TypeOK`, `ShownIsCoherent` |
| | `EventsAreNotOvertaken` | `NothingFromBeforeAnEvent` |
| | `WritesAreCompareAndSwap` | `WriteReplacesWhatWasShown` (action property) |
| | `TabsAreNeverStuck` | a tab that is loading or saving has the request that ends it under way |
| `AuthClient_proofs` | `TypeCorrect`, `ActingAsShown`, `NoTabReturns` | `TypeOK`, `ActsAsShown`, `NoReturn` |
| `AccessGate_proofs` | `TypeCorrect`, `StatesLetOneIn` | `TypeOK`, `StateLetsOneIn` |
| | `AttemptsAreCounted`, `WindowsAreLimited` | `EveryAttemptCounts`, `WindowLimit` |
| | `AnswersAreTrue` | `AnswersMatchRequests` |
| | `AllowedAsTheSessionIs` | `AllowedInTheSessionsContext`: the session as it is, not its copy, lets a call in (action property) |
| | `NoDeadlockOfLocks` | whoever is waited for is further on in the order of the locks |
| | `QuotaEvidenceIsAdmitted` | no quota transaction is refused by the event it writes |
| | `RequestsAdvance` | at most nine steps to the answer, never one back (action property) |
| `AuditRetention_proofs` | `TypeCorrect`, `ReportsHold` | `TypeOK`, `ReportsAreTrue` |
| | `ContractsCoincide` | Python and SQL accept the same events, for every event |
| | `ContractsHold` | `ContractsAgree` |
| | `ErasuresAreVouchedFor` | `EveryErasureIsVouchedFor` |
| | `PruningIsNeverRefused` | the trigger admits the prune event of every batch |
| | `RunsAreBounded` | at most `5 * MaxBatches + 2` steps, each of which counts |
| `CiJob_proofs` | `TypeCorrect`, `ProcessesAreEnded`, `PassesAreEarned` | `TypeOK`, `OwnedProcessesEnd`, `PassIsEarned` |
| | `GatesAdvance` | at most seventeen steps to the verdict, and nothing lengthens the way |

**PasswordAuth.** `UnrevokedMatchCredential` is not inductive: a login that has
confirmed its snapshot inserts a session later, and a replacement revokes only
the rows it locked. `IndInv` adds `ProgramShape` (which statements each
operation can be at), `HoldsCredential` (from its second lock to its commit, a
login, change or completion holds the credential and the user row),
`ConfirmedIsCurrent` (past `Confirm` the request's snapshot is the credential,
since nobody else can write it while the lock is held) and `ScanCovers` (past
the scan of a change or completion every unrevoked session is locked by it or
still on its list, because a login that could insert one would hold the
credential lock). The other theorems use invariants that are inductive relative
to `IndInv`: `TokenLocks` (only a usable token is locked, and a committed
completion has consumed its own), `LockShape` (which locks each operation can
hold at each statement: a login waits for its first lock while it holds
nothing, and later for nobody but a revoke-all with the advisory lock, which
itself waits for nobody), `OwnSession` (a change that scans the sessions holds its
own one, which is hence unrevoked), `Births` (sessions are numbered by their commits, so eviction of
the oldest leaves at most the limit) and `FreshHash` (a salt is in force only
after its request committed). The refinement maps the rows seen between two
commits to the accepted sessions, and each step to a login, a replacement, an
end of sessions, a suspension, a reactivation or a stutter.
`AuthorityKeepsItsPromises` uses nothing but that: it is proved from the abstract
specification and carried over by the refinement.

**SessionLifecycle.** What a request holds is open, equals the copy it read, and
has the bearer and membership the request presented and, for a switch or logout,
its CSRF token (`HeldIsCopied`), so the whole-row write never takes back what
another transaction did.

**RoleAdmin.** The share locks that arm an intent keep the actor's and the
target's rows as they were found (`LocksHeld`), and a statement that has found
its row keeps it locked (`RowHeld`, `RowsApart`); an intent is written exactly
when a row was changed (`IntentSays`). A commit therefore adds one event for
one change, and the counts of `AuditExplainsState` move together.

**UiSettings.** Whatever was read of a row is the row as it is now or a state
that it has left for good (`Past`), two reads of one state agree, and a load
that still counts was started after the last auth event. Equal versions hence
mean equal contents, unless the row was deleted and created again.

**AuthClient.** A tab learns that a session is over only in a step that raises
its generation. An answer that still counts was asked for when the tab knew all
it knows now, and the server gave it from a live session (`AnswersGiven`), while
what a tab knows to be over is not live (`ToldIsOver`).

**AccessGate.** Three independent parts: a quota row is counted by one request
at a time, and what it was let through with stands until its transaction ends
(`Quotas`); a state is open to one request at a time and has let nobody in while
it is unused (`Openings`); what a request has recorded, or has to record, is true
of what it presented (`Evidence`).

**AuditRetention.** Batches in progress hold different rows (`Apart`), and what a
run counts differs from what it erased by at most one unacknowledged batch
(`Totals`). A run that found nothing left can still see another batch's prune
event appear; that event is not older than the run's cutoff, because the batch
that writes it holds a row the run would have found, unless it began later
(`Clean`). `ContractsCoincide` goes through the event types one by one.
`EveryErasureIsVouchedFor` counts receipts, one pair of event and number for each
row an event vouches for, instead of summing the counts, so that it needs no
induction over data: a commit adds as many receipts as rows, because the event
of a batch that has appended it states the number of rows the batch holds
(`Accounts`).

**CiJob.** For each gate and each of its steps, what the steps before it have
established: the scanner in the cache is the pinned one (`Cache`), a command
that is judged has ended with all it owns (`Execution`), its result was earned
(`Judgement`), what was scanned without a finding is clean (`Scanned`), and what
was audited lies between the hashed lock file and today's (`Audited`), so that
equal hashes at the end mean that nothing else was audited.

**What liveness rests on.** The prover handles neither fairness nor ENABLED, so
each `~>` property is checked by TLC alone. What makes it true besides fairness is
safety, and proved for every bound: whoever started has only so many steps to
take, and no step of another adds to them (`RequestsAreBounded`,
`RequestsAdvance`, `RunsAreBounded`, `GatesAdvance`); what it waits for is under
way (`LocksEndWithTheirRequest`, `TabsAreNeverStuck`) or ahead of it
(`NoDeadlockOfLocks`); and what it writes last is not refused
(`QuotaEvidenceIsAdmitted`, `PruningIsNeverRefused`).

Model-checked only:

- liveness: `EveryRequestEnds`, `EditsEnd`, `EveryRequestIsAnswered`,
  `EveryRunEnds`, `EveryGateEnds`. That requests of `PasswordAuth` get out of a
  cycle of waiters is among it: PostgreSQL breaks the cycle, not the code's order
  of locks;
- the three runs that end in a violation, which are counterexamples.

## Findings

`PROJECT.json` quotes each source line. In short: two concurrent reset requests
leave two usable tokens; a role can gain a permission or a member after it was
disabled; a login or pre-authentication bootstrap rejected for its origin or
CSRF token leaves neither an event nor a diagnostic. `AnswersMatchRequests` has
the part of the last claim that holds (`RefusalsAreRecorded`): the routes with an
auditor record what they refuse, or log that they could not.

Observations made while modelling, which no run states:

- Deleting and re-creating a settings layer restarts its version at 1, so a write
  based on the deleted row can replace the new one. `WriteReplacesWhatWasShown`
  is stated for rows that were not re-created.
- The web client discards the answer of a switch or login that succeeded when
  its generation moved meanwhile, for instance because a background request of
  the same tab was refused with 401 once the switch had ended its bearer. The
  cookie is replaced and no message is posted: the other tabs keep the token and
  membership of the ended session until a request of theirs is refused
  (docs/phase-2b.md:159 has them invalidated at once). `ActsAsShown` says that
  this does no more than delay them.
- A switch counts as use (`last_seen_at`) but does not postpone the idle end.
- A missing expected-membership header is recorded as `csrf_invalid`.

## Not modelled

Row-level security and privileges (enforced by PostgreSQL, no state of the
program), the tenant registry (a table without operations in the application),
Argon2, cookie, header, lock-file and report formats, error bodies, logging,
configuration, the design system, and the workflow file that orders the CI
gates. The success events of the session and password services are not recorded
in their models. Each is listed in `PROJECT.json` with the reason.

## Plan

1. `AuthClient` composed with `UiSettings`, so that auth events have a cause and
   tenants can differ; then the proof that what a tab shows belongs to the
   session it is told of.
2. The success events of the session and password services recorded in their
   models, so that `RefusalsAreRecorded` has a counterpart for what is granted.
