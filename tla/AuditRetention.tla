--------------------------- MODULE AuditRetention ---------------------------
(***************************************************************************)
(* The security event table over time: events appended by the API, and     *)
(* runs of the retention command that prune what is older than the fixed   *)
(* retention period, several of them possibly at once.                     *)
(*                                                                         *)
(* A batch is one transaction: it deletes the oldest expired rows that no  *)
(* other transaction has locked, appends an event that states how many,    *)
(* looks whether expired rows remain, and commits.  Statements of two      *)
(* batches interleave, a batch may fail at any point, and a commit may     *)
(* succeed without its caller learning of it.                              *)
(***************************************************************************)
EXTENDS AuditContract, FiniteSets

CONSTANTS
    Jobs,        \* runs of the retention command
    Offered,     \* events the API hands to the writer
    Retention,   \* the retention period, 2160 hours
    BatchSize,   \* --batch-size
    MaxBatches,  \* --max-batches
    MaxTime,     \* bound: the last instant of the clock
    MaxRows      \* bound: the API appends no event after this many

ASSUME RetentionAssumption ==
    /\ {Retention, MaxTime, MaxRows} \subseteq Nat
    /\ BatchSize \in 1..1000 /\ MaxBatches \in 1..100

VARIABLES
    now,     \* the database clock
    log,     \* auth.security_events, as committed
    ids,     \* how many event identifiers were generated; each is larger
    job,     \* each run of the command
    erased   \* history: the rows whose deletion each run committed

vars == <<now, log, ids, job, erased>>

Row(e) == [id |-> ids + 1, at |-> now, event |-> e]

NewJob == [pc |-> "idle", cutoff |-> 0, taken |-> {}, event |-> Null, found |-> FALSE,
           deleted |-> 0, batches |-> 0, status |-> "none"]

Init ==
    /\ now = 0
    /\ log = {}
    /\ ids = 0
    /\ job = [j \in Jobs |-> NewJob]
    /\ erased = [j \in Jobs |-> {}]

-----------------------------------------------------------------------------
(* SecurityEventWriter.write: role events need an armed intent, which the  *)
(* role administration obtains, and prune events the maintenance login.    *)
Writable(e) ==
    /\ Validate(e)
    /\ e.type # "security_events_pruned"
    /\ e.type \notin ROLE_EVENT_TYPES

(* An emitter's transaction commits its event with its own changes.        *)
Emit(e) ==
    /\ Writable(e) /\ EventShape(e)
    /\ ids < MaxRows
    /\ log' = log \cup {Row(e)}
    /\ ids' = ids + 1
    /\ UNCHANGED <<now, job, erased>>

Tick ==
    /\ now < MaxTime
    /\ now' = now + 1
    /\ UNCHANGED <<log, ids, job, erased>>

-----------------------------------------------------------------------------
(* auth.prune_security_events                                              *)

Expired(r, cutoff) == r.at < cutoff

InTransaction == {"deleted", "pruned"}

Locked(j) == UNION {job[k].taken : k \in {k \in Jobs \ {j} : job[k].pc \in InTransaction}}

Before(r, q) == r.at < q.at \/ (r.at = q.at /\ r.id < q.id)

(* ORDER BY created_at, id ... LIMIT n                                     *)
Oldest(S, n) == {r \in S : Cardinality({q \in S : Before(q, r)}) < n}

PruneEvent(n) ==
    [SecurityAuditEvent("security_events_pruned", "success")
        EXCEPT !.reason = {"retention_expired"}, !.count = {n}]

(* Mutant of Summary: the event states the size of the batch asked for.    *)
SummaryOfBatch(rows) == IF rows = {} THEN Null ELSE {PruneEvent(BatchSize)}

(* Nothing is recorded of a batch that found nothing.                      *)
Summary(rows) == IF rows = {} THEN Null ELSE {PruneEvent(Cardinality(rows))}

(* The validator's own condition on a prune event.                         *)
Admitted(e) ==
    /\ EventShape(e)
    /\ e.reason = {"retention_expired"}
    /\ e.count \subseteq 1..1000

(* Mutant of StillExpired: rows locked by another run do not count.        *)
StillExpiredUnlocked(j) ==
    \E r \in log \ (job[j].taken \cup Locked(j)) : Expired(r, job[j].cutoff)

(* Deletions of other transactions that have not committed are not seen.   *)
StillExpired(j) == \E r \in log \ job[j].taken : Expired(r, job[j].cutoff)

-----------------------------------------------------------------------------
(* One run of the command.                                                 *)

Move(j, record) == job' = [job EXCEPT ![j] = record]

End(j, record, status) == [record EXCEPT !.pc = "ending", !.status = status, !.taken = {},
                                         !.event = Null]

Start(j) ==
    /\ job[j].pc = "idle"
    /\ Move(j, [job[j] EXCEPT !.pc = "ready"])
    /\ UNCHANGED <<now, log, ids, erased>>

(* main: an argument, a missing --execute or a URL that is not accepted.   *)
Refuse(j) ==
    /\ job[j].pc = "idle"
    /\ Move(j, [job[j] EXCEPT !.pc = "done", !.status = "invalid_configuration"])
    /\ UNCHANGED <<now, log, ids, erased>>

(* transaction_timestamp() is fixed here.                                  *)
Begin(j) ==
    /\ job[j].pc = "ready"
    /\ Move(j, [job[j] EXCEPT !.pc = "open", !.cutoff = now - Retention])
    /\ UNCHANGED <<now, log, ids, erased>>

(* Mutant of Delete: locked rows are taken as well.                        *)
DeleteLocked(j) ==
    /\ job[j].pc = "open"
    /\ Move(j, [job[j] EXCEPT !.pc = "deleted",
                  !.taken = Oldest({r \in log : Expired(r, job[j].cutoff)}, BatchSize)])
    /\ UNCHANGED <<now, log, ids, erased>>

(* FOR UPDATE SKIP LOCKED                                                  *)
Delete(j) ==
    /\ job[j].pc = "open"
    /\ Move(j, [job[j] EXCEPT !.pc = "deleted",
                  !.taken = Oldest({r \in log \ Locked(j) : Expired(r, job[j].cutoff)},
                                   BatchSize)])
    /\ UNCHANGED <<now, log, ids, erased>>

Append(j) ==
    /\ job[j].pc = "deleted"
    /\ \A e \in Summary(job[j].taken) : Admitted(e)
    /\ Move(j, [job[j] EXCEPT !.pc = "pruned", !.found = StillExpired(j),
                  !.event = {Row(e) : e \in Summary(job[j].taken)}])
    /\ ids' = ids + Cardinality(Summary(job[j].taken))
    /\ UNCHANGED <<now, log, erased>>

Commit(j) ==
    /\ job[j].pc = "pruned"
    /\ log' = (log \ job[j].taken) \cup job[j].event
    /\ erased' = [erased EXCEPT ![j] = @ \cup job[j].taken]
    /\ Move(j, [job[j] EXCEPT !.pc = "committed"])
    /\ UNCHANGED <<now, ids>>

Counted(j) == [job[j] EXCEPT !.deleted = @ + Cardinality(job[j].taken), !.batches = @ + 1]

NextBatch(j) == [Counted(j) EXCEPT !.pc = "ready", !.taken = {}, !.event = Null]

(* Mutant of Outcome: a batch that deleted nothing is tried again and      *)
(* again, and the number of batches is not limited.                        *)
OutcomePolling(j) == [NextBatch(j) EXCEPT !.batches = job[j].batches]

Outcome(j) ==
    CASE ~job[j].found -> End(j, Counted(j), "drained")
      [] job[j].found /\ (job[j].taken = {} \/ job[j].batches + 1 = MaxBatches) ->
            End(j, Counted(j), "incomplete")
      [] OTHER -> NextBatch(j)

(* Only an acknowledged commit advances the totals.                        *)
Acknowledge(j) ==
    /\ job[j].pc = "committed"
    /\ Move(j, Outcome(j))
    /\ UNCHANGED <<now, log, ids, erased>>

(* A refused connection, a missing privilege, a timeout, an interrupt, or  *)
(* a connection lost before or after the commit took effect.               *)
Fail(j) ==
    /\ job[j].pc \in {"ready", "open", "deleted", "pruned", "committed"}
    /\ Move(j, End(j, job[j], "database_failure"))
    /\ UNCHANGED <<now, log, ids, erased>>

(* engine.dispose() may fail too; then the status changes, not the totals. *)
Report(j) ==
    /\ job[j].pc = "ending"
    /\ \E status \in {job[j].status, "database_failure"} :
          Move(j, [job[j] EXCEPT !.pc = "done", !.status = status])
    /\ UNCHANGED <<now, log, ids, erased>>

ExitCode(status) == CASE status = "drained"    -> 0
                      [] status = "incomplete" -> 2
                      [] OTHER                 -> 1

Step(j) == \/ Begin(j) \/ Delete(j) \/ Append(j) \/ Commit(j) \/ Acknowledge(j)
           \/ Report(j)

Next ==
    \/ \E e \in Offered : Emit(e)
    \/ Tick
    \/ \E j \in Jobs : Start(j) \/ Refuse(j) \/ Step(j) \/ Fail(j)

Spec == Init /\ [][Next]_vars

(* A started run goes on: every statement has a timeout.                   *)
FairSpec == Spec /\ \A j \in Jobs : WF_vars(Step(j))

-----------------------------------------------------------------------------
Pcs == {"idle", "ready", "open", "deleted", "pruned", "committed", "ending", "done"}
Statuses == {"none", "drained", "incomplete", "database_failure", "invalid_configuration"}

(* Types; a run performs at most --max-batches batches, each of at most    *)
(* --batch-size rows, and two transactions never hold the same row.        *)
TypeOK ==
    /\ now \in 0..MaxTime
    /\ \A r \in log : r.at \in 0..now /\ r.id \in 1..ids
    /\ \A j \in Jobs :
          /\ job[j].pc \in Pcs /\ job[j].status \in Statuses
          /\ job[j].batches \in 0..MaxBatches
          /\ job[j].deleted \in 0..(BatchSize * job[j].batches)
          /\ Cardinality(job[j].taken) <= BatchSize
          /\ job[j].pc \in InTransaction => job[j].taken \cap Locked(j) = {}

Erasures == UNION {erased[j] : j \in Jobs}

Ever == log \cup Erasures

Vouched(r) == IF r.event.type = "security_events_pruned"
              THEN CHOOSE n \in r.event.count : TRUE
              ELSE 0

(* One receipt for each row that a prune event ever committed counts.      *)
Receipts == UNION {{r} \X (1..Vouched(r)) : r \in Ever}

(* However batches interleave, fail or lose their acknowledgement, the     *)
(* prune events ever committed state exactly how many rows are gone: no    *)
(* row is counted by two events, and an erased prune event is itself one   *)
(* of the rows a later event accounts for.                                 *)
EveryErasureIsVouchedFor == Cardinality(Receipts) = Cardinality(Erasures)

(* What the command reports is what it did.  A run that reports no failure *)
(* reports every row it deleted; one that reports a database failure may   *)
(* have deleted at most the one batch whose commit it never heard of; and  *)
(* exit code 0 means that nothing older than the run's last cutoff is      *)
(* left, even when another run held expired rows and then rolled back.     *)
ReportsAreTrue ==
    \A j \in Jobs : job[j].pc = "done" =>
        /\ job[j].deleted <= Cardinality(erased[j])
        /\ Cardinality(erased[j]) <= job[j].deleted + BatchSize
        /\ job[j].status # "database_failure" => job[j].deleted = Cardinality(erased[j])
        /\ ExitCode(job[j].status) = 0 => \A r \in log : ~(r.at < job[j].cutoff)

(* A run that was started ends with a report, whatever other runs hold.    *)
EveryRunEnds == \A j \in Jobs : job[j].pc = "ready" ~> job[j].pc = "done"

-----------------------------------------------------------------------------
(* Events that deviate from an acceptable one in a single group of columns: *)
(* result and reason; identities and permission; subject and count.        *)
Plain(t) ==
    [SecurityAuditEvent(t, SECURITY_EVENT_POLICIES[t].result) EXCEPT
        !.user = IF t = "security_events_pruned" THEN Null ELSE Ids,
        !.session = IF t = "security_events_pruned" THEN Null ELSE Ids,
        !.membership = IF t = "security_events_pruned" THEN Null ELSE Ids,
        !.role = IF t \in ROLE_EVENT_TYPES THEN Ids ELSE Null,
        !.target = IF t \in MEMBERSHIP_ROLE_EVENT_TYPES THEN Ids ELSE Null,
        !.permission = IF t \in ROLE_PERMISSION_EVENT_TYPES THEN Permissions ELSE Null,
        !.count = IF t = "security_events_pruned" THEN {1} ELSE Null]

WithPolicy(t, result, reason) == [Plain(t) EXCEPT !.result = result, !.reason = reason]

WithIdentities(t, u, s, m, r, g, p) ==
    [Plain(t) EXCEPT !.user = u, !.session = s, !.membership = m, !.role = r,
                     !.target = g, !.permission = p]

WithSubject(t, d, k, q, n) ==
    [Plain(t) EXCEPT !.digest = d, !.kind = k, !.key = q, !.count = n]

PolicyCandidates(t) ==
    {WithPolicy(t, result, reason) : result \in Results, reason \in Maybe(Reasons)}

IdentityCandidates(t) ==
    {WithIdentities(t, u, s, m, r, g, p) :
        u \in Maybe(Ids), s \in Maybe(Ids), m \in Maybe(Ids), r \in Maybe(Ids),
        g \in Maybe(Ids), p \in Maybe(Permissions \cup {"unknown"})}

SubjectCandidates(t) ==
    {WithSubject(t, d, k, q, n) :
        d \in Maybe({31, 32}), k \in Maybe({"reset_ip", "unknown"}),
        q \in Maybe({0, 1, 32767, 32768}),
        n \in Maybe({-1, 0, 1000, BigintMax, BigintMax + 1})}

Candidates ==
    UNION {PolicyCandidates(t) \cup IdentityCandidates(t) \cup SubjectCandidates(t) :
              t \in EventTypes}

(* Python's contract and the migration's constraints accept the same       *)
(* events.  An event that only Python accepts would make the trigger roll  *)
(* back the security operation that emits it; one that only the database   *)
(* accepts would be evidence the application has no meaning for.  The      *)
(* contracts do not change, so the empty table is where they are compared. *)
ContractsAgree == Init => \A e \in Candidates : Validate(e) <=> EventShape(e)
=============================================================================
