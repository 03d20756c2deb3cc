------------------------ MODULE AuditRetention_proofs -------------------------
(***************************************************************************)
(* Safety of AuditRetention for every number of runs and of events, any    *)
(* retention period and any batches.                                       *)
(*                                                                         *)
(* A run that has taken rows keeps them locked, so nobody else erases them *)
(* and what it counts it alone has deleted.  A run that found nothing left *)
(* may still see the prune event of another batch appear; that event is    *)
(* not older than the run's cutoff, because the batch that writes it holds *)
(* a row that the run would have found, unless the batch began later.      *)
(***************************************************************************)
EXTENDS AuditRetention, FiniteSetTheorems, TLAPS

AllRows == [id : Nat, at : Nat, event : Offered \cup {PruneEvent(n) : n \in Nat}]
JobForms == [pc : Pcs, cutoff : Int, taken : SUBSET AllRows, event : SUBSET AllRows,
             found : BOOLEAN, deleted : Nat, batches : Nat, status : Statuses]

Shapes ==
    /\ now \in 0..MaxTime /\ ids \in Nat
    /\ log \in SUBSET AllRows /\ IsFiniteSet(log)
    /\ job \in [Jobs -> JobForms]
    /\ erased \in [Jobs -> SUBSET AllRows]
    /\ \A j \in Jobs : IsFiniteSet(erased[j]) /\ IsFiniteSet(job[j].taken)

(* Identifiers are generated once, and an erased row does not come back.   *)
Identified ==
    /\ \A r \in log : r.at \in 0..now /\ r.id \in 1..ids
    /\ \A r, q \in log : r.id = q.id => r = q
    /\ \A j \in Jobs : \A r \in erased[j] : r.id \in 1..ids /\ \A q \in log : q.id # r.id

(* The event that a batch has appended and not yet committed.              *)
Pending(j) == IF job[j].pc = "pruned" THEN job[j].event ELSE {}

Appended(j) ==
    \A r \in Pending(j) :
        /\ r.at \in 0..now /\ r.id \in 1..ids /\ r.at >= job[j].cutoff
        /\ job[j].taken # {}
        /\ \A q \in Pending(j) : q = r
        /\ \A q \in log : q.id # r.id
        /\ \A k \in Jobs : \A q \in erased[k] : q.id # r.id
        /\ \A k \in Jobs \ {j} : \A q \in Pending(k) : q.id # r.id

(* What a batch has deleted stays locked until its transaction ends.       *)
Held(j) ==
    /\ job[j].cutoff <= now
    /\ job[j].pc \notin InTransaction \cup {"committed"} => job[j].taken = {}
    /\ Cardinality(job[j].taken) <= BatchSize
    /\ job[j].pc \in InTransaction =>
          job[j].taken \subseteq log /\ \A r \in job[j].taken : r.at < job[j].cutoff

Apart == \A j, k \in Jobs : j # k /\ {job[j].pc, job[k].pc} \subseteq InTransaction =>
                               job[j].taken \cap job[k].taken = {}

(* Totals advance when a commit is acknowledged.                           *)
Totals(j) ==
    /\ job[j].batches \in 0..MaxBatches
    /\ job[j].deleted \in 0..(BatchSize * job[j].batches)
    /\ job[j].pc \notin {"ending", "done"} => job[j].batches < MaxBatches
    /\ job[j].pc = "committed" =>
          Cardinality(erased[j]) = job[j].deleted + Cardinality(job[j].taken)
    /\ job[j].pc \in {"ending", "done"} =>
          /\ job[j].deleted <= Cardinality(erased[j])
          /\ Cardinality(erased[j]) <= job[j].deleted + BatchSize
          /\ job[j].status # "database_failure" => job[j].deleted = Cardinality(erased[j])
    /\ job[j].pc \notin {"committed", "ending", "done"} =>
          Cardinality(erased[j]) = job[j].deleted

(* A run that found nothing left, and the rows it is about to remove.      *)
Settled(j) ==
    \/ job[j].pc \in {"pruned", "committed"} /\ ~job[j].found
    \/ job[j].pc \in {"ending", "done"} /\ job[j].status = "drained"
Taking(j) == IF job[j].pc = "pruned" THEN job[j].taken ELSE {}

Clean(j) ==
    Settled(j) => /\ \A r \in log \ Taking(j) : ~(r.at < job[j].cutoff)
                  /\ \A k \in Jobs : \A r \in Pending(k) : ~(r.at < job[j].cutoff)

IndInv ==
    /\ Shapes /\ Identified /\ Apart
    /\ \A j \in Jobs : Appended(j) /\ Held(j) /\ Totals(j) /\ Clean(j)

-----------------------------------------------------------------------------
(* Rows in order.                                                          *)

(* How many rows come before a row.                                        *)
Rank(S, r) == Cardinality({q \in S : Before(q, r)})

(* A row that comes before another one has fewer before it.                *)
LEMMA RankGrows ==
    ASSUME NEW S \in SUBSET AllRows, IsFiniteSet(S), NEW q \in S, NEW r \in S, Before(q, r)
    PROVE  Rank(S, q) \in Nat /\ Rank(S, r) \in Nat /\ Rank(S, q) < Rank(S, r)
<1> DEFINE A == {x \in S : Before(x, q)}
           B == {x \in S : Before(x, r)}
<1>1. \A x \in S : x.at \in Nat /\ x.id \in Nat
  BY DEF AllRows
<1>2. A \subseteq B /\ q \in B /\ q \notin A
  BY <1>1 DEF Before
<1>3. A \subseteq S /\ B \subseteq S
  OBVIOUS
<1>4. Rank(S, q) = Cardinality(A) /\ Rank(S, r) = Cardinality(B)
  BY DEF Rank
<1> HIDE DEF A, B
<1>5. IsFiniteSet(A) /\ IsFiniteSet(B)
  BY <1>3, FS_Subset
<1>6. Cardinality(A) <= Cardinality(B) /\ (Cardinality(B) = Cardinality(A) => B = A)
  BY <1>2, <1>5, FS_Subset
<1>7. Cardinality(A) \in Nat /\ Cardinality(B) \in Nat
  BY <1>5, FS_CardinalityType
<1> QED BY <1>2, <1>4, <1>6, <1>7

(* LIMIT n returns at most n rows.                                         *)
LEMMA OldestBound ==
    ASSUME NEW S \in SUBSET AllRows, IsFiniteSet(S), \A r, q \in S : r.id = q.id => r = q,
           NEW n \in Nat \ {0}
    PROVE  /\ Oldest(S, n) \subseteq S /\ IsFiniteSet(Oldest(S, n))
           /\ Cardinality(Oldest(S, n)) <= n
<1> DEFINE T == Oldest(S, n)
           f == [r \in T |-> Rank(S, r)]
<1>1. T \subseteq S /\ IsFiniteSet(T)
  <2>1. T \subseteq S
    BY DEF Oldest
  <2> QED BY <2>1, FS_Subset
<1>2. ASSUME NEW r \in T PROVE Rank(S, r) \in 0..(n - 1)
  <2>1. Rank(S, r) < n
    BY DEF Oldest, Rank
  <2>2. Rank(S, r) \in Nat
    <3> DEFINE A == {q \in S : Before(q, r)}
    <3>1. A \subseteq S
      OBVIOUS
    <3>2. Rank(S, r) = Cardinality(A)
      BY DEF Rank
    <3> HIDE DEF A
    <3> QED BY <3>1, <3>2, FS_Subset, FS_CardinalityType
  <2> QED BY <2>1, <2>2
<1>3. ASSUME NEW r \in T, NEW q \in T, r # q PROVE Rank(S, r) # Rank(S, q)
  <2>1. r \in S /\ q \in S /\ r.id # q.id
    BY <1>1, <1>3
  <2>2. r.id \in Nat /\ q.id \in Nat /\ r.at \in Nat /\ q.at \in Nat
    BY <2>1 DEF AllRows
  <2>3. Before(q, r) \/ Before(r, q)
    BY <2>1, <2>2 DEF Before
  <2>4. CASE Before(q, r)
    BY <2>1, <2>4, RankGrows
  <2>5. CASE Before(r, q)
    BY <2>1, <2>5, RankGrows
  <2> QED BY <2>3, <2>4, <2>5
<1> HIDE DEF T
<1>4. f \in Injection(T, 0..(n - 1))
  BY <1>2, <1>3 DEF Injection, IsInjective
<1> HIDE DEF f
<1>5. IsFiniteSet(0..(n - 1)) /\ Cardinality(0..(n - 1)) = n
  <2>1. PICK m \in Int : m = n - 1
    OBVIOUS
  <2>2. IsFiniteSet(0..m) /\ Cardinality(0..m) = IF 0 > m THEN 0 ELSE m - 0 + 1
    BY FS_Interval
  <2> QED BY <2>1, <2>2
<1>6. Cardinality(T) <= n
  <2>1. PICK U : U = 0..(n - 1)
    OBVIOUS
  <2> QED BY <1>4, <1>5, <2>1, FS_Injection
<1> QED BY <1>1, <1>6 DEF T

(* Rows that other transactions hold.                                      *)
LEMMA LockedForm ==
    ASSUME NEW j, NEW r
    PROVE  r \in Locked(j) <=>
             \E k \in Jobs \ {j} : job[k].pc \in InTransaction /\ r \in job[k].taken
BY DEF Locked

-----------------------------------------------------------------------------
(* Steps of one run.                                                       *)

(* The fields of a run's record.                                           *)
LEMMA JobForm ==
    ASSUME IndInv, NEW j \in Jobs
    PROVE  /\ job[j] \in JobForms /\ job[j].pc \in Pcs /\ job[j].cutoff \in Int
           /\ job[j].taken \in SUBSET AllRows /\ job[j].event \in SUBSET AllRows
           /\ job[j].found \in BOOLEAN /\ job[j].deleted \in Nat /\ job[j].batches \in Nat
           /\ job[j].status \in Statuses
           /\ IsFiniteSet(job[j].taken) /\ Cardinality(job[j].taken) \in Nat
           /\ IsFiniteSet(erased[j]) /\ Cardinality(erased[j]) \in Nat
<1>1. job[j] \in JobForms /\ IsFiniteSet(job[j].taken) /\ IsFiniteSet(erased[j])
  BY DEF IndInv, Shapes
<1>2. Cardinality(job[j].taken) \in Nat /\ Cardinality(erased[j]) \in Nat
  BY <1>1, FS_CardinalityType
<1> QED BY <1>1, <1>2 DEF JobForms

(* A run moves without touching the table, and has no event to commit.     *)
LEMMA JobMoves ==
    ASSUME IndInv, NEW j \in Jobs, NEW w \in JobForms, job' = [job EXCEPT ![j] = w],
           UNCHANGED <<now, log, ids, erased>>, w.pc # "pruned", IsFiniteSet(w.taken),
           Held(j)', Totals(j)', Clean(j)',
           w.pc \in InTransaction =>
              \A k \in Jobs \ {j} : job[k].pc \in InTransaction => w.taken \cap job[k].taken = {}
    PROVE  IndInv'
<1>1. job'[j] = w /\ \A k \in Jobs \ {j} : job'[k] = job[k]
  BY DEF IndInv, Shapes
<1>2. Shapes'
  BY <1>1 DEF IndInv, Shapes
<1>3. Identified'
  BY DEF IndInv, Identified
<1>4. Apart'
  BY <1>1 DEF IndInv, Apart
<1>5. Pending(j)' = {} /\ \A k \in Jobs \ {j} : Pending(k)' = Pending(k) /\ Taking(k)' = Taking(k)
  BY <1>1 DEF Pending, Taking
<1>6. ASSUME NEW k \in Jobs \ {j} PROVE Appended(k)' /\ Held(k)' /\ Totals(k)' /\ Clean(k)'
  <2>1. Appended(k) /\ Held(k) /\ Totals(k) /\ Clean(k)
    BY DEF IndInv
  <2>2. Appended(k)'
    BY <1>1, <1>5, <2>1 DEF Appended
  <2>3. Held(k)' /\ Totals(k)'
    BY <1>1, <2>1 DEF Held, Totals
  <2>4. Clean(k)'
    BY <1>1, <1>5, <2>1 DEF Clean, Settled
  <2> QED BY <2>2, <2>3, <2>4
<1>7. Appended(j)'
  BY <1>5 DEF Appended
<1> QED BY <1>2, <1>3, <1>4, <1>6, <1>7 DEF IndInv

(* A run is started, refused, or begins a batch.                           *)
LEMMA OpeningKeeps ==
    ASSUME IndInv, NEW j \in Jobs, Start(j) \/ Refuse(j) \/ Begin(j)
    PROVE  IndInv'
<1> DEFINE v == job[j]
<1>0. UNCHANGED <<now, log, ids, erased>> /\ job \in [Jobs -> JobForms] /\ now \in Nat
      /\ Retention \in Nat
  BY RetentionAssumption DEF Start, Refuse, Begin, IndInv, Shapes
<1>1. PICK w \in JobForms :
        /\ job' = [job EXCEPT ![j] = w]
        /\ w.pc \in {"ready", "open", "done"} /\ w.cutoff <= now /\ w.taken = v.taken
        /\ w.deleted = v.deleted /\ w.batches = v.batches
        /\ w.pc = "done" => w.status = "invalid_configuration"
  <2>0. v \in JobForms /\ v.cutoff <= now
    BY JobForm DEF IndInv, Held
  <2>1. CASE Start(j)
    <3>1. PICK w : w = [v EXCEPT !.pc = "ready"]
      OBVIOUS
    <3>2. w \in JobForms
      BY <2>0, <3>1 DEF JobForms, Pcs
    <3>3. w.pc = "ready" /\ w.cutoff = v.cutoff /\ w.taken = v.taken
          /\ w.deleted = v.deleted /\ w.batches = v.batches
      BY <2>0, <3>1 DEF JobForms
    <3> QED BY <2>0, <2>1, <3>1, <3>2, <3>3 DEF Start, Move
  <2>2. CASE Refuse(j)
    <3>1. PICK w : w = [v EXCEPT !.pc = "done", !.status = "invalid_configuration"]
      OBVIOUS
    <3>2. w \in JobForms
      BY <2>0, <3>1 DEF JobForms, Pcs, Statuses
    <3>3. w.pc = "done" /\ w.cutoff = v.cutoff /\ w.taken = v.taken
          /\ w.deleted = v.deleted /\ w.batches = v.batches
          /\ w.status = "invalid_configuration"
      BY <2>0, <3>1 DEF JobForms
    <3> QED BY <2>0, <2>2, <3>1, <3>2, <3>3 DEF Refuse, Move
  <2>3. CASE Begin(j)
    <3>1. PICK c \in Int : c = now - Retention
      BY <1>0
    <3>2. c <= now
      BY <1>0, <3>1
    <3>3. PICK w : w = [v EXCEPT !.pc = "open", !.cutoff = c]
      OBVIOUS
    <3>4. w \in JobForms
      BY <2>0, <3>3 DEF JobForms, Pcs
    <3>5. w.pc = "open" /\ w.cutoff = c /\ w.taken = v.taken
          /\ w.deleted = v.deleted /\ w.batches = v.batches
      BY <2>0, <3>3 DEF JobForms
    <3> QED BY <2>3, <3>1, <3>2, <3>3, <3>4, <3>5 DEF Begin, Move
  <2> QED BY <2>1, <2>2, <2>3
<1>3. w.cutoff \in Int
  BY DEF JobForms
<1>4. v.pc \in {"idle", "ready"} /\ v.taken = {}
  <2>1. v.pc \in {"idle", "ready"}
    BY DEF Start, Refuse, Begin
  <2> QED BY <2>1 DEF IndInv, Held, InTransaction
<1>5. job' = [job EXCEPT ![j] = w] /\ job'[j] = w
  BY <1>0, <1>1
<1>6. Held(j)'
  BY <1>0, <1>1, <1>3, <1>4, <1>5 DEF IndInv, Held, InTransaction
<1>7. Totals(j)'
  <2>1. Totals(j)
    BY DEF IndInv
  <2>2. v.batches \in 0..MaxBatches /\ v.deleted \in 0..(BatchSize * v.batches)
        /\ v.batches < MaxBatches /\ Cardinality(erased[j]) = v.deleted
    BY <1>4, <2>1 DEF Totals
  <2>3. v.deleted \in Nat /\ BatchSize \in Nat
    BY JobForm, RetentionAssumption
  <2> QED BY <1>0, <1>1, <1>3, <1>5, <2>2, <2>3 DEF Totals
<1>8. Clean(j)'
  BY <1>1, <1>3, <1>5 DEF Clean, Settled
<1>9. IsFiniteSet(w.taken) /\ w.pc # "pruned"
  BY <1>1, JobForm
<1> QED BY <1>0, <1>1, <1>4, <1>5, <1>6, <1>7, <1>8, <1>9, JobMoves

(* A batch takes the oldest expired rows that nobody holds.                *)
LEMMA DeleteKeeps ==
    ASSUME IndInv, NEW j \in Jobs, Delete(j)
    PROVE  IndInv'
<1> DEFINE v == job[j]
           S == {r \in log \ Locked(j) : Expired(r, v.cutoff)}
<1>0. /\ UNCHANGED <<now, log, ids, erased>> /\ job \in [Jobs -> JobForms] /\ v.pc = "open"
      /\ log \in SUBSET AllRows /\ IsFiniteSet(log) /\ BatchSize \in Nat \ {0}
      /\ \A r, q \in log : r.id = q.id => r = q
  BY RetentionAssumption DEF Delete, IndInv, Shapes, Identified
<1>1. PICK t : t = Oldest(S, BatchSize)
  OBVIOUS
<1>2. t \subseteq S /\ IsFiniteSet(t) /\ Cardinality(t) <= BatchSize
  <2>1. S \subseteq log
    OBVIOUS
  <2>2. PICK T \in SUBSET AllRows : T = S
    BY <1>0, <2>1
  <2> HIDE DEF S
  <2>3. IsFiniteSet(T) /\ \A r, q \in T : r.id = q.id => r = q
    BY <1>0, <2>1, <2>2, FS_Subset
  <2> QED BY <1>0, <1>1, <2>2, <2>3, OldestBound
<1>3. t \in SUBSET AllRows /\ t \subseteq log /\ \A r \in t : r \notin Locked(j) /\ r.at < v.cutoff
  BY <1>0, <1>2 DEF Expired
<1>4. PICK w : w = [v EXCEPT !.pc = "deleted", !.taken = t]
  OBVIOUS
<1>5. job' = [job EXCEPT ![j] = w] /\ job'[j] = w
  BY <1>0, <1>1, <1>4 DEF Delete, Move
<1> HIDE DEF S
<1>6. /\ w \in JobForms /\ w.pc = "deleted" /\ w.cutoff = v.cutoff /\ w.taken = t
      /\ w.deleted = v.deleted /\ w.batches = v.batches /\ w.status = v.status
  <2>1. v \in JobForms
    BY JobForm
  <2>2. w \in JobForms
    BY <1>3, <1>4, <2>1 DEF JobForms, Pcs
  <2>3. /\ w.pc = "deleted" /\ w.cutoff = v.cutoff /\ w.taken = t
        /\ w.deleted = v.deleted /\ w.batches = v.batches /\ w.status = v.status
    BY <1>4, <2>1 DEF JobForms
  <2> QED BY <2>2, <2>3
<1>7. Held(j)'
  BY <1>0, <1>2, <1>3, <1>5, <1>6 DEF IndInv, Held, InTransaction
<1>8. Totals(j)'
  <2>1. Totals(j)
    BY DEF IndInv
  <2> QED BY <1>0, <1>5, <1>6, <2>1 DEF Totals
<1>9. Clean(j)'
  BY <1>5, <1>6 DEF Clean, Settled
<1>10. ASSUME NEW k \in Jobs \ {j}, job[k].pc \in InTransaction
       PROVE  w.taken \cap job[k].taken = {}
  BY <1>3, <1>6, <1>10, LockedForm
<1>11. IsFiniteSet(w.taken) /\ w.pc # "pruned"
  BY <1>2, <1>6
<1> QED BY <1>0, <1>5, <1>6, <1>7, <1>8, <1>9, <1>10, <1>11, JobMoves

(* A run ends: with a failure, or with its report.                         *)
LEMMA EndingKeeps ==
    ASSUME IndInv, NEW j \in Jobs, Fail(j) \/ Report(j)
    PROVE  IndInv'
<1> DEFINE v == job[j]
<1>0. UNCHANGED <<now, log, ids, erased>> /\ job \in [Jobs -> JobForms]
  BY DEF Fail, Report, IndInv, Shapes
<1>1. PICK w \in JobForms :
        /\ job' = [job EXCEPT ![j] = w]
        /\ w.pc \in {"ending", "done"} /\ w.cutoff = v.cutoff /\ w.taken = {}
        /\ w.deleted = v.deleted /\ w.batches = v.batches
        /\ w.status # "database_failure" => v.pc = "ending" /\ w.status = v.status
  <2>0. v \in JobForms
    BY JobForm
  <2>1. CASE Fail(j)
    <3>1. PICK w : w = [v EXCEPT !.pc = "ending", !.status = "database_failure",
                                 !.taken = {}, !.event = {}]
      OBVIOUS
    <3>2. w \in JobForms
      BY <2>0, <3>1 DEF JobForms, Pcs, Statuses
    <3>3. w.pc = "ending" /\ w.cutoff = v.cutoff /\ w.taken = {}
          /\ w.deleted = v.deleted /\ w.batches = v.batches
          /\ w.status = "database_failure"
      BY <2>0, <3>1 DEF JobForms
    <3> QED BY <2>1, <3>1, <3>2, <3>3 DEF Fail, Move, End, Null
  <2>2. CASE Report(j)
    <3>1. PICK s \in {v.status, "database_failure"} :
            job' = [job EXCEPT ![j] = [v EXCEPT !.pc = "done", !.status = s]]
      BY <2>2 DEF Report, Move
    <3>2. v.pc = "ending" /\ v.taken = {}
      BY <2>2 DEF Report, IndInv, Held, InTransaction
    <3>3. s \in Statuses
      BY JobForm DEF Statuses
    <3>4. PICK w : w = [v EXCEPT !.pc = "done", !.status = s]
      OBVIOUS
    <3>5. w \in JobForms
      BY <2>0, <3>3, <3>4 DEF JobForms, Pcs
    <3>6. w.pc = "done" /\ w.cutoff = v.cutoff /\ w.taken = v.taken
          /\ w.deleted = v.deleted /\ w.batches = v.batches /\ w.status = s
      BY <2>0, <3>4 DEF JobForms
    <3> QED BY <3>1, <3>2, <3>4, <3>5, <3>6
  <2> QED BY <2>1, <2>2
<1>3. w.cutoff \in Int
  BY DEF JobForms
<1>4. job' = [job EXCEPT ![j] = w] /\ job'[j] = w
  BY <1>0, <1>1
<1>5. Cardinality(w.taken) = 0 /\ IsFiniteSet(w.taken) /\ BatchSize \in Nat
  BY <1>1, FS_EmptySet, RetentionAssumption
<1>6. Held(j)'
  <2>1. v.cutoff <= now
    BY DEF IndInv, Held
  <2> QED BY <1>0, <1>1, <1>3, <1>4, <1>5, <2>1 DEF Held, InTransaction
<1>7. Totals(j)'
  <2>1. Totals(j) /\ Held(j)
    BY DEF IndInv
  <2>2. /\ v.deleted <= Cardinality(erased[j])
        /\ Cardinality(erased[j]) <= v.deleted + BatchSize
        /\ w.status # "database_failure" => v.deleted = Cardinality(erased[j])
    <3>1. CASE v.pc \in {"ending", "done"}
      BY <1>1, <2>1, <3>1 DEF Totals
    <3>2. CASE v.pc = "committed"
      BY <1>1, <1>5, <2>1, <3>2, JobForm DEF Totals, Held
    <3>3. CASE v.pc \notin {"committed", "ending", "done"}
      BY <1>1, <1>5, <2>1, <3>3, JobForm DEF Totals
    <3> QED BY <3>1, <3>2, <3>3
  <2> QED BY <1>0, <1>1, <1>4, <2>1, <2>2 DEF Totals
<1>8. Clean(j)'
  <2>1. \A k \in Jobs \ {j} : Pending(k)' = Pending(k)
    BY <1>0, <1>4 DEF Pending
  <2>2. Pending(j)' = {} /\ Taking(j)' = {}
    BY <1>1, <1>4 DEF Pending, Taking
  <2>3. ASSUME w.status = "drained" PROVE Settled(j) /\ Taking(j) = {}
    BY <1>1, <2>3 DEF Settled, Taking
  <2>4. Clean(j)
    BY DEF IndInv
  <2>5. CASE w.status = "drained"
    BY <1>0, <1>1, <1>4, <2>1, <2>2, <2>3, <2>4, <2>5 DEF Clean
  <2>6. CASE w.status # "drained"
    BY <1>1, <1>4, <2>6 DEF Clean, Settled
  <2> QED BY <2>5, <2>6
<1> QED BY <1>0, <1>1, <1>4, <1>5, <1>6, <1>7, <1>8, JobMoves DEF InTransaction

(* A commit is acknowledged, and the run ends or begins its next batch.    *)
LEMMA AcknowledgeKeeps ==
    ASSUME IndInv, NEW j \in Jobs, Acknowledge(j)
    PROVE  IndInv'
<1> DEFINE v == job[j]
<1>0. /\ UNCHANGED <<now, log, ids, erased>> /\ job \in [Jobs -> JobForms]
      /\ v.pc = "committed" /\ v \in JobForms
  BY JobForm DEF Acknowledge, IndInv, Shapes
<1>1. PICK d \in Nat, b \in Nat : d = v.deleted + Cardinality(v.taken) /\ b = v.batches + 1
  BY JobForm
<1>2. PICK w \in JobForms :
        /\ job' = [job EXCEPT ![j] = w]
        /\ w.cutoff = v.cutoff /\ w.taken = {} /\ w.deleted = d /\ w.batches = b
        /\ \/ w.pc = "ready" /\ b # MaxBatches
           \/ w.pc = "ending" /\ w.status = "incomplete"
           \/ w.pc = "ending" /\ w.status = "drained" /\ ~v.found
  <2>1. PICK u : u = [v EXCEPT !.deleted = d, !.batches = b]
    OBVIOUS
  <2>2. u = Counted(j)
    BY <1>1, <2>1 DEF Counted
  <2>3. u \in JobForms
    BY <1>0, <2>1 DEF JobForms
  <2>4. u.cutoff = v.cutoff /\ u.deleted = d /\ u.batches = b
    BY <1>0, <2>1 DEF JobForms
  <2>5. ASSUME NEW s \in {"incomplete", "drained"}
        PROVE  /\ End(j, u, s) \in JobForms
               /\ End(j, u, s).pc = "ending" /\ End(j, u, s).status = s
               /\ End(j, u, s).cutoff = v.cutoff /\ End(j, u, s).taken = {}
               /\ End(j, u, s).deleted = d /\ End(j, u, s).batches = b
    <3>1. PICK x : x = End(j, u, s)
      OBVIOUS
    <3>2. x = [u EXCEPT !.pc = "ending", !.status = s, !.taken = {}, !.event = {}]
      BY <3>1 DEF End, Null
    <3>3. x \in JobForms
      BY <2>3, <3>2 DEF JobForms, Pcs, Statuses
    <3>4. x.pc = "ending" /\ x.status = s /\ x.cutoff = u.cutoff /\ x.taken = {}
          /\ x.deleted = u.deleted /\ x.batches = u.batches
      BY <2>3, <3>2 DEF JobForms
    <3> QED BY <2>4, <3>1, <3>3, <3>4
  <2>6. PICK y : y = NextBatch(j)
    OBVIOUS
  <2>7. y \in JobForms /\ y.pc = "ready" /\ y.cutoff = v.cutoff /\ y.taken = {}
        /\ y.deleted = d /\ y.batches = b
    <3>1. y = [u EXCEPT !.pc = "ready", !.taken = {}, !.event = {}]
      BY <2>2, <2>6 DEF NextBatch, Null
    <3>2. y \in JobForms
      BY <2>3, <3>1 DEF JobForms, Pcs
    <3>3. y.pc = "ready" /\ y.cutoff = u.cutoff /\ y.taken = {}
          /\ y.deleted = u.deleted /\ y.batches = u.batches
      BY <2>3, <3>1 DEF JobForms
    <3> QED BY <2>4, <3>2, <3>3
  <2>8. job' = [job EXCEPT ![j] = Outcome(j)]
    BY DEF Acknowledge, Move
  <2>9. CASE ~v.found
    <3>1. Outcome(j) = End(j, u, "drained")
      BY <2>2, <2>9 DEF Outcome
    <3> QED BY <2>5, <2>8, <2>9, <3>1
  <2>10. CASE v.found /\ (v.taken = {} \/ v.batches + 1 = MaxBatches)
    <3>1. Outcome(j) = End(j, u, "incomplete")
      BY <2>2, <2>10 DEF Outcome
    <3> QED BY <2>5, <2>8, <3>1
  <2>11. CASE v.found /\ v.taken # {} /\ v.batches + 1 # MaxBatches
    <3>1. Outcome(j) = y
      BY <2>6, <2>11 DEF Outcome
    <3> QED BY <1>1, <2>7, <2>8, <2>11, <3>1
  <2> QED BY <2>9, <2>10, <2>11
<1>3. job'[j] = w /\ w.cutoff \in Int
  BY <1>0, <1>2 DEF JobForms
<1>4. Cardinality(w.taken) = 0 /\ IsFiniteSet(w.taken)
  BY <1>2, FS_EmptySet
<1>5. Held(j) /\ Totals(j) /\ Clean(j)
  BY DEF IndInv
<1>6. Held(j)'
  <2>1. v.cutoff <= now /\ BatchSize \in Nat
    BY <1>5, RetentionAssumption DEF Held
  <2> QED BY <1>0, <1>2, <1>3, <1>4, <2>1 DEF Held, InTransaction
<1>7. Totals(j)'
  <2>1. /\ v.batches \in 0..MaxBatches /\ v.batches < MaxBatches
        /\ v.deleted \in 0..(BatchSize * v.batches)
        /\ Cardinality(erased[j]) = v.deleted + Cardinality(v.taken)
        /\ Cardinality(v.taken) <= BatchSize
    BY <1>0, <1>5 DEF Totals, Held
  <2>2. BatchSize \in Nat /\ MaxBatches \in Nat
    BY RetentionAssumption
  <2>3. Cardinality(erased[j]) = d /\ b \in 0..MaxBatches
    BY <1>1, <2>1, <2>2
  <2>4. d \in 0..(BatchSize * b)
    <3>1. BatchSize * b = BatchSize * v.batches + BatchSize
      BY <1>1, <2>2, JobForm
    <3>2. PICK m \in Nat : m = BatchSize * v.batches
      BY <2>2, JobForm
    <3>3. v.deleted <= m /\ BatchSize * b = m + BatchSize
      BY <2>1, <3>1, <3>2
    <3> QED BY <1>1, <2>1, <2>2, <3>3, JobForm
  <2>5. d <= d + BatchSize
    BY <2>2
  <2>6. b # MaxBatches => b < MaxBatches
    BY <2>2, <2>3
  <2> QED BY <1>0, <1>2, <1>3, <2>3, <2>4, <2>5, <2>6 DEF Totals
<1>8. Clean(j)'
  <2>1. \A k \in Jobs \ {j} : Pending(k)' = Pending(k)
    BY <1>0, <1>2 DEF Pending
  <2>2. Pending(j)' = {} /\ Taking(j)' = {} /\ Taking(j) = {}
    BY <1>0, <1>2, <1>3 DEF Pending, Taking
  <2>3. Settled(j)' => Settled(j)
    BY <1>0, <1>2, <1>3 DEF Settled
  <2> QED BY <1>0, <1>2, <1>3, <1>5, <2>1, <2>2, <2>3 DEF Clean
<1> QED BY <1>0, <1>2, <1>3, <1>4, <1>6, <1>7, <1>8, JobMoves DEF InTransaction

(* A batch appends the event that states how many rows it took.            *)
LEMMA AppendKeeps ==
    ASSUME IndInv, NEW j \in Jobs, Append(j)
    PROVE  IndInv'
<1> DEFINE v == job[j]
<1>0. /\ UNCHANGED <<now, log, erased>> /\ job \in [Jobs -> JobForms]
      /\ v.pc = "deleted" /\ v \in JobForms /\ now \in Nat /\ ids \in Nat
  BY JobForm DEF Append, IndInv, Shapes
<1>1. PICK E : E = {Row(e) : e \in Summary(v.taken)}
  OBVIOUS
<1>2. /\ E \in SUBSET AllRows /\ ids' \in Nat /\ ids <= ids'
      /\ \A r \in E : /\ r.id = ids + 1 /\ r.at = now /\ v.taken # {} /\ ids' = ids + 1
                      /\ \A q \in E : q = r
  <2>1. ids' = ids + Cardinality(Summary(v.taken))
    BY DEF Append
  <2>2. CASE v.taken = {}
    <3>1. Summary(v.taken) = {}
      BY <2>2 DEF Summary, Null
    <3>2. E = {} /\ ids' = ids
      BY <1>0, <1>1, <2>1, <3>1, FS_EmptySet
    <3> QED BY <1>0, <3>2
  <2>3. CASE v.taken # {}
    <3>1. PICK p : p = PruneEvent(Cardinality(v.taken))
      OBVIOUS
    <3>2. Summary(v.taken) = {p}
      BY <2>3, <3>1 DEF Summary
    <3>3. E = {Row(p)} /\ ids' = ids + 1
      BY <1>1, <2>1, <3>2, FS_Singleton
    <3>4. Row(p) \in AllRows
      <4>1. p \in {PruneEvent(n) : n \in Nat}
        BY <3>1, JobForm
      <4> QED BY <1>0, <4>1 DEF Row, AllRows
    <3>5. Row(p).id = ids + 1 /\ Row(p).at = now
      BY DEF Row
    <3> QED BY <1>0, <2>3, <3>3, <3>4, <3>5
  <2> QED BY <2>2, <2>3
<1>3. PICK f \in BOOLEAN : f = StillExpired(j)
  BY DEF StillExpired
<1>4. PICK w : w = [v EXCEPT !.pc = "pruned", !.found = f, !.event = E]
  OBVIOUS
<1>5. job' = [job EXCEPT ![j] = w] /\ job'[j] = w /\ \A k \in Jobs \ {j} : job'[k] = job[k]
  BY <1>0, <1>1, <1>3, <1>4 DEF Append, Move
<1>6. /\ w.pc = "pruned" /\ w.cutoff = v.cutoff /\ w.taken = v.taken /\ w.event = E
      /\ w.found = f /\ w.deleted = v.deleted /\ w.batches = v.batches /\ w.status = v.status
  BY <1>0, <1>4 DEF JobForms
<1>7. w \in JobForms
  <2>1. PICK u : u = [v EXCEPT !.pc = "pruned", !.event = E]
    OBVIOUS
  <2>2. u \in JobForms
    BY <1>0, <1>2, <2>1 DEF JobForms, Pcs
  <2>3. w = [u EXCEPT !.found = f]
    BY <1>0, <1>4, <2>1 DEF JobForms
  <2> QED BY <2>2, <2>3 DEF JobForms
<1>8. /\ Pending(j)' = E /\ Taking(j)' = v.taken /\ Pending(j) = {}
      /\ \A k \in Jobs \ {j} : Pending(k)' = Pending(k) /\ Taking(k)' = Taking(k)
  BY <1>0, <1>5, <1>6 DEF Pending, Taking
<1>9. Shapes'
  BY <1>0, <1>2, <1>5, <1>6, <1>7 DEF IndInv, Shapes
<1>10. Identified'
  BY <1>0, <1>2 DEF IndInv, Identified
<1>11. Apart'
  BY <1>0, <1>5, <1>6 DEF IndInv, Apart, InTransaction
<1>12. \A k \in Jobs : Appended(k) /\ Held(k) /\ Totals(k) /\ Clean(k) /\ job[k].cutoff \in Int
  BY JobForm DEF IndInv
<1>13. \A k \in Jobs : Appended(k)'
  <2>1. Appended(j)'
    <3>1. ASSUME NEW r \in E
          PROVE  /\ \A q \in log : q.id # r.id
                 /\ \A k \in Jobs : \A q \in erased[k] : q.id # r.id
                 /\ \A k \in Jobs \ {j} : \A q \in Pending(k) : q.id # r.id
      <4>1. r.id = ids + 1
        BY <1>2
      <4>2. /\ \A q \in log : q.id \in 1..ids
            /\ \A k \in Jobs : \A q \in erased[k] : q.id \in 1..ids
        BY DEF IndInv, Identified
      <4>3. \A k \in Jobs : \A q \in Pending(k) : q.id \in 1..ids
        BY <1>12 DEF Appended
      <4>4. \A n \in 1..ids : n # ids + 1
        BY <1>0
      <4> QED BY <4>1, <4>2, <4>3, <4>4
    <3>2. ASSUME NEW r \in E PROVE r.at \in 0..now /\ r.id \in 1..ids' /\ r.at >= v.cutoff
      BY <1>0, <1>2, <1>12 DEF Held
    <3> QED BY <1>0, <1>2, <1>5, <1>6, <1>8, <3>1, <3>2 DEF Appended
  <2>2. ASSUME NEW k \in Jobs \ {j} PROVE Appended(k)'
    <3>1. \A r \in Pending(k) : \A q \in E : q.id # r.id
      BY <1>0, <1>2, <1>12 DEF Appended
    <3>2. \A r \in Pending(k) : r.id \in 1..ids'
      BY <1>0, <1>2, <1>12 DEF Appended
    <3> QED BY <1>0, <1>5, <1>8, <1>12, <3>1, <3>2 DEF Appended
  <2> QED BY <2>1, <2>2
<1>14. \A k \in Jobs : Held(k)' /\ Totals(k)'
  <2>1. Held(j)'
    BY <1>0, <1>5, <1>6, <1>12 DEF Held, InTransaction
  <2>2. Totals(j)'
    BY <1>0, <1>5, <1>6, <1>12 DEF Totals
  <2>3. \A k \in Jobs \ {j} : Held(k)' /\ Totals(k)'
    BY <1>0, <1>5, <1>12 DEF Held, Totals
  <2> QED BY <2>1, <2>2, <2>3
<1>15. \A k \in Jobs : Clean(k)'
  <2>1. ASSUME ~f PROVE \A r \in log \ v.taken : ~(r.at < v.cutoff)
    BY <1>3, <2>1 DEF StillExpired, Expired
  <2>2. ASSUME ~f, NEW k \in Jobs \ {j}, NEW r \in Pending(k) PROVE ~(r.at < v.cutoff)
    <3>1. job[k].pc = "pruned" /\ r.at \in Int /\ r.at >= job[k].cutoff /\ job[k].taken # {}
      BY <1>0, <1>12 DEF Appended, Pending
    <3>2. PICK t \in job[k].taken : TRUE
      BY <3>1
    <3>3. t \in log /\ t.at < job[k].cutoff /\ t.at \in Int
      <4>1. job[k].taken \subseteq log /\ t.at < job[k].cutoff
        BY <1>12, <3>1 DEF Held, InTransaction
      <4> QED BY <1>0, <4>1 DEF IndInv, Identified
    <3>4. t \notin v.taken
      BY <1>0, <3>1 DEF IndInv, Apart, InTransaction
    <3>5. ~(t.at < v.cutoff)
      BY <2>1, <2>2, <3>3, <3>4
    <3> QED BY <1>12, <3>1, <3>3, <3>5
  <2>3. \A k \in Jobs : \A r \in E : ~(r.at < job[k].cutoff)
    BY <1>0, <1>2, <1>12 DEF Held
  <2>4. Clean(j)'
    BY <1>0, <1>5, <1>6, <1>8, <2>1, <2>2, <2>3 DEF Clean, Settled
  <2>5. ASSUME NEW k \in Jobs \ {j} PROVE Clean(k)'
    <3>1. Settled(k)' <=> Settled(k)
      BY <1>5 DEF Settled
    <3>2. Clean(k)
      BY <1>12
    <3> QED BY <1>0, <1>5, <1>8, <2>3, <3>1, <3>2 DEF Clean
  <2> QED BY <2>4, <2>5
<1> QED BY <1>9, <1>10, <1>11, <1>13, <1>14, <1>15 DEF IndInv

(* A batch commits: its rows are gone and its event is there.              *)
LEMMA CommitKeeps ==
    ASSUME IndInv, NEW j \in Jobs, Commit(j)
    PROVE  IndInv'
<1> DEFINE v == job[j]
           T == job[j].taken
           E == job[j].event
<1>0. /\ UNCHANGED <<now, ids>> /\ job \in [Jobs -> JobForms] /\ v.pc = "pruned"
      /\ v \in JobForms /\ log' = (log \ T) \cup E /\ IsFiniteSet(log)
      /\ erased' = [erased EXCEPT ![j] = @ \cup T] /\ erased \in [Jobs -> SUBSET AllRows]
      /\ log \in SUBSET AllRows /\ T \in SUBSET AllRows /\ E \in SUBSET AllRows
  BY JobForm DEF Commit, IndInv, Shapes
<1>1. PICK w : w = [v EXCEPT !.pc = "committed"]
  OBVIOUS
<1>2. job' = [job EXCEPT ![j] = w] /\ job'[j] = w /\ \A k \in Jobs \ {j} : job'[k] = job[k]
  BY <1>0, <1>1 DEF Commit, Move
<1>3. w \in JobForms
  BY <1>0, <1>1 DEF JobForms, Pcs
<1>4. /\ w.pc = "committed" /\ w.cutoff = v.cutoff /\ w.taken = T /\ w.found = v.found
      /\ w.deleted = v.deleted /\ w.batches = v.batches /\ w.status = v.status
  BY <1>0, <1>1 DEF JobForms
<1>5. erased'[j] = erased[j] \cup T /\ \A k \in Jobs \ {j} : erased'[k] = erased[k]
  BY <1>0
<1>6. /\ Pending(j) = E /\ Taking(j) = T /\ Pending(j)' = {} /\ Taking(j)' = {}
      /\ \A k \in Jobs \ {j} : Pending(k)' = Pending(k) /\ Taking(k)' = Taking(k)
  BY <1>0, <1>2, <1>4 DEF Pending, Taking
<1>7. \A k \in Jobs : Appended(k) /\ Held(k) /\ Totals(k) /\ Clean(k)
  BY DEF IndInv
<1>8. T \subseteq log
  BY <1>0, <1>7 DEF Held, InTransaction
<1>9. \A r \in E :
        /\ r.at \in 0..now /\ r.id \in 1..ids /\ \A q \in E : q = r
        /\ \A q \in log : q.id # r.id
        /\ \A k \in Jobs : \A q \in erased[k] : q.id # r.id
        /\ \A k \in Jobs \ {j} : \A q \in Pending(k) : q.id # r.id
  BY <1>6, <1>7 DEF Appended
<1>10. /\ \A r \in log : r.at \in 0..now /\ r.id \in 1..ids
       /\ \A r, q \in log : r.id = q.id => r = q
       /\ \A k \in Jobs : \A r \in erased[k] : r.id \in 1..ids /\ \A q \in log : q.id # r.id
  BY DEF IndInv, Identified
<1>11. IsFiniteSet(T) /\ IsFiniteSet(erased[j])
  BY JobForm
<1> HIDE DEF T, E
<1>12. Shapes'
  <2>1. IsFiniteSet(E)
    <3>1. CASE E = {}
      BY <3>1, FS_EmptySet
    <3>2. CASE E # {}
      <4>1. PICK r \in E : \A q \in E : q = r
        BY <1>9, <3>2
      <4>2. E = {r}
        BY <4>1
      <4> QED BY <4>2, FS_Singleton
    <3> QED BY <3>1, <3>2
  <2>2. IsFiniteSet(log \ T)
    BY <1>0, FS_Difference
  <2>3. IsFiniteSet(log')
    <3>1. PICK A : A = log \ T
      OBVIOUS
    <3> QED BY <1>0, <2>1, <2>2, <3>1, FS_Union
  <2>4. IsFiniteSet(erased[j] \cup T)
    BY <1>11, FS_Union
  <2>5. log' \in SUBSET AllRows /\ job' \in [Jobs -> JobForms]
    BY <1>0, <1>2, <1>3
  <2>6. erased' \in [Jobs -> SUBSET AllRows]
    BY <1>0, <1>5
  <2>7. \A k \in Jobs : IsFiniteSet(erased[k]) /\ IsFiniteSet(job[k].taken)
    BY JobForm
  <2>8. \A k \in Jobs : IsFiniteSet(erased'[k]) /\ IsFiniteSet(job'[k].taken)
    BY <1>2, <1>4, <1>5, <1>11, <2>4, <2>7
  <2>9. now \in 0..MaxTime /\ ids \in Nat
    BY DEF IndInv, Shapes
  <2> QED BY <1>0, <2>3, <2>5, <2>6, <2>8, <2>9 DEF Shapes
<1>13. Identified'
  <2>1. \A r \in log' : r.at \in 0..now /\ r.id \in 1..ids
    BY <1>0, <1>9, <1>10
  <2>2. \A r, q \in log' : r.id = q.id => r = q
    BY <1>0, <1>9, <1>10
  <2>3. ASSUME NEW k \in Jobs, NEW r \in erased'[k]
        PROVE  r.id \in 1..ids /\ \A q \in log' : q.id # r.id
    <3>1. CASE r \in erased[k]
      BY <1>0, <1>9, <1>10, <3>1
    <3>2. CASE k = j /\ r \in T
      BY <1>0, <1>8, <1>9, <1>10, <3>2
    <3> QED BY <1>5, <3>1, <3>2
  <2> QED BY <1>0, <2>1, <2>2, <2>3 DEF Identified
<1>14. Apart'
  BY <1>2, <1>4 DEF IndInv, Apart, InTransaction
<1>15. \A k \in Jobs : Appended(k)'
  <2>1. Appended(j)'
    BY <1>6 DEF Appended
  <2>2. ASSUME NEW k \in Jobs \ {j} PROVE Appended(k)'
    <3>1. Appended(k) /\ Pending(k)' = Pending(k) /\ job'[k] = job[k]
      BY <1>2, <1>6, <1>7
    <3>2. ASSUME NEW r \in Pending(k) PROVE \A q \in log' : q.id # r.id
      BY <1>0, <1>9, <3>1 DEF Appended
    <3>3. ASSUME NEW r \in Pending(k), NEW h \in Jobs
          PROVE  \A q \in erased'[h] : q.id # r.id
      BY <1>5, <1>8, <3>1 DEF Appended
    <3>4. ASSUME NEW r \in Pending(k), NEW h \in Jobs \ {k}
          PROVE  \A q \in Pending(h)' : q.id # r.id
      BY <1>6, <3>1 DEF Appended
    <3> QED BY <1>0, <3>1, <3>2, <3>3, <3>4 DEF Appended
  <2> QED BY <2>1, <2>2
<1>16. \A k \in Jobs : Held(k)'
  <2>1. Held(j)'
    BY <1>0, <1>2, <1>4, <1>7 DEF Held, InTransaction, T
  <2>2. ASSUME NEW k \in Jobs \ {j}, job[k].pc \in InTransaction PROVE job[k].taken \subseteq log'
    <3>1. job[k].taken \subseteq log
      BY <1>7, <2>2 DEF Held
    <3>2. job[k].taken \cap T = {}
      BY <1>0, <2>2 DEF IndInv, Apart, InTransaction, T
    <3> QED BY <1>0, <3>1, <3>2
  <2>3. ASSUME NEW k \in Jobs \ {j} PROVE Held(k)'
    BY <1>0, <1>2, <1>7, <2>2 DEF Held
  <2> QED BY <2>1, <2>3
<1>17. \A k \in Jobs : Totals(k)'
  <2>1. Cardinality(erased'[j]) = v.deleted + Cardinality(T)
    <3>1. erased[j] \cap T = {}
      BY <1>8, <1>10
    <3>2. Cardinality(erased[j]) = v.deleted
      BY <1>0, <1>7 DEF Totals
    <3>3. Cardinality(erased[j] \cup T)
            = Cardinality(erased[j]) + Cardinality(T) - Cardinality(erased[j] \cap T)
      BY <1>11, FS_Union
    <3>4. Cardinality(erased[j] \cap T) = 0
      BY <3>1, FS_EmptySet
    <3>5. Cardinality(erased[j]) \in Nat /\ Cardinality(T) \in Nat
      BY <1>11, FS_CardinalityType
    <3> QED BY <1>5, <3>2, <3>3, <3>4, <3>5
  <2>2. Totals(j)'
    BY <1>0, <1>2, <1>4, <1>7, <2>1 DEF Totals
  <2>3. \A k \in Jobs \ {j} : Totals(k)'
    BY <1>2, <1>5, <1>7 DEF Totals
  <2> QED BY <2>2, <2>3
<1>18. \A k \in Jobs : Clean(k)'
  <2>1. Clean(j)'
    <3>1. Settled(j)' => Settled(j)
      BY <1>0, <1>2, <1>4 DEF Settled
    <3>2. Clean(j)
      BY <1>7
    <3> QED BY <1>0, <1>2, <1>4, <1>6, <3>1, <3>2 DEF Clean
  <2>2. ASSUME NEW k \in Jobs \ {j} PROVE Clean(k)'
    <3>1. Settled(k)' <=> Settled(k)
      BY <1>2 DEF Settled
    <3>2. Clean(k)
      BY <1>7
    <3> QED BY <1>0, <1>2, <1>6, <3>1, <3>2 DEF Clean
  <2> QED BY <2>1, <2>2
<1> QED BY <1>12, <1>13, <1>14, <1>15, <1>16, <1>17, <1>18 DEF IndInv

-----------------------------------------------------------------------------
(* Steps of the API and of the clock.                                      *)

(* An event is appended by the API.                                        *)
LEMMA EmitKeeps ==
    ASSUME IndInv, NEW e \in Offered, Emit(e)
    PROVE  IndInv'
<1>1. PICK x : x = Row(e)
  OBVIOUS
<1>2. /\ log' = log \cup {x} /\ ids' = ids + 1 /\ UNCHANGED <<now, job, erased>>
      /\ ids \in Nat /\ now \in Nat /\ log \in SUBSET AllRows /\ IsFiniteSet(log)
  BY <1>1 DEF Emit, IndInv, Shapes
<1>3. x \in AllRows /\ x.id = ids + 1 /\ x.at = now
  BY <1>1, <1>2 DEF Row, AllRows
<1>4. \A k \in Jobs : /\ Appended(k) /\ Held(k) /\ Totals(k) /\ Clean(k)
                      /\ job[k].cutoff \in Int
                      /\ Pending(k)' = Pending(k) /\ Taking(k)' = Taking(k)
  BY <1>2, JobForm DEF IndInv, Pending, Taking
<1>5. Shapes'
  <2>1. IsFiniteSet(log')
    BY <1>2, FS_AddElement
  <2> QED BY <1>2, <1>3, <2>1 DEF IndInv, Shapes
<1>6. \A n \in 1..ids : n # x.id /\ n \in 1..ids'
  BY <1>2, <1>3
<1>7. Identified'
  <2>1. /\ \A r \in log : r.at \in 0..now /\ r.id \in 1..ids
        /\ \A r, q \in log : r.id = q.id => r = q
        /\ \A j \in Jobs : \A r \in erased[j] : r.id \in 1..ids /\ \A q \in log : q.id # r.id
    BY DEF IndInv, Identified
  <2>2. x.at \in 0..now /\ x.id \in 1..ids'
    BY <1>2, <1>3
  <2>3. \A r \in log' : r.at \in 0..now /\ r.id \in 1..ids'
    BY <1>2, <1>6, <2>1, <2>2
  <2>4. \A r, q \in log' : r.id = q.id => r = q
    BY <1>2, <1>6, <2>1
  <2>5. \A j \in Jobs : \A r \in erased[j] : r.id \in 1..ids' /\ \A q \in log' : q.id # r.id
    BY <1>2, <1>6, <2>1
  <2> QED BY <1>2, <2>3, <2>4, <2>5 DEF Identified
<1>8. Apart'
  BY <1>2 DEF IndInv, Apart
<1>9. ASSUME NEW k \in Jobs PROVE Appended(k)'
  <2>1. Appended(k)
    BY <1>4
  <2>2. \A r \in Pending(k) : r.id \in 1..ids' /\ \A q \in log' : q.id # r.id
    BY <1>2, <1>6, <2>1 DEF Appended
  <2> QED BY <1>2, <1>4, <2>1, <2>2 DEF Appended
<1>10. \A k \in Jobs : Held(k)' /\ Totals(k)'
  BY <1>2, <1>4 DEF Held, Totals
<1>11. ASSUME NEW k \in Jobs PROVE Clean(k)'
  <2>1. ~(x.at < job[k].cutoff)
    BY <1>2, <1>3, <1>4 DEF Held
  <2>2. Clean(k) /\ (Settled(k)' <=> Settled(k))
    BY <1>2, <1>4 DEF Settled
  <2> QED BY <1>2, <1>4, <2>1, <2>2 DEF Clean
<1> QED BY <1>5, <1>7, <1>8, <1>9, <1>10, <1>11 DEF IndInv

(* The clock advances.                                                     *)
LEMMA TickKeeps ==
    ASSUME IndInv, Tick
    PROVE  IndInv'
<1>1. now' = now + 1 /\ now < MaxTime /\ UNCHANGED <<log, ids, job, erased>> /\ now \in Nat
      /\ MaxTime \in Nat
  BY RetentionAssumption DEF Tick, IndInv, Shapes
<1>2. \A k \in Jobs : /\ Appended(k) /\ Held(k) /\ Totals(k) /\ Clean(k)
                      /\ job[k].cutoff \in Int
                      /\ Pending(k)' = Pending(k) /\ Taking(k)' = Taking(k)
  BY <1>1, JobForm DEF IndInv, Pending, Taking
<1>3. Shapes'
  BY <1>1 DEF IndInv, Shapes
<1>4. Identified'
  BY <1>1 DEF IndInv, Identified
<1>5. Apart'
  BY <1>1 DEF IndInv, Apart
<1>6. \A k \in Jobs : Appended(k)'
  BY <1>1, <1>2 DEF Appended
<1>7. \A k \in Jobs : Held(k)' /\ Totals(k)'
  BY <1>1, <1>2 DEF Held, Totals
<1>8. \A k \in Jobs : Clean(k)'
  BY <1>1, <1>2 DEF Clean, Settled
<1> QED BY <1>3, <1>4, <1>5, <1>6, <1>7, <1>8 DEF IndInv

-----------------------------------------------------------------------------
(* The invariant holds.                                                    *)

(* In the empty table.                                                     *)
LEMMA InitHolds == Init => IndInv
<1> SUFFICES ASSUME Init PROVE IndInv
  OBVIOUS
<1>1. /\ now = 0 /\ log = {} /\ ids = 0 /\ job = [j \in Jobs |-> NewJob]
      /\ erased = [j \in Jobs |-> {}] /\ {MaxTime, MaxBatches, BatchSize} \subseteq Nat
      /\ MaxBatches > 0
  BY RetentionAssumption DEF Init
<1>2. NewJob \in JobForms
  BY DEF NewJob, JobForms, Pcs, Statuses, Null
<1>3. NewJob.pc = "idle" /\ NewJob.cutoff = 0 /\ NewJob.taken = {}
      /\ NewJob.deleted = 0 /\ NewJob.batches = 0
  BY DEF NewJob
<1> HIDE DEF NewJob
<1>4. \A j \in Jobs : job[j] = NewJob /\ erased[j] = {} /\ Pending(j) = {} /\ ~Settled(j)
  BY <1>1, <1>3 DEF Pending, Settled
<1>5. IsFiniteSet({}) /\ Cardinality({}) = 0
  BY FS_EmptySet
<1>6. Shapes
  BY <1>1, <1>2, <1>3, <1>5 DEF Shapes
<1>7. Identified /\ Apart
  BY <1>1, <1>3, <1>4 DEF Identified, Apart, InTransaction
<1>8. ASSUME NEW j \in Jobs PROVE Appended(j) /\ Held(j) /\ Totals(j) /\ Clean(j)
  <2>1. Appended(j) /\ Clean(j)
    BY <1>4 DEF Appended, Clean
  <2>2. Held(j)
    BY <1>1, <1>3, <1>4, <1>5 DEF Held, InTransaction
  <2>3. Totals(j)
    BY <1>1, <1>3, <1>4, <1>5 DEF Totals
  <2> QED BY <2>1, <2>2, <2>3
<1> QED BY <1>6, <1>7, <1>8 DEF IndInv

(* Through every step.                                                     *)
LEMMA StepKeeps == IndInv /\ [Next]_vars => IndInv'
<1> SUFFICES ASSUME IndInv, [Next]_vars PROVE IndInv'
  OBVIOUS
<1>1. CASE \E e \in Offered : Emit(e)
  BY <1>1, EmitKeeps
<1>2. CASE Tick
  BY <1>2, TickKeeps
<1>3. ASSUME NEW j \in Jobs, Start(j) \/ Refuse(j) \/ Step(j) \/ Fail(j) PROVE IndInv'
  BY <1>3, OpeningKeeps, DeleteKeeps, AppendKeeps, CommitKeeps, AcknowledgeKeeps, EndingKeeps
     DEF Step
<1>4. CASE UNCHANGED vars
  <2>1. UNCHANGED <<now, log, ids, job, erased>>
    BY <1>4 DEF vars
  <2>2. Shapes' /\ Identified' /\ Apart'
    BY <2>1 DEF IndInv, Shapes, Identified, Apart
  <2>3. \A k \in Jobs : Appended(k)' /\ Held(k)' /\ Totals(k)'
    BY <2>1 DEF IndInv, Appended, Held, Totals, Pending
  <2>4. \A k \in Jobs : Clean(k)'
    BY <2>1 DEF IndInv, Clean, Settled, Taking, Pending
  <2> QED BY <2>2, <2>3, <2>4 DEF IndInv
<1> QED BY <1>1, <1>2, <1>3, <1>4 DEF Next

(* In every behaviour.                                                     *)
LEMMA IndInvAlways == Spec => []IndInv
BY InitHolds, StepKeeps, PTL DEF Spec

(* Times and identifiers are in range; a run performs at most the batches  *)
(* it was asked for, each of at most the rows it was asked for; and SKIP   *)
(* LOCKED gives two concurrent transactions different rows.                *)
THEOREM TypeCorrect == Spec => []TypeOK
<1>1. IndInv => TypeOK
  <2> SUFFICES ASSUME IndInv PROVE TypeOK
    OBVIOUS
  <2>1. now \in 0..MaxTime /\ \A r \in log : r.at \in 0..now /\ r.id \in 1..ids
    BY DEF IndInv, Shapes, Identified
  <2>2. ASSUME NEW j \in Jobs
        PROVE  /\ job[j].pc \in Pcs /\ job[j].status \in Statuses
               /\ job[j].batches \in 0..MaxBatches
               /\ job[j].deleted \in 0..(BatchSize * job[j].batches)
               /\ Cardinality(job[j].taken) <= BatchSize
    BY JobForm DEF IndInv, Totals, Held
  <2>3. ASSUME NEW j \in Jobs, job[j].pc \in InTransaction
        PROVE  job[j].taken \cap Locked(j) = {}
    <3>1. ASSUME NEW r \in job[j].taken, r \in Locked(j) PROVE FALSE
      <4>1. PICK k \in Jobs \ {j} : job[k].pc \in InTransaction /\ r \in job[k].taken
        BY <3>1, LockedForm
      <4> QED BY <2>3, <3>1, <4>1 DEF IndInv, Apart
    <3> QED BY <3>1
  <2> QED BY <2>1, <2>2, <2>3 DEF TypeOK
<1> QED BY <1>1, IndInvAlways, PTL

(* What a run reports is what it deleted, up to one unacknowledged batch   *)
(* when it reports a failure, and exit code 0 means that no row older than *)
(* its cutoff is left, for any number of concurrent runs.                  *)
THEOREM ReportsHold == Spec => []ReportsAreTrue
<1>1. IndInv => ReportsAreTrue
  <2> SUFFICES ASSUME IndInv, NEW j \in Jobs, job[j].pc = "done"
               PROVE  /\ job[j].deleted <= Cardinality(erased[j])
                      /\ Cardinality(erased[j]) <= job[j].deleted + BatchSize
                      /\ job[j].status # "database_failure" =>
                            job[j].deleted = Cardinality(erased[j])
                      /\ ExitCode(job[j].status) = 0 => \A r \in log : ~(r.at < job[j].cutoff)
    BY DEF ReportsAreTrue
  <2>1. Totals(j) /\ Clean(j)
    BY DEF IndInv
  <2>2. ASSUME ExitCode(job[j].status) = 0 PROVE job[j].status = "drained"
    BY <2>2 DEF ExitCode
  <2>3. ASSUME job[j].status = "drained" PROVE \A r \in log : ~(r.at < job[j].cutoff)
    BY <2>1, <2>3 DEF Clean, Settled, Taking
  <2> QED BY <2>1, <2>2, <2>3 DEF Totals
<1> QED BY <1>1, IndInvAlways, PTL

-----------------------------------------------------------------------------
(* The two contracts.                                                      *)

(* A column that holds at most one value.                                  *)
Optional(x) == x = {} \/ \E y : x = {y}

(* It is an optional member of S when all it holds is in S.                *)
LEMMA MaybeForm ==
    ASSUME NEW S, NEW x, Optional(x)
    PROVE  x \in Maybe(S) <=> x \subseteq S
BY DEF Optional, Maybe, Null

(* The catalogue, without its order.                                       *)
LEMMA Catalogue ==
    EventTypes =
        {"login_success", "login_failure", "logout", "session_revoked",
         "all_sessions_revoked", "password_changed", "password_reset_requested",
         "password_reset_completed", "membership_denied", "tenant_switch",
         "throttling_triggered", "authorization_denied", "csrf_rejected",
         "origin_rejected", "role_created", "role_updated", "role_disabled",
         "role_permission_assigned", "role_permission_removed",
         "membership_role_assigned", "membership_role_removed", "security_events_pruned"}
BY DEF EventTypes, SECURITY_EVENT_POLICIES

(* Result and reason: the policies of the application are the rows of the  *)
(* migration's constraint.                                                 *)
LEMMA PoliciesAgree ==
    ASSUME NEW e, Optional(e.reason)
    PROVE  ValidPolicy(e) <=> event_contract(e)
<1>1. ASSUME NEW t \in EventTypes, NEW result, NEW S, e.type = t,
             SECURITY_EVENT_POLICIES[t] = Policy(result, S)
      PROVE  ValidPolicy(e) <=> e.result = result /\ e.reason \subseteq S
  <2>1. e.reason \in Maybe(S) <=> e.reason \subseteq S
    BY MaybeForm
  <2> QED BY <1>1, <2>1 DEF ValidPolicy, Policy
<1>2. CASE e.type \in
            {"login_success", "password_reset_requested", "tenant_switch",
             "role_created", "role_updated", "role_disabled", "role_permission_assigned",
             "role_permission_removed", "membership_role_assigned",
             "membership_role_removed"}
  <2> DEFINE S == {}
  <2>1. SECURITY_EVENT_POLICIES[e.type] = Policy("success", S)
    BY <1>2 DEF SECURITY_EVENT_POLICIES
  <2>2. ValidPolicy(e) <=> e.result = "success" /\ e.reason \subseteq S
    BY <1>1, <1>2, <2>1, Catalogue
  <2> QED BY <1>2, <2>2 DEF event_contract, Null
<1>3. CASE e.type = "login_failure"
  <2> DEFINE S == {"invalid_credentials", "dependency_unavailable"}
  <2>1. SECURITY_EVENT_POLICIES[e.type] = Policy("failure", S)
    BY <1>3 DEF SECURITY_EVENT_POLICIES
  <2>2. ValidPolicy(e) <=> e.result = "failure" /\ e.reason \subseteq S
    BY <1>1, <1>3, <2>1, Catalogue
  <2> QED BY <1>3, <2>2 DEF event_contract, Null
<1>4. CASE e.type = "logout"
  <2> DEFINE S == {"logout"}
  <2>1. SECURITY_EVENT_POLICIES[e.type] = Policy("success", S)
    BY <1>4 DEF SECURITY_EVENT_POLICIES
  <2>2. ValidPolicy(e) <=> e.result = "success" /\ e.reason \subseteq S
    BY <1>1, <1>4, <2>1, Catalogue
  <2> QED BY <1>4, <2>2 DEF event_contract, Null
<1>5. CASE e.type = "session_revoked"
  <2> DEFINE S == {"concurrent_limit", "logout", "revoke_all", "password_reset"}
  <2>1. SECURITY_EVENT_POLICIES[e.type] = Policy("success", S)
    BY <1>5 DEF SECURITY_EVENT_POLICIES
  <2>2. ValidPolicy(e) <=> e.result = "success" /\ e.reason \subseteq S
    BY <1>1, <1>5, <2>1, Catalogue
  <2> QED BY <1>5, <2>2 DEF event_contract, Null
<1>6. CASE e.type = "all_sessions_revoked"
  <2> DEFINE S == {"revoke_all", "password_reset"}
  <2>1. SECURITY_EVENT_POLICIES[e.type] = Policy("success", S)
    BY <1>6 DEF SECURITY_EVENT_POLICIES
  <2>2. ValidPolicy(e) <=> e.result = "success" /\ e.reason \subseteq S
    BY <1>1, <1>6, <2>1, Catalogue
  <2> QED BY <1>6, <2>2 DEF event_contract, Null
<1>7. CASE e.type \in {"password_changed", "password_reset_completed"}
  <2> DEFINE S == {"password_reset"}
  <2>1. SECURITY_EVENT_POLICIES[e.type] = Policy("success", S)
    BY <1>7 DEF SECURITY_EVENT_POLICIES
  <2>2. ValidPolicy(e) <=> e.result = "success" /\ e.reason \subseteq S
    BY <1>1, <1>7, <2>1, Catalogue
  <2> QED BY <1>7, <2>2 DEF event_contract, Null
<1>8. CASE e.type = "membership_denied"
  <2> DEFINE S == {"membership_unavailable", "dependency_unavailable"}
  <2>1. SECURITY_EVENT_POLICIES[e.type] = Policy("denied", S)
    BY <1>8 DEF SECURITY_EVENT_POLICIES
  <2>2. ValidPolicy(e) <=> e.result = "denied" /\ e.reason \subseteq S
    BY <1>1, <1>8, <2>1, Catalogue
  <2> QED BY <1>8, <2>2 DEF event_contract, Null
<1>9. CASE e.type = "throttling_triggered"
  <2> DEFINE S == {"csrf_bootstrap", "login_username", "login_ip", "login_ip_username",
                  "reset_username", "reset_ip"}
  <2>1. SECURITY_EVENT_POLICIES[e.type] = Policy("denied", S)
    BY <1>9 DEF SECURITY_EVENT_POLICIES
  <2>2. ValidPolicy(e) <=> e.result = "denied" /\ e.reason \subseteq S
    BY <1>1, <1>9, <2>1, Catalogue
  <2> QED BY <1>9, <2>2 DEF event_contract, Null
<1>10. CASE e.type = "authorization_denied"
  <2> DEFINE S == {"permission_denied", "membership_unavailable",
                  "dependency_unavailable"}
  <2>1. SECURITY_EVENT_POLICIES[e.type] = Policy("denied", S)
    BY <1>10 DEF SECURITY_EVENT_POLICIES
  <2>2. ValidPolicy(e) <=> e.result = "denied" /\ e.reason \subseteq S
    BY <1>1, <1>10, <2>1, Catalogue
  <2> QED BY <1>10, <2>2 DEF event_contract, Null
<1>11. CASE e.type = "csrf_rejected"
  <2> DEFINE S == {"csrf_missing", "csrf_invalid", "csrf_stale"}
  <2>1. SECURITY_EVENT_POLICIES[e.type] = Policy("denied", S)
    BY <1>11 DEF SECURITY_EVENT_POLICIES
  <2>2. ValidPolicy(e) <=> e.result = "denied" /\ e.reason \subseteq S
    BY <1>1, <1>11, <2>1, Catalogue
  <2> QED BY <1>11, <2>2 DEF event_contract, Null
<1>12. CASE e.type = "origin_rejected"
  <2> DEFINE S == {"origin_denied"}
  <2>1. SECURITY_EVENT_POLICIES[e.type] = Policy("denied", S)
    BY <1>12 DEF SECURITY_EVENT_POLICIES
  <2>2. ValidPolicy(e) <=> e.result = "denied" /\ e.reason \subseteq S
    BY <1>1, <1>12, <2>1, Catalogue
  <2> QED BY <1>12, <2>2 DEF event_contract, Null
<1>13. CASE e.type = "security_events_pruned"
  <2> DEFINE S == {"retention_expired"}
  <2>1. SECURITY_EVENT_POLICIES[e.type] = Policy("success", S)
    BY <1>13 DEF SECURITY_EVENT_POLICIES
  <2>2. ValidPolicy(e) <=> e.result = "success" /\ e.reason \subseteq S
    BY <1>1, <1>13, <2>1, Catalogue
  <2> QED BY <1>13, <2>2 DEF event_contract, Null
<1>14. CASE e.type \notin EventTypes
  BY <1>14, Catalogue DEF ValidPolicy, event_contract
<1> QED BY <1>2, <1>3, <1>4, <1>5, <1>6, <1>7, <1>8, <1>9, <1>10, <1>11, <1>12, <1>13, <1>14,
           Catalogue

(* Python's validation and the migration's constraints accept the same     *)
(* events, whatever their identities, permissions, subjects and counts     *)
(* are: every event with at most one reason, an integer key version and an *)
(* integer count.                                                          *)
THEOREM ContractsCoincide ==
    ASSUME NEW e, Optional(e.reason), e.key \subseteq Int, e.count \subseteq Int
    PROVE  Validate(e) <=> EventShape(e)
<1>1. ValidPolicy(e) <=> event_contract(e)
  BY PoliciesAgree
<1>2. ValidIdentity(e) <=> identity_shape(e)
  BY DEF ValidIdentity, identity_shape, Given, Null, ROLE_EVENT_TYPES,
         ROLE_PERMISSION_EVENT_TYPES, MEMBERSHIP_ROLE_EVENT_TYPES
<1>3. ValidRole(e) <=> role_shape(e) /\ target_membership_shape(e)
  BY DEF ValidRole, role_shape, target_membership_shape, Given, Null, ROLE_EVENT_TYPES,
         ROLE_PERMISSION_EVENT_TYPES, MEMBERSHIP_ROLE_EVENT_TYPES
<1>4. ValidPermission(e) <=> permission_catalog(e) /\ permission_shape(e)
  BY DEF ValidPermission, permission_catalog, permission_shape, Given, Null,
         ROLE_PERMISSION_EVENT_TYPES
<1>5. ValidSubject(e) <=> subject_shape(e)
  BY DEF ValidSubject, subject_shape, HasSubject, Given, Null, SubjectKinds
<1>6. ASSUME subject_shape(e) PROVE e.key \subseteq -SmallintMax - 1 .. SmallintMax
  <2>1. SmallintMax \in Nat
    BY DEF SmallintMax
  <2>2. e.key = {} \/ e.key \subseteq 1..SmallintMax
    BY <1>6 DEF subject_shape, Given, Null
  <2> QED BY <2>1, <2>2
<1>7. BigintMax \in Nat
  BY BigintAssumption
<1>8. ASSUME ValidCount(e)
      PROVE  affected_count_shape(e) /\ \A n \in e.count : -BigintMax - 1 <= n /\ n <= BigintMax
  <2>1. CASE e.type = "security_events_pruned"
    <3>1. Given(e.count) /\ e.count \subseteq 0..BigintMax /\ Identities(e) = {Null}
          /\ ~HasSubject(e)
      BY <1>8, <2>1 DEF ValidCount
    <3>2. \A n \in e.count : n >= 0 /\ -BigintMax - 1 <= n /\ n <= BigintMax
      BY <1>7, <3>1
    <3> QED BY <2>1, <3>1, <3>2 DEF affected_count_shape, Identities, HasSubject, Given
  <2>2. CASE e.type # "security_events_pruned"
    BY <1>8, <2>2 DEF ValidCount, affected_count_shape, Given, Null
  <2> QED BY <2>1, <2>2
<1>9. ASSUME affected_count_shape(e), \A n \in e.count : -BigintMax - 1 <= n /\ n <= BigintMax
      PROVE  ValidCount(e)
  <2>1. CASE e.type = "security_events_pruned"
    <3>1. /\ Given(e.count) /\ \A n \in e.count : n >= 0
          /\ ~Given(e.user) /\ ~Given(e.session) /\ ~Given(e.membership)
          /\ ~Given(e.role) /\ ~Given(e.target) /\ ~HasSubject(e)
      BY <1>9, <2>1 DEF affected_count_shape, HasSubject
    <3>2. e.count \subseteq 0..BigintMax
      BY <1>7, <1>9, <3>1
    <3>3. Identities(e) = {Null}
      BY <3>1 DEF Identities, Given
    <3> QED BY <2>1, <3>1, <3>2, <3>3 DEF ValidCount
  <2>2. CASE e.type # "security_events_pruned"
    BY <1>9, <2>2 DEF ValidCount, affected_count_shape
  <2> QED BY <2>1, <2>2
<1>10. subject_shape(e) /\ ValidCount(e) => Castable(e) /\ affected_count_shape(e)
  BY <1>6, <1>8 DEF Castable
<1>11. Castable(e) /\ affected_count_shape(e) => ValidCount(e)
  BY <1>9 DEF Castable
<1> QED BY <1>1, <1>2, <1>3, <1>4, <1>5, <1>10, <1>11 DEF Validate, EventShape

(* The comparison that the run makes on the empty table, event by event,   *)
(* for every set of identifiers and of permissions.                        *)
THEOREM ContractsHold == Spec => []ContractsAgree
<1>1. ContractsAgree
  <2> SUFFICES ASSUME NEW e \in Candidates PROVE Validate(e) <=> EventShape(e)
    BY DEF ContractsAgree
  <2>1. PICK t \in EventTypes :
          e \in PolicyCandidates(t) \cup IdentityCandidates(t) \cup SubjectCandidates(t)
    BY DEF Candidates
  <2>2. Plain(t).reason = {} /\ Plain(t).key = {} /\ Plain(t).count \subseteq Int
    BY DEF Plain, SecurityAuditEvent, Null
  <2>3. Optional(e.reason) /\ e.key \subseteq Int /\ e.count \subseteq Int
    <3>1. CASE e \in PolicyCandidates(t)
      <4>1. PICK result \in Results, reason \in Maybe(Reasons) :
              e = WithPolicy(t, result, reason)
        BY <3>1 DEF PolicyCandidates
      <4>2. e.reason = reason /\ e.key = Plain(t).key /\ e.count = Plain(t).count
        BY <4>1 DEF WithPolicy, Plain, SecurityAuditEvent
      <4>3. Optional(reason)
        BY DEF Optional, Maybe, Null
      <4> QED BY <2>2, <4>2, <4>3
    <3>2. CASE e \in IdentityCandidates(t)
      <4>1. \E u, s, m, r, g, p : e = WithIdentities(t, u, s, m, r, g, p)
        BY <3>2 DEF IdentityCandidates
      <4>2. PICK u, s, m, r, g, p : e = WithIdentities(t, u, s, m, r, g, p)
        BY <4>1
      <4>3. e.reason = Plain(t).reason /\ e.key = Plain(t).key /\ e.count = Plain(t).count
        BY <4>2 DEF WithIdentities, Plain, SecurityAuditEvent
      <4> QED BY <2>2, <4>3 DEF Optional
    <3>3. CASE e \in SubjectCandidates(t)
      <4> DEFINE Q == {0, 1, 32767, 32768}
                 N == {-1, 0, 1000, BigintMax, BigintMax + 1}
      <4>1. PICK d \in Maybe({31, 32}), k \in Maybe({"reset_ip", "unknown"}),
                 q \in Maybe(Q), n \in Maybe(N) : e = WithSubject(t, d, k, q, n)
        BY <3>3 DEF SubjectCandidates
      <4>2. e.reason = Plain(t).reason /\ e.key = q /\ e.count = n
        BY <4>1 DEF WithSubject, Plain, SecurityAuditEvent
      <4>3. Q \subseteq Int /\ N \subseteq Int
        BY BigintAssumption
      <4> HIDE DEF Q, N
      <4>4. q \subseteq Int /\ n \subseteq Int
        BY <4>3 DEF Maybe, Null
      <4> QED BY <2>2, <4>2, <4>4 DEF Optional
    <3> QED BY <2>1, <3>1, <3>2, <3>3
  <2> QED BY <2>3, ContractsCoincide
<1> QED BY <1>1, PTL

-----------------------------------------------------------------------------
(* Erasures.  A batch that has appended its event holds exactly the rows   *)
(* that the event counts, so its commit adds as many receipts as erasures. *)

CountsItsRows(j) ==
    job[j].pc = "pruned" =>
        /\ job[j].taken # {} => job[j].event # {}
        /\ \A r \in job[j].event : r.event = PruneEvent(Cardinality(job[j].taken))

Accounts ==
    /\ \A j \in Jobs : CountsItsRows(j)
    /\ IsFiniteSet(Receipts) /\ IsFiniteSet(Erasures)
    /\ EveryErasureIsVouchedFor

(* A prune event vouches for what it counts, and no other event for        *)
(* anything.                                                               *)
LEMMA VouchedForm ==
    ASSUME NEW r, NEW n \in Nat
    PROVE  /\ r.event = PruneEvent(n) => Vouched(r) = n
           /\ r.event.type # "security_events_pruned" => Vouched(r) = 0
<1>1. PruneEvent(n).type = "security_events_pruned" /\ PruneEvent(n).count = {n}
  BY DEF PruneEvent, SecurityAuditEvent
<1>2. (CHOOSE m \in {n} : TRUE) = n
  OBVIOUS
<1> QED BY <1>1, <1>2 DEF Vouched

(* What is counted once more, when something new is counted.               *)
LEMMA PairsAdded ==
    ASSUME NEW A, NEW P, NEW x, NEW n \in Nat, IsFiniteSet(A),
           P = {x} \X (1..n), A \cap P = {}
    PROVE  IsFiniteSet(A \cup P) /\ Cardinality(A \cup P) = Cardinality(A) + n
<1>1. IsFiniteSet({x}) /\ Cardinality({x}) = 1
  BY FS_Singleton
<1>2. IsFiniteSet(1..n) /\ Cardinality(1..n) = n
  BY FS_Interval
<1>3. IsFiniteSet(P) /\ Cardinality(P) = 1 * n
  <2>1. PICK X, S : X = {x} /\ S = 1..n
    OBVIOUS
  <2>2. IsFiniteSet(X) /\ IsFiniteSet(S) /\ Cardinality(X) = 1 /\ Cardinality(S) = n
    BY <1>1, <1>2, <2>1
  <2>3. P = X \X S
    BY <2>1
  <2>4. IsFiniteSet(X \X S) /\ Cardinality(X \X S) = Cardinality(X) * Cardinality(S)
    BY ONLY <2>2, FS_Product, Zenon
  <2> QED BY <2>2, <2>3, <2>4
<1>4. Cardinality(A) \in Nat
  BY FS_CardinalityType
<1>5. Cardinality(A \cap P) = 0
  BY FS_EmptySet
<1>6. IsFiniteSet(A \cup P)
      /\ Cardinality(A \cup P) = Cardinality(A) + Cardinality(P) - Cardinality(A \cap P)
  BY <1>3, FS_Union
<1> QED BY <1>3, <1>4, <1>5, <1>6

(* A step of a run that neither appends nor commits leaves the accounts.   *)
LEMMA AccountsUntouched ==
    ASSUME IndInv, Accounts, UNCHANGED <<log, erased>>,
           \A j \in Jobs : job'[j].pc = "pruned" => job'[j] = job[j]
    PROVE  Accounts'
<1>1. Ever' = Ever /\ Erasures' = Erasures
  BY DEF Ever, Erasures
<1>2. Receipts' = Receipts
  BY <1>1 DEF Receipts
<1>3. \A j \in Jobs : CountsItsRows(j)'
  BY DEF Accounts, CountsItsRows
<1> QED BY <1>1, <1>2, <1>3 DEF Accounts, EveryErasureIsVouchedFor

(* The event of a batch counts the batch.                                  *)
LEMMA AppendAccounts ==
    ASSUME IndInv, Accounts, NEW j \in Jobs, Append(j)
    PROVE  Accounts'
<1> DEFINE v == job[j]
<1>0. /\ UNCHANGED <<log, erased>> /\ job \in [Jobs -> JobForms] /\ v \in JobForms
  BY JobForm DEF Append, IndInv, Shapes
<1>1. PICK E : E = {Row(e) : e \in Summary(v.taken)}
  OBVIOUS
<1>2. /\ v.taken # {} => E # {}
      /\ \A r \in E : r.event = PruneEvent(Cardinality(v.taken))
  <2>1. PICK p : p = PruneEvent(Cardinality(v.taken))
    OBVIOUS
  <2>2. Summary(v.taken) = IF v.taken = {} THEN {} ELSE {p}
    BY <2>1 DEF Summary, Null
  <2>3. Row(p).event = p
    BY DEF Row
  <2> QED BY <1>1, <2>1, <2>2, <2>3
<1>3. PICK w : w = [v EXCEPT !.pc = "pruned", !.found = StillExpired(j), !.event = E]
  OBVIOUS
<1>4. job'[j] = w /\ \A k \in Jobs \ {j} : job'[k] = job[k]
  BY <1>0, <1>1, <1>3 DEF Append, Move
<1>5. w.taken = v.taken /\ w.event = E
  BY <1>0, <1>3 DEF JobForms
<1>6. \A k \in Jobs : CountsItsRows(k)'
  BY <1>2, <1>4, <1>5 DEF Accounts, CountsItsRows
<1>7. Ever' = Ever /\ Erasures' = Erasures
  BY <1>0 DEF Ever, Erasures
<1>8. Receipts' = Receipts
  BY <1>7 DEF Receipts
<1> QED BY <1>6, <1>7, <1>8 DEF Accounts, EveryErasureIsVouchedFor

(* A commit adds the receipts of its event and the erasures it is for.     *)
LEMMA CommitAccounts ==
    ASSUME IndInv, Accounts, NEW j \in Jobs, Commit(j)
    PROVE  Accounts'
<1>0. PICK T, E : T = job[j].taken /\ E = job[j].event
  OBVIOUS
<1>1. /\ job[j].pc = "pruned" /\ log' = (log \ T) \cup E
      /\ erased' = [erased EXCEPT ![j] = erased[j] \cup T] /\ erased \in [Jobs -> SUBSET AllRows]
      /\ job \in [Jobs -> JobForms] /\ IsFiniteSet(T)
  BY <1>0, JobForm DEF Commit, IndInv, Shapes
<1>2. erased'[j] = erased[j] \cup T /\ \A k \in Jobs \ {j} : erased'[k] = erased[k]
  BY <1>1
<1>3. /\ T \subseteq log /\ \A r \in E : T # {} /\ \A q \in E : q = r
      /\ \A r \in E : r \notin Ever
  <2>1. Held(j) /\ Appended(j) /\ Pending(j) = E
    BY <1>0, <1>1 DEF IndInv, Pending
  <2> QED BY <1>0, <1>1, <2>1 DEF Held, Appended, InTransaction, Ever, Erasures
<1>4. /\ T # {} => E # {}
      /\ \A r \in E : r.event = PruneEvent(Cardinality(T))
  BY <1>0, <1>1 DEF Accounts, CountsItsRows
<1>5. \A k \in Jobs : CountsItsRows(k)'
  <2>1. job'[j].pc = "committed" /\ \A k \in Jobs \ {j} : job'[k] = job[k]
    <3>1. PICK w : w = [job[j] EXCEPT !.pc = "committed"]
      OBVIOUS
    <3>2. w.pc = "committed"
      BY <1>1, <3>1 DEF JobForms
    <3> QED BY <1>1, <3>1, <3>2 DEF Commit, Move
  <2> QED BY <2>1 DEF Accounts, CountsItsRows
<1>6. Ever' = Ever \cup E
  <2>1. \A x : x \in Ever <=> x \in log \/ \E k \in Jobs : x \in erased[k]
    BY DEF Ever, Erasures
  <2>2. \A x : x \in Ever' <=> x \in log' \/ \E k \in Jobs : x \in erased'[k]
    BY DEF Ever, Erasures
  <2>3. \A x : x \in Ever' <=> x \in Ever \/ x \in E
    BY <1>1, <1>2, <1>3, <2>1, <2>2
  <2> QED BY <2>3
<1>7. CASE T = {}
  <2>1. E = {} /\ Ever' = Ever
    BY <1>3, <1>6, <1>7
  <2>2. \A k \in Jobs : erased'[k] = erased[k]
    BY <1>2, <1>7
  <2>3. Erasures' = Erasures
    BY <2>2 DEF Erasures
  <2>4. Receipts' = Receipts
    BY <2>1 DEF Receipts
  <2> QED BY <1>5, <2>3, <2>4 DEF Accounts, EveryErasureIsVouchedFor
<1>8. CASE T # {}
  <2>1. PICK r \in E : E = {r}
    BY <1>3, <1>4, <1>8
  <2>2. PICK n \in Nat : n = Cardinality(T)
    BY <1>1, FS_CardinalityType
  <2>3. Vouched(r) = n
    BY <1>4, <2>1, <2>2, VouchedForm
  <2>4. Receipts' = Receipts \cup ({r} \X (1..n))
    <3>1. \A x : x \in Receipts <=> \E q \in Ever : x \in {q} \X (1..Vouched(q))
      BY DEF Receipts
    <3>2. \A x : x \in Receipts' <=> \E q \in Ever' : x \in {q} \X (1..Vouched(q))
      BY DEF Receipts
    <3> HIDE DEF Receipts
    <3> QED BY <1>6, <2>1, <2>3, <3>1, <3>2
  <2>5. Erasures' = Erasures \cup T
    <3>1. \A x : x \in Erasures <=> \E k \in Jobs : x \in erased[k]
      BY DEF Erasures
    <3>2. \A x : x \in Erasures' <=> \E k \in Jobs : x \in erased'[k]
      BY DEF Erasures
    <3> QED BY <1>2, <3>1, <3>2
  <2>6. \A s \in 1..n : <<r, s>> \notin Receipts
    BY <1>3, <2>1 DEF Receipts
  <2>7. Erasures \cap T = {}
    BY <1>0, <1>3 DEF IndInv, Identified, Erasures
  <2>9. IsFiniteSet(Receipts') /\ Cardinality(Receipts') = Cardinality(Receipts) + n
    <3>1. PICK A, P : A = Receipts /\ P = {r} \X (1..n)
      OBVIOUS
    <3>2. A \cap P = {}
      BY <2>6, <3>1
    <3>3. IsFiniteSet(A)
      BY <3>1 DEF Accounts
    <3>4. P = {r} \X (1..n)
      BY <3>1
    <3>5. IsFiniteSet(A \cup P) /\ Cardinality(A \cup P) = Cardinality(A) + n
      BY ONLY <3>2, <3>3, <3>4, <2>2, PairsAdded, Zenon
    <3>6. Receipts' = A \cup P
      BY <2>4, <3>1
    <3> QED BY <3>1, <3>5, <3>6
  <2>10. IsFiniteSet(Erasures') /\ Cardinality(Erasures') = Cardinality(Erasures) + n
    <3>1. PICK A : A = Erasures
      OBVIOUS
    <3>2. IsFiniteSet(A) /\ A \cap T = {}
      BY <2>7, <3>1 DEF Accounts
    <3>3. Cardinality(A \cap T) = 0
      BY <3>2, FS_EmptySet
    <3>4. Cardinality(A) \in Nat
      BY <3>2, FS_CardinalityType
    <3>5. IsFiniteSet(A \cup T)
          /\ Cardinality(A \cup T) = Cardinality(A) + Cardinality(T) - Cardinality(A \cap T)
      BY <1>1, <3>2, FS_Union
    <3> QED BY <2>2, <2>5, <3>1, <3>3, <3>4, <3>5
  <2> QED BY <1>5, <2>9, <2>10 DEF Accounts, EveryErasureIsVouchedFor
<1> QED BY <1>7, <1>8

(* The API appends events that vouch for nothing.                          *)
LEMMA EmitAccounts ==
    ASSUME IndInv, Accounts, NEW e \in Offered, Emit(e)
    PROVE  Accounts'
<1>1. PICK x : x = Row(e)
  OBVIOUS
<1>2. /\ log' = log \cup {x} /\ UNCHANGED <<job, erased>>
      /\ x.event.type # "security_events_pruned"
  BY <1>1 DEF Emit, Writable, Row
<1>3. Vouched(x) = 0
  BY <1>2, VouchedForm
<1>4. Erasures' = Erasures
  BY <1>2 DEF Erasures
<1>5. Ever' = Ever \cup {x}
  BY <1>2 DEF Ever, Erasures
<1>6. Receipts' = Receipts
  <2>1. \A y : y \in Receipts <=> \E q \in Ever : y \in {q} \X (1..Vouched(q))
    BY DEF Receipts
  <2>2. \A y : y \in Receipts' <=> \E q \in Ever' : y \in {q} \X (1..Vouched(q))
    BY DEF Receipts
  <2>3. \A y : y \notin {x} \X (1..Vouched(x))
    BY <1>3
  <2> QED BY <1>5, <2>1, <2>2, <2>3
<1>7. \A k \in Jobs : CountsItsRows(k)'
  BY <1>2 DEF Accounts, CountsItsRows
<1> QED BY <1>4, <1>6, <1>7 DEF Accounts, EveryErasureIsVouchedFor

(* Where a run moves to, when it neither appends nor commits.              *)
LEMMA MovedJob ==
    ASSUME IndInv, NEW j \in Jobs,
           Start(j) \/ Refuse(j) \/ Begin(j) \/ Delete(j) \/ Fail(j) \/ Report(j) \/ Acknowledge(j)
    PROVE  \E w : job' = [job EXCEPT ![j] = w] /\ w.pc # "pruned"
<1> DEFINE v == job[j]
<1>0. v \in JobForms
  BY JobForm
<1>1. CASE Start(j)
  <2>1. PICK w : w = [v EXCEPT !.pc = "ready"]
    OBVIOUS
  <2>2. w.pc = "ready"
    BY <1>0, <2>1 DEF JobForms
  <2> QED BY <1>1, <2>1, <2>2 DEF Start, Move
<1>2. CASE Refuse(j)
  <2>1. PICK w : w = [v EXCEPT !.pc = "done", !.status = "invalid_configuration"]
    OBVIOUS
  <2>2. w.pc = "done"
    BY <1>0, <2>1 DEF JobForms
  <2> QED BY <1>2, <2>1, <2>2 DEF Refuse, Move
<1>3. CASE Begin(j)
  <2>1. PICK w : w = [v EXCEPT !.pc = "open", !.cutoff = now - Retention]
    OBVIOUS
  <2>2. w.pc = "open"
    BY <1>0, <2>1 DEF JobForms
  <2> QED BY <1>3, <2>1, <2>2 DEF Begin, Move
<1>4. CASE Delete(j)
  <2>1. PICK T : T = Oldest({r \in log \ Locked(j) : Expired(r, v.cutoff)}, BatchSize)
    OBVIOUS
  <2>2. PICK w : w = [v EXCEPT !.pc = "deleted", !.taken = T]
    OBVIOUS
  <2>3. w.pc = "deleted"
    BY <1>0, <2>2 DEF JobForms
  <2> QED BY <1>4, <2>1, <2>2, <2>3 DEF Delete, Move
<1>5. ASSUME NEW u, DOMAIN u = DOMAIN v, NEW status PROVE End(j, u, status).pc = "ending"
  <2>1. "pc" \in DOMAIN u
    BY <1>0, <1>5 DEF JobForms
  <2> QED BY <2>1 DEF End
<1>6. CASE Fail(j)
  BY <1>5, <1>6 DEF Fail, Move
<1>7. CASE Report(j)
  <2>1. PICK status : job' = [job EXCEPT ![j] = [v EXCEPT !.pc = "done", !.status = status]]
    BY <1>7 DEF Report, Move
  <2>2. PICK w : w = [v EXCEPT !.pc = "done", !.status = status]
    OBVIOUS
  <2>3. w.pc = "done"
    BY <1>0, <2>2 DEF JobForms
  <2> QED BY <2>1, <2>2, <2>3
<1>8. CASE Acknowledge(j)
  <2>1. PICK c : c = Counted(j)
    OBVIOUS
  <2>2. DOMAIN c = DOMAIN v /\ "pc" \in DOMAIN c
    BY <1>0, <2>1 DEF Counted, JobForms
  <2>3. NextBatch(j).pc = "ready"
    BY <2>1, <2>2 DEF NextBatch
  <2>4. Outcome(j).pc \in {"ending", "ready"}
    BY <1>5, <2>1, <2>2, <2>3 DEF Outcome
  <2> QED BY <1>8, <2>4 DEF Acknowledge, Move
<1> QED BY <1>1, <1>2, <1>3, <1>4, <1>6, <1>7, <1>8

(* The accounts hold at first, and every step keeps them.                  *)
LEMMA AccountsHold == Spec => []Accounts
<1>1. Init => Accounts
  <2> SUFFICES ASSUME Init PROVE Accounts
    OBVIOUS
  <2>1. \A j \in Jobs : erased[j] = {} /\ job[j].pc = "idle"
    BY DEF Init, NewJob
  <2>2. Ever = {} /\ Erasures = {}
    BY <2>1 DEF Init, Ever, Erasures
  <2>3. Receipts = {}
    BY <2>2 DEF Receipts
  <2>4. \A j \in Jobs : CountsItsRows(j)
    BY <2>1 DEF CountsItsRows
  <2> QED BY <2>2, <2>3, <2>4, FS_EmptySet DEF Accounts, EveryErasureIsVouchedFor
<1>2. IndInv /\ Accounts /\ [Next]_vars => Accounts'
  <2> SUFFICES ASSUME IndInv, Accounts, [Next]_vars PROVE Accounts'
    OBVIOUS
  <2>1. ASSUME NEW j \in Jobs, NEW w, w.pc # "pruned", job' = [job EXCEPT ![j] = w],
               UNCHANGED <<log, erased>>
        PROVE  Accounts'
    <3>1. job'[j] = w /\ \A k \in Jobs \ {j} : job'[k] = job[k]
      BY <2>1 DEF IndInv, Shapes
    <3>2. \A k \in Jobs : job'[k].pc = "pruned" => job'[k] = job[k]
      BY <2>1, <3>1
    <3> QED BY <2>1, <3>2, AccountsUntouched
  <2>2. ASSUME NEW j \in Jobs, Start(j) \/ Refuse(j) \/ Step(j) \/ Fail(j) PROVE Accounts'
    <3>1. CASE Start(j) \/ Refuse(j) \/ Begin(j) \/ Delete(j) \/ Fail(j) \/ Report(j)
               \/ Acknowledge(j)
      <4>1. UNCHANGED <<log, erased>>
        BY <3>1 DEF Start, Refuse, Begin, Delete, Fail, Report, Acknowledge
      <4>2. PICK w : job' = [job EXCEPT ![j] = w] /\ w.pc # "pruned"
        BY <3>1, MovedJob
      <4> QED BY <2>1, <4>1, <4>2
    <3> QED BY <2>2, <3>1, AppendAccounts, CommitAccounts DEF Step
  <2>3. CASE Tick \/ UNCHANGED vars
    BY <2>3, AccountsUntouched DEF Tick, vars
  <2> QED BY <2>2, <2>3, EmitAccounts DEF Next
<1> QED BY <1>1, <1>2, IndInvAlways, PTL DEF Spec

(* However batches of any number of runs interleave, fail or lose their    *)
(* acknowledgement, the prune events ever committed state exactly how many *)
(* rows are gone (auth.prune_security_events, called by _run_batches).     *)
THEOREM ErasuresAreVouchedFor == Spec => []EveryErasureIsVouchedFor
<1>1. Accounts => EveryErasureIsVouchedFor
  BY DEF Accounts
<1> QED BY <1>1, AccountsHold, PTL

-----------------------------------------------------------------------------
(* What the end of every run rests on: no guard of a run in progress can   *)
(* hold it up, and a run has only so many steps to take.                   *)

(* The event of a batch passes the constraints and the validator.          *)
PruningIsAdmitted ==
    \A j \in Jobs : job[j].pc = "deleted" => \A e \in Summary(job[j].taken) : Admitted(e)

(* A prune event of a full batch, or of a smaller one, is well formed.     *)
LEMMA PruneEventAdmitted ==
    ASSUME NEW n \in 1..BatchSize
    PROVE  Admitted(PruneEvent(n))
<1>1. n \in 1..1000 /\ n >= 0 /\ n <= BigintMax /\ -BigintMax - 1 <= n
  BY RetentionAssumption, BigintAssumption
<1>2. PICK e : e = PruneEvent(n)
  OBVIOUS
<1>3. /\ e.type = "security_events_pruned" /\ e.result = "success"
      /\ e.reason = {"retention_expired"} /\ e.count = {n}
      /\ {e.user, e.session, e.membership, e.role, e.target, e.permission} = {{}}
      /\ {e.digest, e.kind, e.key} = {{}}
  BY <1>2 DEF PruneEvent, SecurityAuditEvent, Null
<1>4. e.key = {} /\ e.permission = {}
  BY <1>3
<1>5. Castable(e)
  BY <1>1, <1>3, <1>4 DEF Castable
<1>6. event_contract(e)
  BY <1>3 DEF event_contract
<1>7. identity_shape(e) /\ role_shape(e) /\ target_membership_shape(e)
  BY <1>3 DEF identity_shape, role_shape, target_membership_shape, Given, Null
<1>8. permission_catalog(e) /\ permission_shape(e) /\ subject_shape(e)
  BY <1>3 DEF permission_catalog, permission_shape, subject_shape, Given, Null
<1>9. affected_count_shape(e)
  BY <1>1, <1>3 DEF affected_count_shape, Given, Null
<1>10. e.count \subseteq 1..1000
  BY <1>1, <1>3
<1> QED BY <1>2, <1>3, <1>5, <1>6, <1>7, <1>8, <1>9, <1>10 DEF Admitted, EventShape

(* Whatever a batch took, the trigger on auth.security_events admits the   *)
(* event that auth.prune_security_events appends for it: its count is      *)
(* between 1 and 1000 up to the largest --batch-size, so that no batch is  *)
(* rolled back by its own record.                                          *)
THEOREM PruningIsNeverRefused == Spec => []PruningIsAdmitted
<1>1. IndInv => PruningIsAdmitted
  <2> SUFFICES ASSUME IndInv, NEW j \in Jobs, NEW e \in Summary(job[j].taken)
               PROVE  Admitted(e)
    BY DEF PruningIsAdmitted
  <2> DEFINE T == job[j].taken
  <2>1. IsFiniteSet(T) /\ Cardinality(T) <= BatchSize
    BY DEF IndInv, Shapes, Held
  <2>2. T # {} /\ e = PruneEvent(Cardinality(T))
    BY DEF Summary, Null
  <2>3. PICK n : n = Cardinality(T)
    OBVIOUS
  <2>4. n \in Nat /\ n # 0
    BY <2>1, <2>2, <2>3, FS_CardinalityType, FS_EmptySet
  <2>5. n \in 1..BatchSize
    BY <2>1, <2>3, <2>4, RetentionAssumption
  <2> QED BY <2>2, <2>3, <2>5, PruneEventAdmitted
<1> QED BY <1>1, IndInvAlways, PTL

(* How many steps a run still has, at most.                                *)
PhasesLeft == [idle |-> 5, ready |-> 4, open |-> 3, deleted |-> 2, pruned |-> 1, committed |-> 0]

StepsLeft(v) ==
    CASE v.pc = "done"   -> 0
      [] v.pc = "ending" -> 1
      [] OTHER           -> 2 + 5 * (MaxBatches - v.batches - 1) + PhasesLeft[v.pc]

StepsAreBounded == \A j \in Jobs : StepsLeft(job[j]) \in 0..(5 * MaxBatches + 2)

EveryStepCounts == \A j \in Jobs : job'[j] # job[j] => StepsLeft(job'[j]) < StepsLeft(job[j])

(* Before a run ends, its batches and its phase say what is left of it.    *)
LEMMA StepsLeftForm ==
    ASSUME IndInv, NEW j \in Jobs
    PROVE  /\ job[j].pc = "done" => StepsLeft(job[j]) = 0
           /\ job[j].pc = "ending" => StepsLeft(job[j]) = 1
           /\ job[j].pc \notin {"ending", "done"} =>
                 /\ StepsLeft(job[j]) = 2 + 5 * (MaxBatches - job[j].batches - 1)
                                          + PhasesLeft[job[j].pc]
                 /\ PhasesLeft[job[j].pc] \in 0..5
                 /\ MaxBatches - job[j].batches - 1 \in 0..(MaxBatches - 1)
<1>1. job[j].pc \in Pcs /\ Totals(j)
  BY JobForm DEF IndInv, JobForms
<1>2. job[j].pc \notin {"ending", "done"} => PhasesLeft[job[j].pc] \in 0..5
  BY <1>1 DEF Pcs, PhasesLeft
<1>3. job[j].pc \notin {"ending", "done"} =>
         MaxBatches - job[j].batches - 1 \in 0..(MaxBatches - 1)
  BY <1>1, RetentionAssumption DEF Totals
<1> QED BY <1>1, <1>2, <1>3 DEF StepsLeft

(* What makes less of what is left: to end, to go on within a batch, or to *)
(* begin another one while the batches last.                               *)
LEMMA StepsDrop ==
    ASSUME NEW v, NEW w, v.pc \in DOMAIN PhasesLeft, v.batches \in 0..(MaxBatches - 1),
           \/ w.pc \in {"ending", "done"}
           \/ /\ w.batches = v.batches /\ w.pc \in DOMAIN PhasesLeft
              /\ PhasesLeft[w.pc] < PhasesLeft[v.pc]
           \/ v.pc = "committed" /\ w.pc = "ready" /\ w.batches = v.batches + 1
    PROVE  StepsLeft(w) < StepsLeft(v)
<1>1. /\ DOMAIN PhasesLeft = {"idle", "ready", "open", "deleted", "pruned", "committed"}
      /\ \A p \in DOMAIN PhasesLeft : PhasesLeft[p] \in 0..5
      /\ PhasesLeft["ready"] = 4 /\ PhasesLeft["committed"] = 0
  BY DEF PhasesLeft
<1>2. MaxBatches \in Nat
  BY RetentionAssumption
<1>3. StepsLeft(v) = 2 + 5 * (MaxBatches - v.batches - 1) + PhasesLeft[v.pc]
  BY <1>1 DEF StepsLeft
<1>4. StepsLeft(v) >= 2
  BY <1>1, <1>2, <1>3
<1>5. CASE w.pc \in {"ending", "done"}
  <2>1. StepsLeft(w) \in {0, 1}
    BY <1>5 DEF StepsLeft
  <2> QED BY <1>1, <1>2, <1>3, <1>4, <2>1
<1>6. CASE w.pc \in DOMAIN PhasesLeft
  <2>1. StepsLeft(w) = 2 + 5 * (MaxBatches - w.batches - 1) + PhasesLeft[w.pc]
    BY <1>1, <1>6 DEF StepsLeft
  <2>2. CASE w.batches = v.batches /\ PhasesLeft[w.pc] < PhasesLeft[v.pc]
    <3>1. PICK p \in 0..5, q \in 0..5 : p = PhasesLeft[w.pc] /\ q = PhasesLeft[v.pc]
      BY <1>1, <1>6
    <3> QED BY <1>2, <1>3, <2>1, <2>2, <3>1
  <2>3. CASE v.pc = "committed" /\ w.pc = "ready" /\ w.batches = v.batches + 1
    BY <1>1, <1>2, <1>3, <2>1, <2>3
  <2> QED BY <1>1, <1>6, <2>2, <2>3
<1> QED BY <1>1, <1>5, <1>6

(* Every step of a run, its failure included, is one less to go.           *)
LEMMA RunDrops ==
    ASSUME IndInv, NEW j \in Jobs, Start(j) \/ Refuse(j) \/ Step(j) \/ Fail(j)
    PROVE  \E w : job' = [job EXCEPT ![j] = w] /\ StepsLeft(w) < StepsLeft(job[j])
<1> DEFINE v == job[j]
<1>0. v \in JobForms
  BY JobForm
<1>1. v.pc \notin {"ending", "done"} => v.batches \in 0..(MaxBatches - 1)
  BY RetentionAssumption DEF IndInv, Totals
<1>2. /\ DOMAIN PhasesLeft = {"idle", "ready", "open", "deleted", "pruned", "committed"}
      /\ PhasesLeft["idle"] = 5 /\ PhasesLeft["ready"] = 4 /\ PhasesLeft["open"] = 3
      /\ PhasesLeft["deleted"] = 2 /\ PhasesLeft["pruned"] = 1 /\ PhasesLeft["committed"] = 0
  BY DEF PhasesLeft
<1>3. CASE Start(j)
  <2>1. PICK w : w = [v EXCEPT !.pc = "ready"]
    OBVIOUS
  <2>2. w.pc = "ready" /\ w.batches = v.batches /\ v.pc = "idle" /\ job' = [job EXCEPT ![j] = w]
    BY <1>0, <1>3, <2>1 DEF JobForms, Start, Move
  <2>5. /\ v.pc \in DOMAIN PhasesLeft /\ v.batches \in 0..(MaxBatches - 1)
        /\ w.batches = v.batches /\ w.pc \in DOMAIN PhasesLeft
        /\ PhasesLeft[w.pc] < PhasesLeft[v.pc]
    BY <1>1, <1>2, <2>2
  <2>6. StepsLeft(w) < StepsLeft(v)
    BY <2>5, StepsDrop
  <2> QED BY <2>2, <2>6
<1>4. CASE Refuse(j)
  <2>1. PICK w : w = [v EXCEPT !.pc = "done", !.status = "invalid_configuration"]
    OBVIOUS
  <2>2. w.pc = "done" /\ v.pc = "idle" /\ job' = [job EXCEPT ![j] = w]
    BY <1>0, <1>4, <2>1 DEF JobForms, Refuse, Move
  <2> QED BY <1>1, <1>2, <2>2, StepsDrop
<1>5. CASE Begin(j)
  <2>1. PICK w : w = [v EXCEPT !.pc = "open", !.cutoff = now - Retention]
    OBVIOUS
  <2>2. w.pc = "open" /\ w.batches = v.batches
    BY <1>0, <2>1 DEF JobForms
  <2>3. v.pc = "ready" /\ job' = [job EXCEPT ![j] = w]
    BY <1>5, <2>1 DEF Begin, Move
  <2>5. /\ v.pc \in DOMAIN PhasesLeft /\ v.batches \in 0..(MaxBatches - 1)
        /\ w.batches = v.batches /\ w.pc \in DOMAIN PhasesLeft
        /\ PhasesLeft[w.pc] < PhasesLeft[v.pc]
    BY <1>1, <1>2, <2>2, <2>3
  <2>6. StepsLeft(w) < StepsLeft(v)
    BY <2>5, StepsDrop
  <2> QED BY <2>3, <2>6
<1>6. CASE Delete(j)
  <2>1. PICK T : T = Oldest({r \in log \ Locked(j) : Expired(r, v.cutoff)}, BatchSize)
    OBVIOUS
  <2>2. PICK w : w = [v EXCEPT !.pc = "deleted", !.taken = T]
    OBVIOUS
  <2>3. w.pc = "deleted" /\ w.batches = v.batches
    BY <1>0, <2>2 DEF JobForms
  <2>4. v.pc = "open" /\ job' = [job EXCEPT ![j] = w]
    BY <1>6, <2>1, <2>2 DEF Delete, Move
  <2>5. /\ v.pc \in DOMAIN PhasesLeft /\ v.batches \in 0..(MaxBatches - 1)
        /\ w.batches = v.batches /\ w.pc \in DOMAIN PhasesLeft
        /\ PhasesLeft[w.pc] < PhasesLeft[v.pc]
    BY <1>1, <1>2, <2>3, <2>4
  <2>6. StepsLeft(w) < StepsLeft(v)
    BY <2>5, StepsDrop
  <2> QED BY <2>4, <2>6
<1>7. CASE Append(j)
  <2>1. PICK E : E = {Row(e) : e \in Summary(v.taken)}
    OBVIOUS
  <2>2. PICK w : w = [v EXCEPT !.pc = "pruned", !.found = StillExpired(j), !.event = E]
    OBVIOUS
  <2>3. w.pc = "pruned" /\ w.batches = v.batches
    BY <1>0, <2>2 DEF JobForms
  <2>4. v.pc = "deleted" /\ job' = [job EXCEPT ![j] = w]
    BY <1>7, <2>1, <2>2 DEF Append, Move
  <2>5. /\ v.pc \in DOMAIN PhasesLeft /\ v.batches \in 0..(MaxBatches - 1)
        /\ w.batches = v.batches /\ w.pc \in DOMAIN PhasesLeft
        /\ PhasesLeft[w.pc] < PhasesLeft[v.pc]
    BY <1>1, <1>2, <2>3, <2>4
  <2>6. StepsLeft(w) < StepsLeft(v)
    BY <2>5, StepsDrop
  <2> QED BY <2>4, <2>6
<1>8. CASE Commit(j)
  <2>1. PICK w : w = [v EXCEPT !.pc = "committed"]
    OBVIOUS
  <2>2. w.pc = "committed" /\ w.batches = v.batches
    BY <1>0, <2>1 DEF JobForms
  <2>3. v.pc = "pruned" /\ job' = [job EXCEPT ![j] = w]
    BY <1>8, <2>1 DEF Commit, Move
  <2>5. /\ v.pc \in DOMAIN PhasesLeft /\ v.batches \in 0..(MaxBatches - 1)
        /\ w.batches = v.batches /\ w.pc \in DOMAIN PhasesLeft
        /\ PhasesLeft[w.pc] < PhasesLeft[v.pc]
    BY <1>1, <1>2, <2>2, <2>3
  <2>6. StepsLeft(w) < StepsLeft(v)
    BY <2>5, StepsDrop
  <2> QED BY <2>3, <2>6
<1>9. ASSUME NEW u, DOMAIN u = DOMAIN v, NEW status PROVE End(j, u, status).pc = "ending"
  <2>1. "pc" \in DOMAIN u
    BY <1>0, <1>9 DEF JobForms
  <2> QED BY <2>1 DEF End
<1>10. CASE Fail(j)
  <2>1. PICK w : w = End(j, v, "database_failure")
    OBVIOUS
  <2>2. w.pc = "ending" /\ v.pc \in DOMAIN PhasesLeft /\ job' = [job EXCEPT ![j] = w]
    BY <1>2, <1>9, <1>10, <2>1 DEF Fail, Move
  <2> QED BY <1>1, <1>2, <2>2, StepsDrop
<1>11. CASE Acknowledge(j)
  <2>1. PICK c : c = Counted(j)
    OBVIOUS
  <2>2. DOMAIN c = DOMAIN v /\ "pc" \in DOMAIN c
    BY <1>0, <2>1 DEF Counted, JobForms
  <2>3. c.batches = v.batches + 1
    BY <1>0, <2>1 DEF Counted, JobForms
  <2>4. PICK n : n = NextBatch(j)
    OBVIOUS
  <2>5. n = [c EXCEPT !.pc = "ready", !.taken = {}, !.event = {}]
    BY <2>1, <2>4 DEF NextBatch, Null
  <2>6. n.pc = "ready" /\ n.batches = c.batches
    BY <2>2, <2>5
  <2>7. PICK w : w = Outcome(j)
    OBVIOUS
  <2>8. w.pc = "ending" \/ (w.pc = "ready" /\ w.batches = v.batches + 1)
    <3>1. w = End(j, c, "drained") \/ w = End(j, c, "incomplete") \/ w = n
      BY <2>1, <2>4, <2>7 DEF Outcome
    <3> QED BY <1>9, <2>2, <2>3, <2>6, <3>1
  <2>9. v.pc = "committed" /\ job' = [job EXCEPT ![j] = w]
    BY <1>11, <2>7 DEF Acknowledge, Move
  <2> QED BY <1>1, <1>2, <2>8, <2>9, StepsDrop
<1>12. CASE Report(j)
  <2>1. PICK status : job' = [job EXCEPT ![j] = [v EXCEPT !.pc = "done", !.status = status]]
    BY <1>12 DEF Report, Move
  <2>2. PICK w : w = [v EXCEPT !.pc = "done", !.status = status]
    OBVIOUS
  <2>3. w.pc = "done"
    BY <1>0, <2>2 DEF JobForms
  <2>4. StepsLeft(w) = 0 /\ StepsLeft(v) = 1
    BY <1>12, <2>3 DEF StepsLeft, Report
  <2>5. StepsLeft(w) < StepsLeft(v)
    BY <2>4
  <2> QED BY <2>1, <2>2, <2>5
<1> QED BY <1>3, <1>4, <1>5, <1>6, <1>7, <1>8, <1>10, <1>11, <1>12 DEF Step

(* A run of main takes at most 5 * max_batches + 2 steps, whatever other   *)
(* runs and the API do: the number of those left is bounded and every step *)
(* of the run lowers it, also the ones that follow a batch that found      *)
(* nothing or failed.  With PruningIsNeverRefused, nothing but an unfair   *)
(* scheduler keeps EveryRunEnds from holding, for any --max-batches.       *)
THEOREM RunsAreBounded == Spec => []StepsAreBounded /\ [][EveryStepCounts]_vars
<1>1. IndInv => StepsAreBounded
  <2> SUFFICES ASSUME IndInv, NEW j \in Jobs
               PROVE  StepsLeft(job[j]) \in 0..(5 * MaxBatches + 2)
    BY DEF StepsAreBounded
  <2>1. MaxBatches \in Nat \ {0}
    BY RetentionAssumption
  <2>2. CASE job[j].pc \in {"ending", "done"}
    <3>1. StepsLeft(job[j]) \in {0, 1}
      BY <2>2, StepsLeftForm
    <3> QED BY <2>1, <3>1
  <2>3. CASE job[j].pc \notin {"ending", "done"}
    <3>1. PICK p \in 0..5, m \in 0..(MaxBatches - 1) : StepsLeft(job[j]) = 2 + 5 * m + p
      BY <2>3, StepsLeftForm
    <3> QED BY <2>1, <3>1
  <2> QED BY <2>2, <2>3
<1>2. IndInv /\ [Next]_vars => EveryStepCounts
  <2> SUFFICES ASSUME IndInv, [Next]_vars PROVE EveryStepCounts
    OBVIOUS
  <2>1. job \in [Jobs -> JobForms]
    BY DEF IndInv, Shapes
  <2>2. ASSUME NEW j \in Jobs, Start(j) \/ Refuse(j) \/ Step(j) \/ Fail(j) PROVE EveryStepCounts
    <3>1. PICK w : job' = [job EXCEPT ![j] = w] /\ StepsLeft(w) < StepsLeft(job[j])
      BY <2>2, RunDrops
    <3>2. job'[j] = w /\ \A k \in Jobs \ {j} : job'[k] = job[k]
      BY <2>1, <3>1
    <3> QED BY <3>1, <3>2 DEF EveryStepCounts
  <2>3. CASE UNCHANGED job
    BY <2>3 DEF EveryStepCounts
  <2>4. (\E e \in Offered : Emit(e)) \/ Tick \/ UNCHANGED vars => UNCHANGED job
    BY DEF Emit, Tick, vars
  <2> QED BY <2>2, <2>3, <2>4 DEF Next
<1> QED BY <1>1, <1>2, IndInvAlways, PTL DEF Spec
=============================================================================
