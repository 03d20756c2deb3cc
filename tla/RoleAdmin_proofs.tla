--------------------------- MODULE RoleAdmin_proofs ---------------------------
(***************************************************************************)
(* Safety of RoleAdmin for every number of requests, members, roles and    *)
(* permissions.                                                            *)
(*                                                                         *)
(* Two facts carry the argument.  The share locks that arm an intent keep  *)
(* the actor's and the target's rows as they were found until the commit;  *)
(* and a statement that has found its row keeps it locked, so that nobody  *)
(* else changes what it found.                                             *)
(***************************************************************************)
EXTENDS RoleAdmin, FiniteSetTheorems, TLAPS

Pcs == Finished \cup {"role", "target", "prepare", "change", "record", "commit"}
Works == [kind : Kinds, role : Roles, arg : Members \cup Permissions \cup {None},
          expected : Nat, actor : Actors, version : Nat]
MemberRows == [session : {"live", "expired", "revoked"}, selected : Nat,
               user : BOOLEAN, active : BOOLEAN, version : Nat]
Locks == {"user", "session", "membership"} \X Members

Shapes ==
    /\ pc \in [Requests -> Pcs]
    /\ work \in [Requests -> Works \cup {NoWork}]
    /\ intent \in [Requests -> {"none", "armed", "attested", "written", "cancelled"}]
    /\ shared \in [Requests -> SUBSET Locks]
    /\ row \in [Requests -> Rows \cup {None}]

(* What a request was asked to do, and what it found under its locks.      *)
Asked(w) ==
    /\ w \in Works /\ w.arg \in Arguments(w.kind)
    /\ w.kind \in {"update_role", "disable_role"} => w.expected # 0
Standing(w, known) ==
    /\ known[w.actor].session # "revoked" /\ known[w.actor].user /\ known[w.actor].active
    /\ known[w.actor].version = w.version
    /\ \A m \in Targets(w) : known[m].active

Inside == {"change", "record", "commit"}

Worded(q) == pc[q] # "idle" => Asked(work[q])
LocksHeld(q) ==
    pc[q] \in Inside => shared[q] = ShareLocks(work[q]) /\ Standing(work[q], members)
RowHeld(q) ==
    row[q] # None => pc[q] \in {"record", "commit"} /\ row[q] = Row(work[q]) /\ Hits(work[q])
IntentSays(q) ==
    /\ pc[q] \in Finished => intent[q] = "none" /\ shared[q] = {}
    /\ pc[q] = "change" => intent[q] = "armed"
    /\ pc[q] = "record" => (row[q] # None <=> intent[q] = "attested")
    /\ pc[q] = "commit" => (row[q] # None <=> intent[q] = "written")

(* No two transactions have written the same row.                          *)
RowsApart == \A q, o \in Requests : q # o /\ row[q] # None => row[o] # row[q]

(* An event is written once, by a request that has done its work.          *)
EventsAreDone == \A q \in events : q \in Requests /\ pc[q] = "done"

Unborn == \A r \in Roles : roles[r].status = "absent" => roles[r].version = 0

IndInv ==
    /\ TypeOK /\ Shapes
    /\ \A q \in Requests : Worded(q) /\ LocksHeld(q) /\ RowHeld(q) /\ IntentSays(q)
    /\ RowsApart /\ EventsAreDone /\ Unborn
    /\ AuditExplainsState

-----------------------------------------------------------------------------
(* Steps of one request.                                                   *)

(* Events count as before where neither they nor their requests change.    *)
LEMMA AuditKept ==
    ASSUME IndInv, UNCHANGED store, \A o \in events : work'[o] = work[o]
    PROVE  AuditExplainsState'
<1>1. UNCHANGED <<roles, links, events>>
  BY DEF store
<1>2. ASSUME NEW kind, NEW r, NEW arg PROVE Count(kind, r, arg)' = Count(kind, r, arg)
  <2>1. {q \in events' : work'[q].kind = kind /\ work'[q].role = r /\ work'[q].arg = arg}
          = {q \in events : work[q].kind = kind /\ work[q].role = r /\ work[q].arg = arg}
    BY <1>1
  <2> QED BY <2>1 DEF Count
<1>3. AuditExplainsState
  BY DEF IndInv
<1> QED BY <1>1, <1>2, <1>3 DEF AuditExplainsState

(* A step that changes only what one request knows and holds.              *)
LEMMA LocalKeeps ==
    ASSUME IndInv, NEW q \in Requests, pc[q] # "done", UNCHANGED <<store, members>>, Shapes',
           \A o \in Requests \ {q} : /\ pc'[o] = pc[o] /\ work'[o] = work[o]
                                     /\ intent'[o] = intent[o] /\ shared'[o] = shared[o]
                                     /\ row'[o] = row[o],
           Worded(q)', LocksHeld(q)', RowHeld(q)', IntentSays(q)',
           row'[q] # None => \A o \in Requests \ {q} : row[o] # row'[q]
    PROVE  IndInv'
<1>1. UNCHANGED <<roles, links, events, members>>
  BY DEF store
<1>2. \A o \in events : o # q /\ o \in Requests
  BY DEF IndInv, EventsAreDone
<1>3. \A w : Hits(w)' <=> Hits(w)
  BY <1>1 DEF Hits, Row
<1>4. ASSUME NEW o \in Requests \ {q}
      PROVE  Worded(o)' /\ LocksHeld(o)' /\ RowHeld(o)' /\ IntentSays(o)'
  <2>1. Worded(o) /\ LocksHeld(o) /\ RowHeld(o) /\ IntentSays(o)
    BY DEF IndInv
  <2>2. /\ pc'[o] = pc[o] /\ work'[o] = work[o] /\ intent'[o] = intent[o]
        /\ shared'[o] = shared[o] /\ row'[o] = row[o] /\ members' = members
    BY <1>1
  <2>3. Worded(o)' /\ LocksHeld(o)' /\ IntentSays(o)'
    BY <2>1, <2>2 DEF Worded, LocksHeld, IntentSays
  <2>4. RowHeld(o)'
    BY <1>3, <2>1, <2>2 DEF RowHeld
  <2> QED BY <2>3, <2>4
<1>5. RowsApart'
  BY DEF IndInv, RowsApart
<1>6. EventsAreDone' /\ Unborn'
  BY <1>1, <1>2 DEF IndInv, EventsAreDone, Unborn
<1>7. AuditExplainsState'
  BY <1>2, AuditKept
<1>8. TypeOK'
  <2>1. \A o \in Requests : IntentSays(o)' /\ RowHeld(o)'
    BY <1>4
  <2>2. ASSUME NEW o \in Requests
        PROVE  /\ pc'[o] \in Pcs
               /\ intent'[o] \in {"none", "armed", "attested", "written", "cancelled"}
               /\ pc'[o] \in Finished => intent'[o] = "none" /\ shared'[o] = {} /\ row'[o] = None
    BY <2>1 DEF Shapes, IntentSays, RowHeld, Finished
  <2> QED BY <1>1, <2>2 DEF IndInv, TypeOK, Pcs
<1> QED BY <1>4, <1>5, <1>6, <1>7, <1>8 DEF IndInv

(* What a request was asked to do is of its type.                          *)
LEMMA WorkForm ==
    ASSUME IndInv, NEW q \in Requests, pc[q] # "idle"
    PROVE  /\ work[q] \in Works /\ work[q].kind \in Kinds /\ work[q].role \in Roles
           /\ work[q].actor \in Members /\ work[q].arg \in Arguments(work[q].kind)
           /\ work[q].kind \in RoleKinds \cup PermissionKinds \cup MemberKinds
           /\ Row(work[q]) \in Rows /\ ShareLocks(work[q]) \in SUBSET Locks
           /\ Targets(work[q]) \subseteq Members
<1>1. Asked(work[q])
  BY DEF IndInv, Worded
<1>2. /\ work[q] \in Works /\ work[q].kind \in Kinds /\ work[q].role \in Roles
      /\ work[q].actor \in Members /\ work[q].arg \in Arguments(work[q].kind)
      /\ work[q].kind \in RoleKinds \cup PermissionKinds \cup MemberKinds
  BY <1>1, NamesAssumption, KindsAssumption DEF Asked, Works
<1>3. PICK k, r, a : k = work[q].kind /\ r = work[q].role /\ a = work[q].arg
  OBVIOUS
<1>4. /\ k \in RoleKinds \/ k \in PermissionKinds \/ k \in MemberKinds
      /\ k \in PermissionKinds => a \in Permissions
      /\ k \in MemberKinds => a \in Members
  BY <1>2, <1>3 DEF Arguments, RoleKinds, PermissionKinds, MemberKinds
<1>5. Row(work[q]) \in Rows
  BY <1>2, <1>3, <1>4 DEF Row, Rows, Links, PermissionLink, MemberLink, RoleKinds,
     PermissionKinds, MemberKinds
<1>6. Targets(work[q]) \subseteq Members
  BY <1>3, <1>4 DEF Targets
<1>7. ShareLocks(work[q]) \in SUBSET Locks
  BY <1>2, <1>6 DEF ShareLocks, Locks
<1> QED BY <1>2, <1>5, <1>6, <1>7

(* What End leaves of a request.                                           *)
LEMMA EndForm ==
    ASSUME IndInv, NEW q \in Requests, NEW outcome \in {"refused", "done"}, End(q, outcome),
           UNCHANGED work
    PROVE  /\ Shapes'
           /\ pc'[q] = outcome /\ intent'[q] = "none" /\ shared'[q] = {} /\ row'[q] = None
           /\ \A o \in Requests \ {q} : /\ pc'[o] = pc[o] /\ work'[o] = work[o]
                                        /\ intent'[o] = intent[o] /\ shared'[o] = shared[o]
                                        /\ row'[o] = row[o]
BY DEF IndInv, Shapes, End, Go, Pcs, Finished

(* A request is refused, or its transaction is rolled back.                *)
LEMMA RefuseKeeps ==
    ASSUME IndInv, NEW q \in Requests, pc[q] \notin {"idle", "done"}, Refuse(q)
    PROVE  IndInv'
<1>1. End(q, "refused") /\ UNCHANGED <<store, members, work>>
  BY DEF Refuse
<1>2. /\ Shapes'
      /\ pc'[q] = "refused" /\ intent'[q] = "none" /\ shared'[q] = {} /\ row'[q] = None
      /\ \A o \in Requests \ {q} : /\ pc'[o] = pc[o] /\ work'[o] = work[o]
                                   /\ intent'[o] = intent[o] /\ shared'[o] = shared[o]
                                   /\ row'[o] = row[o]
  <2>1. PICK outcome \in {"refused", "done"} : outcome = "refused"
    OBVIOUS
  <2> QED BY <1>1, <2>1, EndForm
<1>3. Worded(q)'
  BY <1>1 DEF IndInv, Worded
<1>4. LocksHeld(q)' /\ RowHeld(q)' /\ IntentSays(q)'
  BY <1>2 DEF LocksHeld, RowHeld, IntentSays, Inside
<1> QED BY <1>1, <1>2, <1>3, <1>4, LocalKeeps

(* A step that only moves a request that holds nothing.                    *)
LEMMA MoveKeeps ==
    ASSUME IndInv, NEW q \in Requests, pc[q] \in {"role", "target"},
           NEW label \in {"target", "prepare"}, Go(q, label),
           UNCHANGED <<store, members, work, intent, shared, row>>
    PROVE  IndInv'
<1>1. Shapes' /\ pc'[q] = label /\ \A o \in Requests \ {q} : pc'[o] = pc[o]
  BY DEF IndInv, Shapes, Go, Pcs
<1>2. row[q] = None
  BY DEF IndInv, RowHeld
<1>3. Worded(q)' /\ LocksHeld(q)' /\ RowHeld(q)' /\ IntentSays(q)'
  BY <1>1, <1>2 DEF IndInv, Worded, LocksHeld, RowHeld, IntentSays, Inside, Finished
<1> QED BY <1>1, <1>2, <1>3, LocalKeeps

(* require_permission                                                      *)
LEMMA AuthorizeKeeps ==
    ASSUME IndInv, NEW q \in Requests, NEW m \in Actors, Authorize(q, m)
    PROVE  IndInv'
<1>1. PICK kind \in Kinds, r \in Roles :
        \E arg \in Arguments(kind), expected \in Expectations(kind, r) :
            /\ work' = [work EXCEPT ![q] =
                          [kind |-> kind, role |-> r, arg |-> arg, expected |-> expected,
                           actor |-> m, version |-> members[m].version]]
            /\ IF HasPermission(m, Needed(kind))
               THEN Go(q, FirstStatement(kind))
               ELSE Go(q, "refused")
  BY DEF Authorize
<1>2. PICK arg \in Arguments(kind), expected \in Expectations(kind, r) :
            /\ work' = [work EXCEPT ![q] =
                          [kind |-> kind, role |-> r, arg |-> arg, expected |-> expected,
                           actor |-> m, version |-> members[m].version]]
            /\ IF HasPermission(m, Needed(kind))
               THEN Go(q, FirstStatement(kind))
               ELSE Go(q, "refused")
  BY <1>1
<1>3. pc[q] = "idle" /\ UNCHANGED <<store, members, intent, shared, row>>
  BY DEF Authorize
<1>4. /\ expected \in Nat /\ members[m].version \in Nat
      /\ kind \in {"update_role", "disable_role"} => expected # 0
  <2>1. roles[r].version \in Nat
    BY DEF IndInv, TypeOK
  <2>2. expected \in Nat /\ (kind \in {"update_role", "disable_role"} => expected # 0)
    BY <2>1 DEF Expectations
  <2> QED BY <2>2, NamesAssumption DEF IndInv, TypeOK
<1>5. arg \in Members \cup Permissions \cup {None}
  BY KindsAssumption DEF Arguments, RoleKinds, PermissionKinds, MemberKinds
<1> DEFINE w == [kind |-> kind, role |-> r, arg |-> arg, expected |-> expected,
                 actor |-> m, version |-> members[m].version]
<1>6. w \in Works /\ Asked(w)
  BY <1>4, <1>5 DEF Works, Asked
<1> HIDE DEF w
<1>7. PICK label \in {"prepare", "role", "refused"} : Go(q, label)
  BY <1>2 DEF FirstStatement
<1>8. /\ Shapes' /\ pc'[q] = label /\ work'[q] = w
      /\ \A o \in Requests \ {q} : pc'[o] = pc[o] /\ work'[o] = work[o]
  <2>1. work' = [work EXCEPT ![q] = w]
    BY <1>2 DEF w
  <2> QED BY <1>3, <1>6, <1>7, <2>1 DEF IndInv, Shapes, Go, Pcs, Finished
<1>9. intent'[q] = "none" /\ shared'[q] = {} /\ row'[q] = None
  BY <1>3 DEF IndInv, TypeOK, Finished
<1>10. Worded(q)' /\ LocksHeld(q)' /\ RowHeld(q)' /\ IntentSays(q)'
  BY <1>6, <1>8, <1>9 DEF Worded, LocksHeld, RowHeld, IntentSays, Inside
<1> QED BY <1>3, <1>8, <1>9, <1>10, LocalKeeps

(* The guards that are read without a lock.                                *)
LEMMA GuardsKeep ==
    ASSUME IndInv, NEW q \in Requests, RequireRole(q) \/ RequireTarget(q)
    PROVE  IndInv'
<1>1. pc[q] \in {"role", "target"}
  BY DEF RequireRole, RequireTarget
<1>2. \/ Refuse(q)
      \/ /\ \E label \in {"target", "prepare"} : Go(q, label)
         /\ UNCHANGED <<store, members, work, intent, shared, row>>
  BY DEF RequireRole, RequireTarget
<1> QED BY <1>1, <1>2, RefuseKeeps, MoveKeeps

(* The intent is armed under share locks.                                  *)
LEMMA PrepareKeeps ==
    ASSUME IndInv, NEW q \in Requests, Prepare(q)
    PROVE  IndInv'
<1>1. pc[q] = "prepare"
  BY DEF Prepare
<1>2. CASE Refuse(q)
  BY <1>1, <1>2, RefuseKeeps
<1>3. CASE ~Refuse(q)
  <2>1. /\ Trusted(work[q].actor)
        /\ members[work[q].actor].version = work[q].version
        /\ \A m \in Targets(work[q]) : members[m].active
        /\ shared' = [shared EXCEPT ![q] = ShareLocks(work[q])]
        /\ intent' = [intent EXCEPT ![q] = "armed"]
        /\ Go(q, "change")
        /\ UNCHANGED <<store, members, work, row>>
    BY <1>3 DEF Prepare
  <2>2. /\ Shapes' /\ pc'[q] = "change" /\ shared'[q] = ShareLocks(work[q])
        /\ intent'[q] = "armed"
        /\ \A o \in Requests \ {q} : /\ pc'[o] = pc[o] /\ intent'[o] = intent[o]
                                     /\ shared'[o] = shared[o]
    <3>1. ShareLocks(work[q]) \in SUBSET Locks
      BY <1>1, WorkForm
    <3> QED BY <2>1, <3>1 DEF IndInv, Shapes, Go, Pcs
  <2>3. row[q] = None
    BY <1>1 DEF IndInv, RowHeld
  <2>4. Standing(work[q], members)
    BY <2>1 DEF Trusted, Standing
  <2>5. Worded(q)' /\ LocksHeld(q)'
    BY <1>1, <2>1, <2>2, <2>4 DEF IndInv, Worded, LocksHeld
  <2>6. RowHeld(q)' /\ IntentSays(q)'
    BY <2>1, <2>2, <2>3 DEF RowHeld, IntentSays, Finished
  <2> QED BY <1>1, <2>1, <2>2, <2>3, <2>5, <2>6, LocalKeeps
<1> QED BY <1>2, <1>3

(* The statement finds its row, or does not.                               *)
LEMMA ChangeKeeps ==
    ASSUME IndInv, NEW q \in Requests, Change(q)
    PROVE  IndInv'
<1>1. pc[q] = "change" /\ ~Waits(q)
  BY DEF Change
<1>2. Worded(q) /\ LocksHeld(q) /\ RowHeld(q) /\ row[q] = None
  BY <1>1 DEF IndInv, RowHeld
<1>3. CASE /\ Hits(work[q])
           /\ row' = [row EXCEPT ![q] = Row(work[q])]
           /\ intent' = [intent EXCEPT ![q] = "attested"]
           /\ Go(q, "record")
           /\ UNCHANGED <<store, members, work, shared>>
  <2>1. Row(work[q]) \in Rows /\ Row(work[q]) # None
    BY <1>1, WorkForm, RowAssumption
  <2>2. /\ Shapes' /\ pc'[q] = "record" /\ row'[q] = Row(work[q]) /\ intent'[q] = "attested"
        /\ \A o \in Requests \ {q} : /\ pc'[o] = pc[o] /\ intent'[o] = intent[o]
                                     /\ row'[o] = row[o]
    BY <1>3, <2>1 DEF IndInv, Shapes, Go, Pcs
  <2>3. \A o \in Requests \ {q} : row[o] # row'[q]
    BY <1>1, <1>3, <2>2 DEF Waits
  <2>4. UNCHANGED <<roles, links, members, work, shared>>
    BY <1>3 DEF store
  <2>5. \A w : Hits(w)' <=> Hits(w)
    BY <2>4 DEF Hits, Row
  <2>6. Worded(q)' /\ LocksHeld(q)'
    BY <1>1, <1>2, <2>2, <2>4 DEF Worded, LocksHeld, Inside
  <2>7. RowHeld(q)' /\ IntentSays(q)'
    BY <1>3, <2>1, <2>2, <2>4, <2>5 DEF RowHeld, IntentSays, Finished
  <2> QED BY <1>1, <1>3, <2>2, <2>3, <2>4, <2>6, <2>7, LocalKeeps
<1>4. CASE Go(q, "record") /\ UNCHANGED <<store, members, work, intent, shared, row>>
  <2>1. /\ Shapes' /\ pc'[q] = "record" /\ \A o \in Requests \ {q} : pc'[o] = pc[o]
    BY <1>4 DEF IndInv, Shapes, Go, Pcs
  <2>2. intent[q] = "armed"
    BY <1>1 DEF IndInv, IntentSays
  <2>3. Worded(q)' /\ LocksHeld(q)'
    BY <1>1, <1>2, <1>4, <2>1 DEF Worded, LocksHeld, Inside
  <2>4. RowHeld(q)' /\ IntentSays(q)'
    BY <1>2, <1>4, <2>1, <2>2 DEF RowHeld, IntentSays, Finished
  <2> QED BY <1>1, <1>2, <1>4, <2>1, <2>3, <2>4, LocalKeeps
<1>5. CASE Refuse(q)
  BY <1>1, <1>5, RefuseKeeps
<1> QED BY <1>3, <1>4, <1>5 DEF Change

(* The event is written, or the intent cancelled.                          *)
LEMMA RecordKeeps ==
    ASSUME IndInv, NEW q \in Requests, Record(q)
    PROVE  IndInv'
<1>1. /\ pc[q] = "record" /\ intent' = [intent EXCEPT ![q] = Outcome(q)] /\ Go(q, "commit")
      /\ UNCHANGED <<store, members, work, shared, row>>
  BY DEF Record
<1>2. Worded(q) /\ LocksHeld(q) /\ RowHeld(q) /\ IntentSays(q)
  BY DEF IndInv
<1>3. /\ Shapes' /\ pc'[q] = "commit" /\ intent'[q] = Outcome(q)
      /\ \A o \in Requests \ {q} : pc'[o] = pc[o] /\ intent'[o] = intent[o]
  BY <1>1 DEF IndInv, Shapes, Go, Pcs, Outcome
<1>4. row[q] # None <=> Outcome(q) = "written"
  BY <1>1, <1>2 DEF IntentSays, Outcome
<1>5. UNCHANGED <<roles, links, members, work, shared, row>>
  BY <1>1 DEF store
<1>6. \A w : Hits(w)' <=> Hits(w)
  BY <1>5 DEF Hits, Row
<1>7. Worded(q)' /\ LocksHeld(q)'
  BY <1>1, <1>2, <1>3, <1>5 DEF Worded, LocksHeld, Inside
<1>8. RowHeld(q)' /\ IntentSays(q)'
  BY <1>2, <1>3, <1>4, <1>5, <1>6 DEF RowHeld, IntentSays, Finished
<1>9. row'[q] # None => \A o \in Requests \ {q} : row[o] # row'[q]
  BY <1>5 DEF IndInv, RowsApart
<1> QED BY <1>1, <1>3, <1>5, <1>7, <1>8, <1>9, LocalKeeps

-----------------------------------------------------------------------------
(* What the rest of the system does.                                       *)

(* A member's row changes, and no standing that a request relies on.       *)
LEMMA MemberKeeps ==
    ASSUME IndInv, NEW m \in Members,
           NEW value \in MemberRows,
           SetMember(m, value),
           \A q \in Requests : pc[q] \in Inside => Standing(work[q], members')
    PROVE  IndInv'
<1>1. /\ members' = [members EXCEPT ![m] = value]
      /\ UNCHANGED <<roles, links, events, pc, work, intent, shared, row>>
      /\ UNCHANGED store
  BY DEF SetMember, store
<1>2. TypeOK' /\ Shapes'
  BY <1>1 DEF IndInv, TypeOK, Shapes, MemberRows
<1>3. \A w : Hits(w)' <=> Hits(w)
  BY <1>1 DEF Hits, Row
<1>4. ASSUME NEW q \in Requests
      PROVE  Worded(q)' /\ LocksHeld(q)' /\ RowHeld(q)' /\ IntentSays(q)'
  <2>1. Worded(q) /\ LocksHeld(q) /\ RowHeld(q) /\ IntentSays(q)
    BY DEF IndInv
  <2>2. Worded(q)' /\ IntentSays(q)'
    BY <1>1, <2>1 DEF Worded, IntentSays
  <2>3. LocksHeld(q)'
    BY <1>1, <2>1 DEF LocksHeld
  <2>4. RowHeld(q)'
    BY <1>1, <1>3, <2>1 DEF RowHeld
  <2> QED BY <2>2, <2>3, <2>4
<1>5. RowsApart' /\ EventsAreDone' /\ Unborn'
  BY <1>1 DEF IndInv, RowsApart, EventsAreDone, Unborn
<1>6. AuditExplainsState'
  BY <1>1, AuditKept
<1> QED BY <1>2, <1>4, <1>5, <1>6 DEF IndInv

(* The rows a request relies on are locked, or change harmlessly.          *)
LEMMA StandingKept ==
    ASSUME IndInv, NEW m \in Members,
           NEW value \in MemberRows,
           SetMember(m, value),
           Writable(<<"session", m>>) \/ value.session # "revoked" \/ members[m].session = "revoked",
           Writable(<<"user", m>>) \/ value.user = members[m].user,
           Writable(<<"membership", m>>) \/ (/\ value.active = members[m].active
                                             /\ value.version = members[m].version)
    PROVE  \A q \in Requests : pc[q] \in Inside => Standing(work[q], members')
<1> SUFFICES ASSUME NEW q \in Requests, pc[q] \in Inside PROVE Standing(work[q], members')
  OBVIOUS
<1>1. shared[q] = ShareLocks(work[q]) /\ Standing(work[q], members)
  BY DEF IndInv, LocksHeld
<1>2. work[q].actor \in Members /\ Targets(work[q]) \subseteq Members
  BY WorkForm DEF Inside
<1>3. members' = [members EXCEPT ![m] = value]
  BY DEF SetMember
<1>4. /\ members'[m] = value /\ \A n \in Members \ {m} : members'[n] = members[n]
  BY <1>3 DEF IndInv, TypeOK
<1>5. ASSUME work[q].actor = m
      PROVE  /\ <<"session", m>> \in shared[q] /\ <<"user", m>> \in shared[q]
             /\ <<"membership", m>> \in shared[q]
  BY <1>1, <1>5 DEF ShareLocks
<1>6. ASSUME m \in Targets(work[q]) PROVE <<"membership", m>> \in shared[q]
  BY <1>1, <1>6 DEF ShareLocks
<1>7. work[q].actor = m => /\ value.session # "revoked" /\ value.user /\ value.active
                           /\ value.version = work[q].version
  BY <1>1, <1>5 DEF Writable, Standing
<1>8. m \in Targets(work[q]) => value.active
  BY <1>1, <1>6 DEF Writable, Standing
<1>9. /\ members'[work[q].actor].session # "revoked" /\ members'[work[q].actor].user
      /\ members'[work[q].actor].active /\ members'[work[q].actor].version = work[q].version
  <2>1. CASE work[q].actor = m
    BY <1>4, <1>7, <2>1
  <2>2. CASE work[q].actor # m
    BY <1>1, <1>2, <1>4, <2>2 DEF Standing
  <2> QED BY <2>1, <2>2
<1>10. \A n \in Targets(work[q]) : members'[n].active
  <2> SUFFICES ASSUME NEW n \in Targets(work[q]) PROVE members'[n].active
    OBVIOUS
  <2>1. CASE n = m
    BY <1>4, <1>8, <2>1
  <2>2. CASE n # m
    BY <1>1, <1>2, <1>4, <2>2 DEF Standing
  <2> QED BY <2>1, <2>2
<1> QED BY <1>9, <1>10 DEF Standing

(* Sessions end, users are suspended, memberships change.                  *)
LEMMA EnvironmentKeeps ==
    ASSUME IndInv, NEW m \in Members, Environment(m)
    PROVE  IndInv'
<1>1. members[m] \in MemberRows
  BY DEF IndInv, TypeOK, MemberRows
<1>2. CASE RevokeSession(m)
  <2> DEFINE new == [members[m] EXCEPT !.session = "revoked"]
  <2>1. new \in MemberRows
    BY <1>1 DEF MemberRows
  <2>2. /\ new.user = members[m].user /\ new.active = members[m].active
        /\ new.version = members[m].version
    BY <1>1 DEF MemberRows
  <2>3. PICK value \in MemberRows : value = new
    BY <2>1
  <2>4. SetMember(m, value) /\ Writable(<<"session", m>>)
    BY <1>2, <2>3 DEF RevokeSession
  <2> QED BY <2>2, <2>3, <2>4, StandingKept, MemberKeeps
<1>3. CASE ExpireSession(m)
  <2> DEFINE new == [members[m] EXCEPT !.session = "expired"]
  <2>1. new \in MemberRows
    BY <1>1 DEF MemberRows
  <2>2. /\ new.session # "revoked" /\ new.user = members[m].user /\ new.active = members[m].active
        /\ new.version = members[m].version
    BY <1>1 DEF MemberRows
  <2>3. PICK value \in MemberRows : value = new
    BY <2>1
  <2>4. SetMember(m, value)
    BY <1>3, <2>3 DEF ExpireSession
  <2> QED BY <2>2, <2>3, <2>4, StandingKept, MemberKeeps
<1>4. CASE Reselect(m)
  <2> DEFINE new == [members[m] EXCEPT !.selected = members[m].version]
  <2>1. new \in MemberRows
    BY <1>1 DEF MemberRows
  <2>2. /\ new.user = members[m].user /\ new.active = members[m].active
        /\ new.version = members[m].version
    BY <1>1 DEF MemberRows
  <2>3. PICK value \in MemberRows : value = new
    BY <2>1
  <2>4. SetMember(m, value) /\ Writable(<<"session", m>>)
    BY <1>4, <2>3 DEF Reselect
  <2> QED BY <2>2, <2>3, <2>4, StandingKept, MemberKeeps
<1>5. CASE SuspendUser(m)
  <2> DEFINE new == [members[m] EXCEPT !.user = FALSE]
  <2>1. new \in MemberRows
    BY <1>1 DEF MemberRows
  <2>2. /\ new.session = members[m].session /\ new.active = members[m].active
        /\ new.version = members[m].version
    BY <1>1 DEF MemberRows
  <2>3. PICK value \in MemberRows : value = new
    BY <2>1
  <2>4. SetMember(m, value) /\ Writable(<<"user", m>>)
    BY <1>5, <2>3 DEF SuspendUser
  <2> QED BY <2>2, <2>3, <2>4, StandingKept, MemberKeeps
<1>6. CASE ChangeMembership(m)
  <2>1. PICK v \in Nat : v = members[m].version + 1
    BY <1>1 DEF MemberRows
  <2> DEFINE new == [members[m] EXCEPT !.active = ~members[m].active, !.version = v]
  <2>2. new \in MemberRows
    BY <1>1 DEF MemberRows
  <2>3. new.session = members[m].session /\ new.user = members[m].user
    BY <1>1 DEF MemberRows
  <2>4. PICK value \in MemberRows : value = new
    BY <2>2
  <2>5. SetMember(m, value) /\ Writable(<<"membership", m>>)
    BY <1>6, <2>1, <2>4 DEF ChangeMembership
  <2>6. value.session = members[m].session /\ value.user = members[m].user
    BY <2>3, <2>4
  <2>7. value.session # "revoked" \/ members[m].session = "revoked"
    BY <2>6
  <2> QED BY <2>5, <2>6, <2>7, StandingKept, MemberKeeps
<1> QED BY <1>2, <1>3, <1>4, <1>5, <1>6 DEF Environment

-----------------------------------------------------------------------------
(* A commit.                                                               *)

(* The row that an operation writes.                                       *)
LEMMA RowOf ==
    ASSUME NEW w
    PROVE  /\ w.kind \in RoleKinds => Row(w) = <<"roles", w.role, None>>
           /\ w.kind \in PermissionKinds => Row(w) = PermissionLink(w.role, w.arg)
           /\ w.kind \in MemberKinds => Row(w) = MemberLink(w.arg, w.role)
<1>1. w.kind \in RoleKinds => w.kind \notin PermissionKinds /\ w.kind \notin MemberKinds
  BY DEF RoleKinds, PermissionKinds, MemberKinds
<1>2. w.kind \in PermissionKinds => w.kind \notin RoleKinds /\ w.kind \notin MemberKinds
  BY DEF RoleKinds, PermissionKinds, MemberKinds
<1>3. w.kind \in MemberKinds => w.kind \notin RoleKinds /\ w.kind \notin PermissionKinds
  BY DEF RoleKinds, PermissionKinds, MemberKinds
<1> QED BY <1>1, <1>2, <1>3 DEF Row

(* What it takes for its statement to find that row.                       *)
LEMMA HitsOf ==
    ASSUME NEW w
    PROVE  /\ w.kind = "create_role" => (Hits(w) <=> roles[w.role].status = "absent")
           /\ w.kind = "update_role" => (Hits(w) <=> roles[w.role].version = w.expected)
           /\ w.kind = "disable_role" => (Hits(w) <=> /\ roles[w.role].version = w.expected
                                                      /\ roles[w.role].status = "active")
           /\ w.kind \in {"assign_permission", "assign_role"} => (Hits(w) <=> Row(w) \notin links)
           /\ w.kind \in {"remove_permission", "remove_role"} => (Hits(w) <=> Row(w) \in links)
BY DEF Hits

(* The kinds of operation.                                                 *)
LEMMA KindCases ==
    ASSUME NEW w, w.kind \in RoleKinds \cup PermissionKinds \cup MemberKinds
    PROVE  /\ \/ w.kind \in RoleKinds
              \/ w.kind \notin RoleKinds /\ w.kind \in {"assign_permission", "assign_role"}
              \/ w.kind \notin RoleKinds /\ w.kind \in {"remove_permission", "remove_role"}
           /\ w.kind \in RoleKinds <=> w.kind \in {"create_role", "update_role", "disable_role"}
           /\ w.kind \notin RoleKinds => (w.kind \in InsertKinds <=>
                                            w.kind \in {"assign_permission", "assign_role"})
BY DEF RoleKinds, PermissionKinds, MemberKinds, InsertKinds

(* One more event counts once, for what its request was asked to do.       *)
LEMMA CountAdds ==
    ASSUME IndInv, NEW q \in Requests, q \notin events, events' = events \cup {q},
           UNCHANGED work, NEW kind, NEW r, NEW arg
    PROVE  /\ Count(kind, r, arg) \in Nat
           /\ work[q].kind = kind /\ work[q].role = r /\ work[q].arg = arg =>
                 Count(kind, r, arg)' = Count(kind, r, arg) + 1
           /\ ~(work[q].kind = kind /\ work[q].role = r /\ work[q].arg = arg) =>
                 Count(kind, r, arg)' = Count(kind, r, arg)
<1> DEFINE S == {o \in events : work[o].kind = kind /\ work[o].role = r /\ work[o].arg = arg}
           T == {o \in events' : work'[o].kind = kind /\ work'[o].role = r /\ work'[o].arg = arg}
<1>1. IsFiniteSet(S)
  <2>1. events \subseteq Requests
    BY DEF IndInv, TypeOK
  <2> QED BY <2>1, FiniteAssumption, FS_Subset
<1>2. Count(kind, r, arg) = Cardinality(S) /\ Count(kind, r, arg)' = Cardinality(T)
  BY DEF Count
<1>3. work[q].kind = kind /\ work[q].role = r /\ work[q].arg = arg => T = S \cup {q} /\ q \notin S
  OBVIOUS
<1>4. ~(work[q].kind = kind /\ work[q].role = r /\ work[q].arg = arg) => T = S
  OBVIOUS
<1> HIDE DEF S, T
<1>5. Cardinality(S) \in Nat /\ (q \notin S => Cardinality(S \cup {q}) = Cardinality(S) + 1)
  BY <1>1, FS_CardinalityType, FS_AddElement
<1> QED BY <1>2, <1>3, <1>4, <1>5

(* What the commit of a change does to the tables.                         *)
LEMMA ChangeForm ==
    ASSUME IndInv, NEW q \in Requests, Commit(q), row[q] # None
    PROVE  LET w == work[q] IN
           /\ row[q] = Row(w) /\ Hits(w) /\ events' = events \cup {q} /\ q \notin events
           /\ \A r \in Roles : r # w.role \/ w.kind \notin RoleKinds => roles'[r] = roles[r]
           /\ w.kind \in RoleKinds =>
                 /\ links' = links
                 /\ roles'[w.role].version = roles[w.role].version + 1
                 /\ w.kind = "create_role" => roles'[w.role].status = "active"
                 /\ w.kind = "update_role" => roles'[w.role].status = roles[w.role].status
                 /\ w.kind = "disable_role" => roles'[w.role].status = "inactive"
           /\ roles' \in [Roles -> [status : {"absent", "active", "inactive"}, version : Nat]]
           /\ \A link : link # Row(w) \/ w.kind \in RoleKinds => (link \in links' <=> link \in links)
           /\ w.kind \in {"assign_permission", "assign_role"} =>
                 Row(w) \notin links /\ Row(w) \in links'
           /\ w.kind \in {"remove_permission", "remove_role"} =>
                 Row(w) \in links /\ Row(w) \notin links'
           /\ links' \subseteq links \cup {Row(w)}
<1>1. pc[q] = "commit" /\ intent[q] = "written" /\ row[q] = Row(work[q]) /\ Hits(work[q])
  BY DEF Commit, IndInv, RowHeld, IntentSays
<1>2. events' = events \cup {q} /\ q \notin events
  BY <1>1 DEF Commit, IndInv, EventsAreDone
<1>3. PICK w \in Works : w = work[q]
  BY <1>1, WorkForm
<1>4. w.kind \in RoleKinds \cup PermissionKinds \cup MemberKinds /\ w.role \in Roles
  BY <1>1, <1>3, WorkForm
<1>5. /\ roles' = IF w.kind \in RoleKinds THEN ApplyRole(w) ELSE roles
      /\ links' = IF w.kind \notin RoleKinds THEN ApplyLink(w) ELSE links
  BY <1>3 DEF Commit
<1>6. /\ \/ w.kind \in RoleKinds
         \/ w.kind \notin RoleKinds /\ w.kind \in {"assign_permission", "assign_role"}
         \/ w.kind \notin RoleKinds /\ w.kind \in {"remove_permission", "remove_role"}
      /\ w.kind \in RoleKinds <=> w.kind \in {"create_role", "update_role", "disable_role"}
      /\ w.kind \notin RoleKinds => (w.kind \in InsertKinds <=>
                                       w.kind \in {"assign_permission", "assign_role"})
  BY <1>4, KindCases
<1>7. /\ \A link : link # Row(w) \/ w.kind \in RoleKinds => (link \in links' <=> link \in links)
      /\ w.kind \in {"assign_permission", "assign_role"} =>
            Row(w) \notin links /\ Row(w) \in links'
      /\ w.kind \in {"remove_permission", "remove_role"} =>
            Row(w) \in links /\ Row(w) \notin links'
      /\ links' \subseteq links \cup {Row(w)}
      /\ w.kind \in RoleKinds => links' = links
  <2>1. /\ w.kind \in {"assign_permission", "assign_role"} => Row(w) \notin links
        /\ w.kind \in {"remove_permission", "remove_role"} => Row(w) \in links
    BY <1>1, <1>3, HitsOf
  <2>2. CASE w.kind \in RoleKinds
    <3>1. links' = links /\ w.kind \in {"create_role", "update_role", "disable_role"}
      BY <1>5, <1>6, <2>2
    <3> QED BY <2>2, <3>1
  <2>3. CASE w.kind \notin RoleKinds /\ w.kind \in {"assign_permission", "assign_role"}
    <3>1. links' = links \cup {Row(w)}
      BY <1>5, <1>6, <2>3 DEF ApplyLink
    <3> QED BY <2>1, <2>3, <3>1
  <2>4. CASE w.kind \notin RoleKinds /\ w.kind \in {"remove_permission", "remove_role"}
    <3>1. links' = links \ {Row(w)}
      BY <1>5, <1>6, <2>4 DEF ApplyLink
    <3> QED BY <2>1, <2>4, <3>1
  <2> QED BY <1>6, <2>2, <2>3, <2>4
<1>8. /\ \A r \in Roles : r # w.role \/ w.kind \notin RoleKinds => roles'[r] = roles[r]
      /\ roles' \in [Roles -> [status : {"absent", "active", "inactive"}, version : Nat]]
      /\ w.kind \in RoleKinds =>
            /\ roles'[w.role].version = roles[w.role].version + 1
            /\ w.kind = "create_role" => roles'[w.role].status = "active"
            /\ w.kind = "update_role" => roles'[w.role].status = roles[w.role].status
            /\ w.kind = "disable_role" => roles'[w.role].status = "inactive"
  <2>1. roles \in [Roles -> [status : {"absent", "active", "inactive"}, version : Nat]]
    BY DEF IndInv, TypeOK
  <2>2. CASE w.kind \notin RoleKinds
    BY <1>5, <2>1, <2>2
  <2>3. CASE w.kind \in RoleKinds
    <3>1. PICK v \in Nat : v = roles[w.role].version + 1
      BY <1>4, <2>1
    <3>2. PICK s \in {"absent", "active", "inactive"} :
            /\ s = CASE w.kind = "create_role"  -> "active"
                     [] w.kind = "update_role"  -> roles[w.role].status
                     [] w.kind = "disable_role" -> "inactive"
            /\ w.kind = "create_role" => s = "active"
            /\ w.kind = "update_role" => s = roles[w.role].status
            /\ w.kind = "disable_role" => s = "inactive"
      BY <1>4, <1>6, <2>1, <2>3
    <3> DEFINE e == [status |-> s, version |-> v]
    <3>3. roles' = [roles EXCEPT ![w.role] = e]
      BY <1>5, <2>3, <3>1, <3>2 DEF ApplyRole
    <3>4. e \in [status : {"absent", "active", "inactive"}, version : Nat] /\ e.status = s /\ e.version = v
      OBVIOUS
    <3> HIDE DEF e
    <3>5. roles' \in [Roles -> [status : {"absent", "active", "inactive"}, version : Nat]]
      BY <2>1, <3>3, <3>4
    <3>6. roles'[w.role] = e /\ \A r \in Roles : r # w.role => roles'[r] = roles[r]
      BY <1>4, <2>1, <3>3
    <3> QED BY <2>3, <3>1, <3>2, <3>4, <3>5, <3>6
  <2> QED BY <2>2, <2>3
<1> QED BY <1>1, <1>2, <1>3, <1>7, <1>8

(* What another request has found under its lock it still finds.           *)
LEMMA HitsKept ==
    ASSUME IndInv, NEW q \in Requests, Commit(q), row[q] # None,
           NEW o \in Requests, pc[o] # "idle", Row(work[o]) # Row(work[q]), Hits(work[o]),
           work' = work
    PROVE  Hits(work[o])'
<1>1. PICK w \in Works : w = work[q]
  BY WorkForm DEF Commit
<1>2. PICK u \in Works : u = work[o]
  BY WorkForm
<1>3. /\ \A r \in Roles : r # w.role \/ w.kind \notin RoleKinds => roles'[r] = roles[r]
      /\ \A link : link # Row(w) \/ w.kind \in RoleKinds => (link \in links' <=> link \in links)
  BY <1>1, ChangeForm
<1>4. /\ w.kind \in RoleKinds \cup PermissionKinds \cup MemberKinds
      /\ u.kind \in RoleKinds \cup PermissionKinds \cup MemberKinds /\ u.role \in Roles
  BY <1>1, <1>2, WorkForm DEF Commit
<1>5. Row(u) # Row(w) /\ Hits(u)
  BY <1>1, <1>2
<1>6. Hits(u)'
  <2>1. CASE u.kind \in RoleKinds
    <3>1. roles'[u.role] = roles[u.role]
      <4>1. u.role # w.role \/ w.kind \notin RoleKinds
        BY <1>5, <2>1, RowOf
      <4> QED BY <1>3, <1>4, <4>1
    <3>2. u.kind \in {"create_role", "update_role", "disable_role"}
      BY <2>1 DEF RoleKinds
    <3> QED BY <1>5, <3>1, <3>2 DEF Hits
  <2>2. CASE u.kind \notin RoleKinds
    <3>1. Row(u) \in links' <=> Row(u) \in links
      BY <1>3, <1>5
    <3>2. u.kind \in {"assign_permission", "assign_role", "remove_permission", "remove_role"}
      BY <1>4, <2>2 DEF RoleKinds, PermissionKinds, MemberKinds
    <3>3. Row(u)' = Row(u)
      BY DEF Row
    <3> QED BY <1>5, <3>1, <3>2, <3>3 DEF Hits
  <2> QED BY <2>1, <2>2
<1> QED BY <1>2, <1>6

(* The event that is committed accounts for the change that is committed.  *)
LEMMA AuditGrows ==
    ASSUME IndInv, NEW q \in Requests, Commit(q), row[q] # None
    PROVE  AuditExplainsState'
<1>1. PICK w \in Works : w = work[q]
  BY WorkForm DEF Commit
<1>2. /\ w.kind \in RoleKinds \cup PermissionKinds \cup MemberKinds /\ w.role \in Roles
      /\ w.arg \in Arguments(w.kind)
  BY <1>1, WorkForm DEF Commit
<1>3. w.kind \in RoleKinds => w.arg = None
  BY <1>2 DEF Arguments, RoleKinds, PermissionKinds, MemberKinds
<1>4. /\ Hits(w) /\ events' = events \cup {q} /\ q \notin events /\ UNCHANGED work
      /\ \A r \in Roles : r # w.role \/ w.kind \notin RoleKinds => roles'[r] = roles[r]
      /\ w.kind \in RoleKinds =>
            /\ links' = links
            /\ roles'[w.role].version = roles[w.role].version + 1
            /\ w.kind = "create_role" => roles'[w.role].status = "active"
            /\ w.kind = "update_role" => roles'[w.role].status = roles[w.role].status
            /\ w.kind = "disable_role" => roles'[w.role].status = "inactive"
  <2>1. UNCHANGED work
    BY DEF Commit
  <2>2. Hits(w) /\ events' = events \cup {q} /\ q \notin events
    BY <1>1, ChangeForm
  <2>3. /\ \A r \in Roles : r # w.role \/ w.kind \notin RoleKinds => roles'[r] = roles[r]
        /\ w.kind \in RoleKinds =>
              /\ links' = links
              /\ roles'[w.role].version = roles[w.role].version + 1
              /\ w.kind = "create_role" => roles'[w.role].status = "active"
              /\ w.kind = "update_role" => roles'[w.role].status = roles[w.role].status
              /\ w.kind = "disable_role" => roles'[w.role].status = "inactive"
    BY <1>1, ChangeForm
  <2> QED BY <2>1, <2>2, <2>3
<1>5. /\ \A link : link # Row(w) \/ w.kind \in RoleKinds => (link \in links' <=> link \in links)
      /\ w.kind \in {"assign_permission", "assign_role"} => Row(w) \notin links /\ Row(w) \in links'
      /\ w.kind \in {"remove_permission", "remove_role"} => Row(w) \in links /\ Row(w) \notin links'
  BY <1>1, ChangeForm
<1>6. \A kind, r, arg :
        /\ Count(kind, r, arg) \in Nat
        /\ w.kind = kind /\ w.role = r /\ w.arg = arg =>
              Count(kind, r, arg)' = Count(kind, r, arg) + 1
        /\ ~(w.kind = kind /\ w.role = r /\ w.arg = arg) =>
              Count(kind, r, arg)' = Count(kind, r, arg)
  BY <1>1, <1>4, CountAdds
<1>7. AuditExplainsState
  BY DEF IndInv
<1>8. ASSUME NEW r \in Roles
      PROVE  /\ roles'[r].version = (IF r = AdminRole THEN 1 ELSE 0)
                                     + Count("create_role", r, None)'
                                     + Count("update_role", r, None)'
                                     + Count("disable_role", r, None)'
             /\ Count("disable_role", r, None)' = IF roles'[r].status = "inactive" THEN 1 ELSE 0
  <2> DEFINE c == Count("create_role", r, None)
             u == Count("update_role", r, None)
             d == Count("disable_role", r, None)
             base == IF r = AdminRole THEN 1 ELSE 0
  <2>1. /\ c \in Nat /\ u \in Nat /\ d \in Nat /\ base \in Nat
        /\ roles[r].version = base + c + u + d
        /\ d = IF roles[r].status = "inactive" THEN 1 ELSE 0
    BY <1>6, <1>7 DEF AuditExplainsState
  <2>2. /\ w.kind = "create_role" /\ w.role = r => c' = c + 1 /\ u' = u /\ d' = d
        /\ w.kind = "update_role" /\ w.role = r => c' = c /\ u' = u + 1 /\ d' = d
        /\ w.kind = "disable_role" /\ w.role = r => c' = c /\ u' = u /\ d' = d + 1
        /\ w.kind \notin RoleKinds \/ w.role # r => c' = c /\ u' = u /\ d' = d
    BY <1>3, <1>6 DEF RoleKinds
  <2> HIDE DEF c, u, d, base
  <2>3. /\ w.kind = "create_role" => roles[w.role].status = "absent"
        /\ w.kind = "disable_role" => roles[w.role].status = "active"
    BY <1>4, HitsOf
  <2>4. /\ roles'[r].version = base + c' + u' + d'
        /\ d' = IF roles'[r].status = "inactive" THEN 1 ELSE 0
    <3>1. CASE w.kind \notin RoleKinds \/ w.role # r
      <4>1. roles'[r] = roles[r] /\ c' = c /\ u' = u /\ d' = d
        BY <1>4, <2>2, <3>1
      <4> QED BY <2>1, <4>1
    <3>2. CASE w.kind \in RoleKinds /\ w.role = r
      <4>1. roles'[r].version = roles[r].version + 1
        BY <1>4, <3>2
      <4>2. CASE w.kind = "create_role"
        <5>1. c' = c + 1 /\ u' = u /\ d' = d
          BY <2>2, <3>2, <4>2
        <5>2. roles[r].status = "absent" /\ roles'[r].status = "active"
          BY <1>4, <2>3, <3>2, <4>2
        <5> QED BY <2>1, <4>1, <5>1, <5>2
      <4>3. CASE w.kind = "update_role"
        <5>1. c' = c /\ u' = u + 1 /\ d' = d
          BY <2>2, <3>2, <4>3
        <5>2. roles'[r].status = roles[r].status
          BY <1>4, <3>2, <4>3
        <5> QED BY <2>1, <4>1, <5>1, <5>2
      <4>4. CASE w.kind = "disable_role"
        <5>1. c' = c /\ u' = u /\ d' = d + 1
          BY <2>2, <3>2, <4>4
        <5>2. roles[r].status = "active" /\ roles'[r].status = "inactive"
          BY <1>4, <2>3, <3>2, <4>4
        <5> QED BY <2>1, <4>1, <5>1, <5>2
      <4> QED BY <3>2, <4>2, <4>3, <4>4 DEF RoleKinds
    <3> QED BY <3>1, <3>2
  <2> QED BY <2>4 DEF c, u, d, base
<1>9. ASSUME NEW r \in Roles, NEW p \in Permissions
      PROVE  Initially(PermissionLink(r, p)) + Count("assign_permission", r, p)'
                = Count("remove_permission", r, p)'
                    + (IF PermissionLink(r, p) \in links' THEN 1 ELSE 0)
  <2> DEFINE a == Count("assign_permission", r, p)
             d == Count("remove_permission", r, p)
             link == PermissionLink(r, p)
             base == Initially(link)
  <2>1. /\ a \in Nat /\ d \in Nat /\ base \in Nat
        /\ base + a = d + (IF link \in links THEN 1 ELSE 0)
    BY <1>6, <1>7 DEF AuditExplainsState, Initially
  <2>2. CASE w.kind = "assign_permission" /\ w.role = r /\ w.arg = p
    <3>1. a' = a + 1 /\ d' = d
      BY <1>6, <2>2
    <3>2. link \notin links /\ link \in links'
      BY <1>5, <2>2, RowOf DEF PermissionKinds
    <3> HIDE DEF a, d, link, base
    <3>3. base + a' = d' + (IF link \in links' THEN 1 ELSE 0)
      BY <2>1, <3>1, <3>2
    <3> QED BY <3>3 DEF a, d, link, base
  <2>3. CASE w.kind = "remove_permission" /\ w.role = r /\ w.arg = p
    <3>1. a' = a /\ d' = d + 1
      BY <1>6, <2>3
    <3>2. link \in links /\ link \notin links'
      BY <1>5, <2>3, RowOf DEF PermissionKinds
    <3> HIDE DEF a, d, link, base
    <3>3. base + a' = d' + (IF link \in links' THEN 1 ELSE 0)
      BY <2>1, <3>1, <3>2
    <3> QED BY <3>3 DEF a, d, link, base
  <2>4. CASE ~(w.kind \in PermissionKinds /\ w.role = r /\ w.arg = p)
    <3>1. a' = a /\ d' = d
      BY <1>6, <2>4 DEF PermissionKinds
    <3>2. link \in links' <=> link \in links
      <4>1. w.kind \in RoleKinds \/ link # Row(w)
        BY <1>2, <2>4, RowOf DEF PermissionLink, MemberLink
      <4> QED BY <1>5, <4>1
    <3> HIDE DEF a, d, link, base
    <3>3. base + a' = d' + (IF link \in links' THEN 1 ELSE 0)
      BY <2>1, <3>1, <3>2
    <3> QED BY <3>3 DEF a, d, link, base
  <2> QED BY <2>2, <2>3, <2>4 DEF PermissionKinds
<1>10. ASSUME NEW r \in Roles, NEW m \in Members
       PROVE  Initially(MemberLink(m, r)) + Count("assign_role", r, m)'
                = Count("remove_role", r, m)' + (IF MemberLink(m, r) \in links' THEN 1 ELSE 0)
  <2> DEFINE a == Count("assign_role", r, m)
             d == Count("remove_role", r, m)
             link == MemberLink(m, r)
             base == Initially(link)
  <2>1. /\ a \in Nat /\ d \in Nat /\ base \in Nat
        /\ base + a = d + (IF link \in links THEN 1 ELSE 0)
    BY <1>6, <1>7 DEF AuditExplainsState, Initially
  <2>2. CASE w.kind = "assign_role" /\ w.role = r /\ w.arg = m
    <3>1. a' = a + 1 /\ d' = d
      BY <1>6, <2>2
    <3>2. link \notin links /\ link \in links'
      BY <1>5, <2>2, RowOf DEF MemberKinds
    <3> HIDE DEF a, d, link, base
    <3>3. base + a' = d' + (IF link \in links' THEN 1 ELSE 0)
      BY <2>1, <3>1, <3>2
    <3> QED BY <3>3 DEF a, d, link, base
  <2>3. CASE w.kind = "remove_role" /\ w.role = r /\ w.arg = m
    <3>1. a' = a /\ d' = d + 1
      BY <1>6, <2>3
    <3>2. link \in links /\ link \notin links'
      BY <1>5, <2>3, RowOf DEF MemberKinds
    <3> HIDE DEF a, d, link, base
    <3>3. base + a' = d' + (IF link \in links' THEN 1 ELSE 0)
      BY <2>1, <3>1, <3>2
    <3> QED BY <3>3 DEF a, d, link, base
  <2>4. CASE ~(w.kind \in MemberKinds /\ w.role = r /\ w.arg = m)
    <3>1. a' = a /\ d' = d
      BY <1>6, <2>4 DEF MemberKinds
    <3>2. link \in links' <=> link \in links
      <4>1. w.kind \in RoleKinds \/ link # Row(w)
        BY <1>2, <2>4, RowOf DEF PermissionLink, MemberLink
      <4> QED BY <1>5, <4>1
    <3> HIDE DEF a, d, link, base
    <3>3. base + a' = d' + (IF link \in links' THEN 1 ELSE 0)
      BY <2>1, <3>1, <3>2
    <3> QED BY <3>3 DEF a, d, link, base
  <2> QED BY <2>2, <2>3, <2>4 DEF MemberKinds
<1> QED BY <1>8, <1>9, <1>10 DEF AuditExplainsState

(* The transaction commits.                                                *)
LEMMA CommitKeeps ==
    ASSUME IndInv, NEW q \in Requests, Commit(q)
    PROVE  IndInv'
<1>1. /\ pc[q] = "commit" /\ End(q, "done") /\ UNCHANGED <<members, work>>
      /\ intent[q] \in {"written", "cancelled"}
  BY DEF Commit
<1>2. /\ Shapes'
      /\ pc'[q] = "done" /\ intent'[q] = "none" /\ shared'[q] = {} /\ row'[q] = None
      /\ \A o \in Requests \ {q} : /\ pc'[o] = pc[o] /\ work'[o] = work[o]
                                   /\ intent'[o] = intent[o] /\ shared'[o] = shared[o]
                                   /\ row'[o] = row[o]
  <2>1. PICK outcome \in {"refused", "done"} : outcome = "done"
    OBVIOUS
  <2> QED BY <1>1, <2>1, EndForm
<1>3. Worded(q)'
  BY <1>1 DEF IndInv, Worded
<1>4. LocksHeld(q)' /\ RowHeld(q)' /\ IntentSays(q)'
  BY <1>2 DEF LocksHeld, RowHeld, IntentSays, Inside
<1>5. CASE row[q] = None
  <2>1. intent[q] # "written"
    BY <1>1, <1>5 DEF IndInv, IntentSays
  <2>2. UNCHANGED <<store, members>>
    BY <1>5, <2>1 DEF Commit, store
  <2> QED BY <1>1, <1>2, <1>3, <1>4, <2>2, LocalKeeps
<1>6. CASE row[q] # None
  <2>1. /\ row[q] = Row(work[q]) /\ events' = events \cup {q}
        /\ roles' \in [Roles -> [status : {"absent", "active", "inactive"}, version : Nat]]
        /\ links' \subseteq links \cup {Row(work[q])}
        /\ \A link : work[q].kind \in RoleKinds => (link \in links' <=> link \in links)
    BY <1>6, ChangeForm
  <2>2. ASSUME NEW o \in Requests \ {q}
        PROVE  Worded(o)' /\ LocksHeld(o)' /\ RowHeld(o)' /\ IntentSays(o)'
    <3>1. Worded(o) /\ LocksHeld(o) /\ RowHeld(o) /\ IntentSays(o)
      BY DEF IndInv
    <3>2. /\ pc'[o] = pc[o] /\ work'[o] = work[o] /\ intent'[o] = intent[o]
          /\ shared'[o] = shared[o] /\ row'[o] = row[o] /\ members' = members
      BY <1>1, <1>2
    <3>3. Worded(o)' /\ LocksHeld(o)' /\ IntentSays(o)'
      BY <3>1, <3>2 DEF Worded, LocksHeld, IntentSays
    <3>4. ASSUME row[o] # None
          PROVE  pc[o] \in {"record", "commit"} /\ row[o] = Row(work[o]) /\ Hits(work[o])'
      <4>1. pc[o] \in {"record", "commit"} /\ row[o] = Row(work[o]) /\ Hits(work[o])
        BY <3>1, <3>4 DEF RowHeld
      <4>2. Row(work[o]) # Row(work[q])
        BY <1>6, <2>1, <4>1 DEF IndInv, RowsApart
      <4> QED BY <1>1, <1>6, <4>1, <4>2, HitsKept
    <3>5. RowHeld(o)'
      <4>1. Row(work[o])' = Row(work[o])
        BY <1>1 DEF Row
      <4> QED BY <3>2, <3>4, <4>1 DEF RowHeld
    <3> QED BY <3>3, <3>5
  <2>3. RowsApart'
    BY <1>2 DEF IndInv, RowsApart
  <2>4. EventsAreDone'
    BY <1>2, <2>1 DEF IndInv, EventsAreDone
  <2>5. Unborn'
    <3> SUFFICES ASSUME NEW r \in Roles, roles'[r].status = "absent" PROVE roles'[r].version = 0
      BY DEF Unborn
    <3>1. PICK w \in Works : w = work[q]
      BY <1>1, WorkForm
    <3>2. /\ r # w.role \/ w.kind \notin RoleKinds => roles'[r] = roles[r]
          /\ w.kind = "create_role" /\ w.kind \in RoleKinds => roles'[w.role].status = "active"
          /\ w.kind = "update_role" /\ w.kind \in RoleKinds =>
                roles'[w.role].status = roles[w.role].status
          /\ w.kind = "disable_role" /\ w.kind \in RoleKinds => roles'[w.role].status = "inactive"
          /\ Hits(w)
      BY <1>6, <3>1, ChangeForm
    <3>3. CASE r # w.role \/ w.kind \notin RoleKinds
      BY <3>2, <3>3 DEF IndInv, Unborn
    <3>4. CASE r = w.role /\ w.kind \in RoleKinds
      <4>1. w.kind = "update_role" /\ roles[r].status = "absent"
        BY <3>2, <3>4 DEF RoleKinds
      <4>2. roles[r].version = 0 /\ w.expected = 0
        BY <3>2, <3>4, <4>1, HitsOf DEF IndInv, Unborn
      <4> QED BY <1>1, <3>1, <4>1, <4>2 DEF IndInv, Worded, Asked
    <3> QED BY <3>3, <3>4
  <2>6. AuditExplainsState'
    BY <1>6, AuditGrows
  <2>7. TypeOK'
    <3>1. \A o \in Requests : IntentSays(o)' /\ RowHeld(o)'
      BY <1>4, <2>2
    <3>2. ASSUME NEW o \in Requests
          PROVE  /\ pc'[o] \in Pcs
                 /\ intent'[o] \in {"none", "armed", "attested", "written", "cancelled"}
                 /\ pc'[o] \in Finished => intent'[o] = "none" /\ shared'[o] = {} /\ row'[o] = None
      BY <1>2, <3>1 DEF Shapes, IntentSays, RowHeld, Finished
    <3>3. links' \subseteq Links
      <4>1. work[q].kind \notin RoleKinds => Row(work[q]) \in Links
        BY <1>1, WorkForm, RowOf DEF Arguments, Links
      <4>2. links \subseteq Links
        BY DEF IndInv, TypeOK
      <4> QED BY <2>1, <4>1, <4>2
    <3> QED BY <1>1, <2>1, <3>2, <3>3 DEF IndInv, TypeOK, Pcs
  <2> QED BY <1>2, <1>3, <1>4, <2>2, <2>3, <2>4, <2>5, <2>6, <2>7 DEF IndInv
<1> QED BY <1>5, <1>6

-----------------------------------------------------------------------------
(* The specification.                                                      *)

(* A tenant starts with what its provisioning accounts for.                *)
LEMMA InitHolds == Init => IndInv
<1> SUFFICES ASSUME Init PROVE IndInv
  OBVIOUS
<1>1. /\ pc \in [Requests -> Pcs] /\ work = [q \in Requests |-> NoWork]
      /\ \A q \in Requests : /\ pc[q] = "idle" /\ intent[q] = "none"
                             /\ shared[q] = {} /\ row[q] = None
  BY DEF Init, Pcs, Finished
<1>2. Shapes
  BY <1>1 DEF Init, Shapes
<1>3. \A q \in Requests : Worded(q) /\ LocksHeld(q) /\ RowHeld(q) /\ IntentSays(q)
  BY <1>1 DEF Worded, LocksHeld, RowHeld, IntentSays, Inside
<1>4. RowsApart /\ EventsAreDone
  BY <1>1 DEF Init, RowsApart, EventsAreDone
<1>5. \A r \in Roles : /\ r = AdminRole => roles[r] = [status |-> "active", version |-> 1]
                       /\ r # AdminRole => roles[r] = [status |-> "absent", version |-> 0]
  BY DEF Init
<1>6. Unborn
  BY <1>5 DEF Unborn
<1>7. TypeOK
  <2>1. roles \in [Roles -> [status : {"absent", "active", "inactive"}, version : Nat]]
    BY DEF Init
  <2>2. links \subseteq Links
    BY NamesAssumption DEF Init, Links
  <2>3. members \in [Members -> [session : {"live", "expired", "revoked"}, selected : Nat,
                                 user : BOOLEAN, active : BOOLEAN, version : Nat]]
    BY DEF Init
  <2>4. events \subseteq Requests
    BY DEF Init
  <2> QED BY <1>1, <2>1, <2>2, <2>3, <2>4 DEF TypeOK, Finished
<1>8. AuditExplainsState
  <2>1. \A kind, r, arg : Count(kind, r, arg) = 0
    BY FS_EmptySet DEF Init, Count
  <2>2. \A link : Initially(link) = IF link \in links THEN 1 ELSE 0
    BY DEF Init, Initially
  <2>3. \A r \in Roles :
          /\ roles[r].version = (IF r = AdminRole THEN 1 ELSE 0) + 0 + 0 + 0
          /\ roles[r].status # "inactive"
    BY <1>5
  <2> QED BY <2>1, <2>2, <2>3 DEF AuditExplainsState
<1> QED BY <1>2, <1>3, <1>4, <1>6, <1>7, <1>8 DEF IndInv

(* Every step keeps it.                                                    *)
LEMMA StepKeeps == IndInv /\ [Next]_vars => IndInv'
<1> SUFFICES ASSUME IndInv, [Next]_vars PROVE IndInv'
  OBVIOUS
<1>1. ASSUME NEW q \in Requests, NEW m \in Actors, Authorize(q, m) PROVE IndInv'
  BY <1>1, AuthorizeKeeps
<1>2. ASSUME NEW q \in Requests, Step(q) PROVE IndInv'
  BY <1>2, GuardsKeep, PrepareKeeps, ChangeKeeps, RecordKeeps, CommitKeeps DEF Step
<1>3. ASSUME NEW q \in Requests, Abort(q) PROVE IndInv'
  BY <1>3, RefuseKeeps DEF Abort, Finished
<1>4. ASSUME NEW m \in Members, Environment(m) PROVE IndInv'
  BY <1>4, EnvironmentKeeps
<1>5. ASSUME UNCHANGED vars PROVE IndInv'
  <2>1. /\ UNCHANGED <<roles, links, events, members, pc, work, intent, shared, row>>
        /\ UNCHANGED store
    BY <1>5 DEF vars, store
  <2>2. TypeOK' /\ Shapes'
    BY <2>1 DEF IndInv, TypeOK, Shapes
  <2>3. \A q \in Requests : Worded(q)' /\ LocksHeld(q)' /\ RowHeld(q)' /\ IntentSays(q)'
    <3>1. \A w : Hits(w)' <=> Hits(w)
      BY <2>1 DEF Hits, Row
    <3>2. \A w : Row(w)' = Row(w)
      BY DEF Row
    <3> QED BY <2>1, <3>1, <3>2 DEF IndInv, Worded, LocksHeld, RowHeld, IntentSays
  <2>4. RowsApart' /\ EventsAreDone' /\ Unborn'
    BY <2>1 DEF IndInv, RowsApart, EventsAreDone, Unborn
  <2>5. AuditExplainsState'
    BY <2>1, AuditKept
  <2> QED BY <2>2, <2>3, <2>4, <2>5 DEF IndInv
<1> QED BY <1>1, <1>2, <1>3, <1>4, <1>5 DEF Next

(* IndInv is an invariant of the specification.                            *)
LEMMA IndInvAlways == Spec => []IndInv
BY InitHolds, StepKeeps, PTL DEF Spec

(* Rows and requests are of their types, and a request holds locks only    *)
(* inside its transaction.                                                 *)
THEOREM TypeCorrect == Spec => []TypeOK
<1>1. IndInv => TypeOK
  BY DEF IndInv
<1> QED BY <1>1, IndInvAlways, PTL

(* The audit trail accounts for the roles and the links, and for nothing   *)
(* else, however many requests assign, remove, update and disable at once  *)
(* and wherever one of them is cut off: an attested change and its event   *)
(* commit together or not at all.                                          *)
THEOREM AuditIsComplete == Spec => []AuditExplainsState
<1>1. IndInv => AuditExplainsState
  BY DEF IndInv
<1> QED BY <1>1, IndInvAlways, PTL

(* The tables of roles move only in the commit of a change.                *)
LEMMA RolesMove ==
    ASSUME IndInv, [Next]_vars, roles' # roles
    PROVE  \E q \in Requests : Commit(q) /\ row[q] # None
<1>1. ~UNCHANGED store /\ Next
  BY DEF vars, store
<1>2. PICK q \in Requests : (\E m \in Actors : Authorize(q, m)) \/ Step(q) \/ Abort(q)
  BY <1>1 DEF Next, Environment, RevokeSession, ExpireSession, Reselect, SuspendUser,
     ChangeMembership, SetMember
<1>3. Commit(q)
  BY <1>1, <1>2 DEF Authorize, Step, Abort, Refuse, RequireRole, RequireTarget, Prepare,
     Change, Record
<1>4. row[q] # None
  BY <1>3 DEF Commit
<1> QED BY <1>3, <1>4

(* A role's version moves by one, and only in the commit of a request that *)
(* expected exactly the version it replaces: the lock that its statement   *)
(* took keeps what it found until then.                                    *)
THEOREM NoRoleUpdateIsLost == Spec => NoLostRoleUpdate
<1> DEFINE Found(r) ==
      roles[r].version > 0 /\ roles'[r] # roles[r] =>
         /\ roles'[r].version = roles[r].version + 1
         /\ \E q \in Requests : /\ pc[q] = "commit" /\ pc'[q] = "done"
                                /\ work[q].role = r
                                /\ work[q].expected = roles[r].version
<1>1. IndInv /\ [Next]_vars => [\A r \in Roles : Found(r)]_vars
  <2> SUFFICES ASSUME IndInv, [Next]_vars, NEW r \in Roles, roles[r].version > 0,
                      roles'[r] # roles[r]
               PROVE  /\ roles'[r].version = roles[r].version + 1
                      /\ \E q \in Requests : /\ pc[q] = "commit" /\ pc'[q] = "done"
                                             /\ work[q].role = r
                                             /\ work[q].expected = roles[r].version
    OBVIOUS
  <2>1. PICK q \in Requests : Commit(q) /\ row[q] # None
    BY RolesMove
  <2>2. pc[q] = "commit" /\ pc'[q] = "done"
    BY <2>1 DEF Commit, End, Go, IndInv, Shapes
  <2>3. PICK w \in Works : w = work[q]
    BY <2>2, WorkForm
  <2>4. /\ r = w.role /\ w.kind \in RoleKinds /\ Hits(w)
        /\ roles'[r].version = roles[r].version + 1
    BY <2>1, <2>3, ChangeForm
  <2>5. w.kind # "create_role"
    <3>1. roles[r].status = "absent" => roles[r].version = 0
      BY DEF IndInv, Unborn
    <3> QED BY <2>4, <3>1, HitsOf
  <2>6. w.expected = roles[r].version
    BY <2>4, <2>5, HitsOf DEF RoleKinds
  <2> QED BY <2>2, <2>3, <2>4, <2>6
<1>2. Spec => [][\A r \in Roles : Found(r)]_vars
  BY <1>1, IndInvAlways, PTL DEF Spec
<1> QED BY <1>2 DEF NoLostRoleUpdate

(* When a change commits, its actor and the member it is about still stand *)
(* as they did under the share locks that armed the intent: no revocation, *)
(* suspension or change of membership comes in between.                    *)
THEOREM ChangesCommitInStanding == Spec => CommitsInGoodStanding
<1> DEFINE Stands(q) ==
      pc[q] = "commit" /\ pc'[q] = "done" /\ row[q] # None =>
         LET a == members[work[q].actor]
         IN  /\ a.session # "revoked" /\ a.user /\ a.active
             /\ a.version = work[q].version
             /\ \A m \in Targets(work[q]) : members[m].active
<1>1. IndInv => \A q \in Requests : Stands(q)
  BY DEF IndInv, LocksHeld, Standing, Inside
<1>2. IndInv /\ [Next]_vars => [\A q \in Requests : Stands(q)]_vars
  BY <1>1
<1>3. Spec => [][\A q \in Requests : Stands(q)]_vars
  BY <1>2, IndInvAlways, PTL DEF Spec
<1> QED BY <1>3 DEF CommitsInGoodStanding
=============================================================================
