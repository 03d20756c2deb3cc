------------------------ MODULE PasswordAuth_proofs ------------------------
(***************************************************************************)
(* Safety of PasswordAuth for every set of requests, every set of          *)
(* passwords and every limit.                                              *)
(***************************************************************************)
EXTENDS PasswordAuth, FiniteSetTheorems, TLAPS

(* The statements a transaction executes once it holds both the credential *)
(* row and the user row.                                                   *)
AfterBothLocks == {"confirm", "lockAdvisory", "lockOwnSession",
                   "scanSessions", "lockSessions", "commit"}
AfterConfirm == AfterBothLocks \ {"confirm"}

(* Which operations reach which statement.                                 *)
ProgramShape ==
    \A r \in Requests :
        /\ pc[r] \in {"lockFirst", "lockSecond"} => op[r] \in {"login", "change", "complete"}
        /\ pc[r] \in {"confirm"} => op[r] \in {"login", "change"}
        /\ pc[r] = "lockOwnSession" => op[r] = "change"
        /\ pc[r] = "lockOwnToken" => op[r] = "complete"
        /\ op[r] \in {"change", "complete"} => pc[r] # "lockAdvisory"
        /\ pc[r] \in {"scanTokens", "lockTokens"} => op[r] \in {"request", "complete"}
        /\ pc[r] \in {"scanSessions", "lockSessions"} =>
              op[r] \in {"login", "change", "complete", "revokeAll"}
        /\ pc[r] = "lockAdvisory" => op[r] \in {"login", "revokeAll"}
        /\ op[r] \in {"change", "complete"} /\ Running(r) => row[r] \in Requests
        /\ pc[r] = "idle" => op[r] = "none"

(* Whoever writes or vouches for the credential holds its row and the      *)
(* user's row.                                                             *)
HoldsCredential ==
    \A r \in Requests :
        /\ pc[r] = "lockSecond" => holder[Cred] = r
        /\ op[r] \in {"login", "change"} /\ pc[r] \in AfterBothLocks =>
              holder[Cred] = r /\ holder[User] = r
        /\ op[r] = "complete" /\ pc[r] \in {"scanSessions", "lockSessions", "commit"} =>
              holder[Cred] = r /\ holder[User] = r

(* A confirmed login or change still has the credential it verified.       *)
ConfirmedIsCurrent ==
    \A r \in Requests :
        op[r] \in {"login", "change"} /\ pc[r] \in AfterConfirm =>
            user.active /\ snap[r] = Snapshot

(* A login, a change or a completion has locked, or is going to lock,      *)
(* every row that is not revoked.                                          *)
ScanCovers ==
    \A r \in Requests :
        op[r] \in {"login", "change", "complete"} =>
            /\ pc[r] = "lockSessions" => Unrevoked \subseteq todo[r] \cup HeldSessions(r)
            /\ pc[r] = "commit" => Unrevoked \subseteq HeldSessions(r)

IndInv ==
    /\ TypeOK
    /\ ProgramShape
    /\ HoldsCredential
    /\ ConfirmedIsCurrent
    /\ ScanCovers
    /\ UnrevokedMatchCredential
-----------------------------------------------------------------------------
(* How many sessions exist is a number, because the requests are finite.   *)
LEMMA CountIsNat == ASSUME NEW S \in SUBSET Requests PROVE Cardinality(S) \in Nat
BY FiniteAssumption, FS_Subset, FS_CardinalityType

(* The hashes a request can compute or has computed.                       *)
LEMMA HashType ==
    /\ InitialHash \in Hashes
    /\ \A p \in Passwords, r \in Requests : Hash(p, r) \in Hashes
BY PasswordAssumption DEF InitialHash, Hashes, Hash

(* The snapshot of well-typed rows is well-typed.                          *)
LEMMA SnapshotType ==
    /\ InitialSnapshot \in [hash : Hashes, cv : Nat, sv : Nat]
    /\ TypeOK => Snapshot \in [hash : Hashes, cv : Nat, sv : Nat]
BY HashType DEF InitialSnapshot, Snapshot, TypeOK

(* Ending a request keeps its own variables and the locks well-typed.      *)
LEMMA EndType ==
    ASSUME TypeOK, NEW r \in Requests, NEW outcome \in Finished, End(r, outcome)
    PROVE  /\ holder' \in [Resources -> Requests \cup {Nobody}]
           /\ pc' \in [Requests -> {"idle"} \cup Statements \cup Finished]
           /\ op' \in [Requests -> {"none"} \cup Operations]
           /\ row' \in [Requests -> Requests \cup {Nobody}]
           /\ fresh' \in [Requests -> Hashes]
           /\ snap' \in [Requests -> [hash : Hashes, cv : Nat, sv : Nat]]
           /\ todo' \in [Requests -> SUBSET Requests]
BY HashType, SnapshotType DEF TypeOK, End, Go, Forget, Release

(* Revoking some sessions keeps the session rows well-typed.               *)
LEMMA RevokeType ==
    ASSUME TypeOK, NEW S
    PROVE  Revoke(S) \in [Requests -> SessionRows]
<1>1. ASSUME NEW s \in Requests
      PROVE  [sessions[s] EXCEPT !.status = "revoked"] \in SessionRows
  <2>1. sessions[s] \in SessionRows
    BY DEF TypeOK
  <2> QED BY <2>1 DEF SessionRows, SessionStatus
<1> QED BY <1>1 DEF TypeOK, Revoke

(* Every step of the services keeps the state well-typed.                  *)
LEMMA TypeStep == TypeOK /\ [Next]_vars => TypeOK'
<1> SUFFICES ASSUME TypeOK, [Next]_vars PROVE TypeOK'
    OBVIOUS
<1>1. ASSUME NEW r \in Requests, Begin(r) PROVE TypeOK'
  <2>1. ASSUME NEW operation \in Operations, NEW statement \in Statements,
               NEW presented \in Requests \cup {Nobody}, NEW hash \in Hashes,
               NEW snapshot \in [hash : Hashes, cv : Nat, sv : Nat],
               Start(r, operation, statement, presented, hash, snapshot)
        PROVE  TypeOK'
    BY <2>1 DEF TypeOK, Start, Go
  <2>2. ASSUME NEW operation \in Operations, Reject(r, operation) PROVE TypeOK'
    BY <2>2 DEF TypeOK, Reject, Go, Finished
  <2>3. CASE \E p \in Passwords : LoginSnapshot(r, p)
    BY <2>1, <2>2, <2>3, HashType, SnapshotType DEF LoginSnapshot, Operations, Statements
  <2>4. CASE \E s \in Requests, old, new \in Passwords : ChangeSnapshot(r, s, old, new)
    BY <2>1, <2>2, <2>4, HashType, SnapshotType DEF ChangeSnapshot, Operations, Statements
  <2>5. CASE RequestReset(r)
    BY <2>1, <2>2, <2>5, HashType, SnapshotType DEF RequestReset, Operations, Statements
  <2>6. CASE \E t \in Requests, new \in Passwords : CompleteReset(r, t, new)
    BY <2>1, <2>6, HashType, SnapshotType DEF CompleteReset, Operations, Statements
  <2>7. CASE RevokeAll(r)
    BY <2>1, <2>7, HashType, SnapshotType DEF RevokeAll, Operations, Statements
  <2>8. CASE \E s \in Requests : Logout(r, s)
    BY <2>8, RevokeType DEF Logout, TypeOK, Go, Operations, Finished
  <2> QED BY <1>1, <2>3, <2>4, <2>5, <2>6, <2>7, <2>8 DEF Begin
<1>2. ASSUME NEW r \in Requests, Step(r) PROVE TypeOK'
  <2>1. ASSUME Refuse(r) PROVE TypeOK'
    BY <2>1, EndType DEF Refuse, TypeOK, Finished
  <2>2. CASE LockFirst(r)
    BY <2>2 DEF LockFirst, TypeOK, Take, Go, requestVars, CredentialLocks, Statements
  <2>3. CASE LockSecond(r)
    BY <2>3 DEF LockSecond, TypeOK, Take, Go, requestVars, CredentialLocks, Statements
  <2>4. CASE Confirm(r)
    BY <2>4, <2>1 DEF Confirm, TypeOK, Go, requestVars, Statements
  <2>5. CASE LockAdvisory(r)
    BY <2>5 DEF LockAdvisory, TypeOK, Take, Go, requestVars, Statements
  <2>a. ASSUME NEW x, NEW next \in Statements, Take(r, x), Go(r, next),
               UNCHANGED <<cred, user, sessions, tokens, requestVars, todo>>
        PROVE  TypeOK'
    BY <2>a DEF TypeOK, Take, Go, requestVars
  <2>6. CASE LockOwnSession(r)
    BY <2>6, <2>1, <2>a DEF LockOwnSession, Statements
  <2>7. CASE LockOwnToken(r)
    BY <2>7, <2>1, <2>a DEF LockOwnToken, Statements
  <2>8. CASE ScanTokens(r)
    BY <2>8 DEF ScanTokens, TypeOK, Go, requestVars, Statements, Unused
  <2>9. CASE EndTokens(r)
    BY <2>9 DEF EndTokens, TypeOK, Go, requestVars, Statements
  <2>10. CASE ScanSessions(r)
    BY <2>10 DEF ScanSessions, TypeOK, Go, requestVars, Statements, Unrevoked
  <2>11. CASE EndSessions(r)
    BY <2>11 DEF EndSessions, TypeOK, Go, requestVars, Statements
  <2>12. CASE \E x \in Requests : LockNextToken(r, x)
    <3> PICK t \in Requests : LockNextToken(r, t)
      BY <2>12
    <3>1. holder' \in [Resources -> Requests \cup {Nobody}]
      BY DEF LockNextToken, TypeOK
    <3>2. todo' \in [Requests -> SUBSET Requests]
      BY DEF LockNextToken, TypeOK
    <3> QED BY <3>1, <3>2 DEF LockNextToken, TypeOK, requestVars
  <2>13. CASE \E x \in Requests : LockNextSession(r, x)
    <3> PICK s \in Requests : LockNextSession(r, s)
      BY <2>13
    <3>1. holder' \in [Resources -> Requests \cup {Nobody}]
      BY DEF LockNextSession, TypeOK
    <3>2. todo' \in [Requests -> SUBSET Requests]
      BY DEF LockNextSession, TypeOK
    <3> QED BY <3>1, <3>2 DEF LockNextSession, TypeOK, requestVars
  <2>14. CASE CommitLogin(r)
    <3>1. Cardinality({s \in Requests : sessions[s].status # "absent"}) \in Nat
      BY CountIsNat
    <3>2. [status |-> "active", version |-> snap[r].sv, hash |-> snap[r].hash,
           born |-> 1 + Cardinality({s \in Requests : sessions[s].status # "absent"})]
              \in SessionRows
      BY <3>1 DEF TypeOK, SessionRows, SessionStatus
    <3>3. Issue(r) \in [Requests -> SessionRows]
      BY <3>2, RevokeType DEF Issue
    <3> QED BY <2>14, <3>3, EndType DEF CommitLogin, TypeOK, Finished
  <2>b. ASSUME ReplaceCredential(r)
        PROVE  /\ cred' \in [hash : Hashes, version : Nat]
               /\ user' \in [active : BOOLEAN, version : Nat]
               /\ sessions' \in [Requests -> SessionRows]
    <3>1. /\ cred' = [hash |-> fresh[r], version |-> cred.version + 1]
          /\ user' = [user EXCEPT !.version = @ + 1]
          /\ sessions' = Revoke(Revocable(r))
      BY <2>b DEF ReplaceCredential
    <3>2. cred' \in [hash : Hashes, version : Nat]
      BY <3>1 DEF TypeOK
    <3>3. user' \in [active : BOOLEAN, version : Nat]
      <4>1. user \in [active : BOOLEAN, version : Nat]
        BY DEF TypeOK
      <4>2. user.version + 1 \in Nat
        BY <4>1
      <4> QED BY <3>1, <4>1, <4>2
    <3>4. sessions' \in [Requests -> SessionRows]
      BY <3>1, RevokeType
    <3> QED BY <3>2, <3>3, <3>4
  <2>15. CASE CommitChange(r)
    BY <2>15, <2>b, EndType DEF CommitChange, TypeOK, Finished
  <2>16. CASE CommitRequest(r)
    BY <2>16, EndType DEF CommitRequest, RevokeTokens, TypeOK, Finished, TokenStatus
  <2>17. CASE CommitComplete(r)
    BY <2>17, <2>b, EndType DEF CommitComplete, RevokeTokens, TypeOK, Finished, TokenStatus
  <2>18. CASE CommitRevokeAll(r)
    BY <2>18, EndType, RevokeType DEF CommitRevokeAll, TypeOK, Finished
  <2> QED BY <1>2, <2>2, <2>3, <2>4, <2>5, <2>6, <2>7, <2>8, <2>9, <2>10, <2>11,
             <2>12, <2>13, <2>14, <2>15, <2>16, <2>17, <2>18 DEF Step
<1>3. ASSUME NEW r \in Requests, Abort(r) PROVE TypeOK'
  BY <1>3, EndType DEF Abort, TypeOK, Finished
<1>4. CASE Environment
  <2>1. CASE \E s \in Requests : SessionExpires(s)
    <3> PICK s \in Requests : SessionExpires(s)
      BY <2>1
    <3>1. [sessions[s] EXCEPT !.status = "expired"] \in SessionRows
      <4>1. sessions[s] \in SessionRows
        BY DEF TypeOK
      <4> QED BY <4>1 DEF SessionRows, SessionStatus
    <3> QED BY <3>1 DEF SessionExpires, TypeOK, requestVars
  <2>2. CASE \E t \in Requests : TokenExpires(t)
    BY <2>2 DEF TokenExpires, TypeOK, requestVars, TokenStatus
  <2>3. CASE Suspend
    BY <2>3 DEF Suspend, TypeOK, requestVars
  <2>4. CASE Reactivate
    BY <2>4 DEF Reactivate, TypeOK, requestVars
  <2> QED BY <1>4, <2>1, <2>2, <2>3, <2>4 DEF Environment
<1>5. CASE UNCHANGED vars
  BY <1>5 DEF vars, TypeOK
<1> QED BY <1>1, <1>2, <1>3, <1>4, <1>5 DEF Next

(* The state of the services is always well-typed.                         *)
THEOREM TypeCorrect == Spec => []TypeOK
<1>1. Init => TypeOK
  BY HashType, SnapshotType
  DEF Init, TypeOK, NoSession, SessionRows, SessionStatus, TokenStatus, Resources
<1> QED BY <1>1, TypeStep, PTL DEF Spec
-----------------------------------------------------------------------------
(* What a step of one request does to the others, and under which locks it *)
(* writes.                                                                 *)

(* The lockable things are pairwise different.                             *)
LEMMA ResourcesDiffer ==
    /\ Cred \in Resources /\ User \in Resources /\ Advisory \in Resources
    /\ Cred # User /\ Cred # Advisory /\ User # Advisory
    /\ \A s \in Requests : /\ Session(s) \in Resources
                            /\ Session(s) \notin {Cred, User, Advisory}
                            /\ \A t : Session(s) = Session(t) => s = t
    /\ \A t \in Requests : /\ Token(t) \in Resources
                            /\ Token(t) \notin {Cred, User, Advisory}
                            /\ \A s : Token(t) # Session(s)
                            /\ \A u : Token(t) = Token(u) => u = t
BY DEF Resources, Cred, User, Advisory, Session, Token

(* Ending a request leaves the others' variables and locks alone.          *)
LEMMA EndKeepsOthers ==
    ASSUME TypeOK, NEW r \in Requests, NEW outcome, End(r, outcome),
           NEW q \in Requests, q # r
    PROVE  /\ pc'[q] = pc[q] /\ op'[q] = op[q] /\ row'[q] = row[q]
           /\ snap'[q] = snap[q] /\ todo'[q] = todo[q] /\ fresh'[q] = fresh[q]
           /\ \A x \in Resources : (holder[x] = q) <=> (holder'[x] = q)
BY NobodyAssumption DEF TypeOK, End, Go, Forget, Release

(* Taking a lock leaves the others' locks alone.                           *)
LEMMA TakeKeepsOthers ==
    ASSUME TypeOK, NEW r \in Requests, NEW y, Take(r, y),
           NEW q \in Requests, q # r
    PROVE  \A x \in Resources : (holder[x] = q) <=> (holder'[x] = q)
BY NobodyAssumption DEF TypeOK, Take, Free

(* A step of r leaves the program and the locks of every other request     *)
(* alone.                                                                  *)
LEMMA OthersKeep ==
    ASSUME TypeOK, NEW r \in Requests, Begin(r) \/ Step(r) \/ Abort(r),
           NEW q \in Requests, q # r
    PROVE  /\ pc'[q] = pc[q] /\ op'[q] = op[q] /\ row'[q] = row[q]
           /\ snap'[q] = snap[q] /\ todo'[q] = todo[q] /\ fresh'[q] = fresh[q]
           /\ \A x \in Resources : (holder[x] = q) <=> (holder'[x] = q)
<1> DEFINE Goal == /\ pc'[q] = pc[q] /\ op'[q] = op[q] /\ row'[q] = row[q]
                   /\ snap'[q] = snap[q] /\ todo'[q] = todo[q] /\ fresh'[q] = fresh[q]
                   /\ \A x \in Resources : (holder[x] = q) <=> (holder'[x] = q)
<1> SUFFICES Goal
    OBVIOUS
<1>1. CASE Begin(r)
  <2>1. ASSUME NEW operation, NEW statement, NEW presented, NEW hash, NEW snapshot,
               Start(r, operation, statement, presented, hash, snapshot)
        PROVE  Goal
    BY <2>1 DEF Start, Go, TypeOK
  <2>2. ASSUME NEW operation, Reject(r, operation) PROVE Goal
    BY <2>2 DEF Reject, Go, TypeOK
  <2>3. ASSUME NEW s \in Requests, Logout(r, s) PROVE Goal
    BY <2>3 DEF Logout, Go, TypeOK
  <2> QED BY <1>1, <2>1, <2>2, <2>3
          DEF Begin, LoginSnapshot, ChangeSnapshot, RequestReset, CompleteReset, RevokeAll
<1>2. CASE Abort(r)
  BY <1>2, EndKeepsOthers DEF Abort
<1>3. CASE Step(r)
  <2>1. CASE LockFirst(r) \/ LockSecond(r) \/ LockAdvisory(r)
    BY <2>1, TakeKeepsOthers DEF LockFirst, LockSecond, LockAdvisory, Go, requestVars, TypeOK
  <2>2. CASE Confirm(r)
    BY <2>2, EndKeepsOthers DEF Confirm, Refuse, Go, requestVars, TypeOK
  <2>3. CASE LockOwnSession(r) \/ LockOwnToken(r)
    BY <2>3, TakeKeepsOthers, EndKeepsOthers
    DEF LockOwnSession, LockOwnToken, Refuse, Go, requestVars, TypeOK
  <2>4. CASE ScanTokens(r) \/ EndTokens(r) \/ ScanSessions(r) \/ EndSessions(r)
    BY <2>4 DEF ScanTokens, EndTokens, ScanSessions, EndSessions, Go, requestVars, TypeOK
  <2>5. CASE \E t \in Requests : LockNextToken(r, t)
    BY <2>5, NobodyAssumption DEF LockNextToken, Free, requestVars, TypeOK
  <2>6. CASE \E s \in Requests : LockNextSession(r, s)
    BY <2>6, NobodyAssumption DEF LockNextSession, Free, requestVars, TypeOK
  <2>7. CASE \/ CommitLogin(r) \/ CommitChange(r) \/ CommitRequest(r)
             \/ CommitComplete(r) \/ CommitRevokeAll(r)
    BY <2>7, EndKeepsOthers
    DEF CommitLogin, CommitChange, CommitRequest, CommitComplete, CommitRevokeAll
  <2> QED BY <1>3, <2>1, <2>2, <2>3, <2>4, <2>5, <2>6, <2>7 DEF Step
<1> QED BY <1>1, <1>2, <1>3

(* Where each operation starts.                                            *)
LEMMA BeginShape ==
    ASSUME TypeOK, NEW r \in Requests, Begin(r)
    PROVE  /\ pc[r] = "idle"
           /\ UNCHANGED <<cred, user, holder, todo>>
           /\ \/ pc'[r] = "lockFirst" /\ op'[r] = "login"
              \/ pc'[r] = "lockFirst" /\ op'[r] = "change" /\ row'[r] \in Requests
                                         /\ fresh'[r].salt = r
              \/ pc'[r] = "scanTokens" /\ op'[r] = "request"
              \/ pc'[r] = "lockOwnToken" /\ op'[r] = "complete" /\ row'[r] \in Requests
                                            /\ fresh'[r].salt = r
              \/ pc'[r] = "lockAdvisory" /\ op'[r] = "revokeAll"
              \/ pc'[r] = "refused"
              \/ pc'[r] = "committed" /\ op'[r] = "logout"
<1>1. ASSUME NEW operation, NEW statement, NEW presented, NEW hash, NEW snapshot,
             Start(r, operation, statement, presented, hash, snapshot)
      PROVE  /\ pc[r] = "idle"
             /\ UNCHANGED <<cred, user, holder, todo>>
             /\ pc'[r] = statement /\ op'[r] = operation /\ row'[r] = presented
             /\ fresh'[r] = hash
  BY <1>1 DEF Start, Go, TypeOK
<1>2. ASSUME NEW operation, Reject(r, operation)
      PROVE  pc[r] = "idle" /\ UNCHANGED <<cred, user, holder, todo>> /\ pc'[r] = "refused"
  BY <1>2 DEF Reject, Go, TypeOK
<1>3. ASSUME NEW s \in Requests, Logout(r, s)
      PROVE  /\ pc[r] = "idle" /\ UNCHANGED <<cred, user, holder, todo>>
             /\ pc'[r] = "committed" /\ op'[r] = "logout"
  BY <1>3 DEF Logout, Go, TypeOK
<1>4. CASE \E p \in Passwords : LoginSnapshot(r, p)
  BY <1>4, <1>1, <1>2 DEF LoginSnapshot
<1>5. CASE \E s \in Requests, old, new \in Passwords : ChangeSnapshot(r, s, old, new)
  BY <1>5, <1>1, <1>2 DEF ChangeSnapshot, Hash
<1>6. CASE RequestReset(r)
  BY <1>6, <1>1, <1>2 DEF RequestReset
<1>7. CASE \E t \in Requests, new \in Passwords : CompleteReset(r, t, new)
  BY <1>7, <1>1 DEF CompleteReset, Hash
<1>8. CASE RevokeAll(r)
  BY <1>8, <1>1 DEF RevokeAll
<1>9. CASE \E s \in Requests : Logout(r, s)
  BY <1>9, <1>3
<1> QED BY <1>4, <1>5, <1>6, <1>7, <1>8, <1>9 DEF Begin

(* The environment leaves every program and every lock alone.              *)
LEMMA EnvironmentKeeps ==
    ASSUME Environment \/ UNCHANGED vars
    PROVE  UNCHANGED <<holder, pc, requestVars, todo>>
BY DEF Environment, SessionExpires, TokenExpires, Suspend, Reactivate, vars, requestVars
-----------------------------------------------------------------------------
(* Each part of the inductive invariant is preserved.                      *)

(* A request follows the program of its operation.                         *)
LEMMA ProgramShapeStep ==
    ASSUME IndInv, TypeOK', [Next]_vars PROVE ProgramShape'
<1> USE DEF IndInv
<1>1. CASE Environment \/ UNCHANGED vars
  BY <1>1, EnvironmentKeeps DEF ProgramShape, requestVars, Running
<1>2. ASSUME NEW r \in Requests, Begin(r) \/ Step(r) \/ Abort(r)
      PROVE  ProgramShape'
  <2> DEFINE Shape(q) ==
        /\ pc[q] \in {"lockFirst", "lockSecond"} => op[q] \in {"login", "change", "complete"}
        /\ pc[q] \in {"confirm"} => op[q] \in {"login", "change"}
        /\ pc[q] = "lockOwnSession" => op[q] = "change"
        /\ pc[q] = "lockOwnToken" => op[q] = "complete"
        /\ op[q] \in {"change", "complete"} => pc[q] # "lockAdvisory"
        /\ pc[q] \in {"scanTokens", "lockTokens"} => op[q] \in {"request", "complete"}
        /\ pc[q] \in {"scanSessions", "lockSessions"} =>
              op[q] \in {"login", "change", "complete", "revokeAll"}
        /\ pc[q] = "lockAdvisory" => op[q] \in {"login", "revokeAll"}
        /\ op[q] \in {"change", "complete"} /\ Running(q) => row[q] \in Requests
        /\ pc[q] = "idle" => op[q] = "none"
  <2>1. ASSUME NEW q \in Requests, q # r PROVE Shape(q)'
    BY <1>2, <2>1, OthersKeep DEF ProgramShape, Running
  <2> SUFFICES Shape(r)'
    BY <2>1 DEF ProgramShape
  <2>2. Shape(r)
    BY DEF ProgramShape
  <2>3. ASSUME NEW outcome \in Finished, End(r, outcome) PROVE Shape(r)'
    BY <2>3 DEF End, Go, Forget, Finished, Statements, Running, TypeOK
  <2>4. CASE Begin(r)
    BY <2>4, BeginShape DEF Running, Statements
  <2>5. CASE Abort(r)
    BY <2>5, <2>3 DEF Abort, Finished
  <2>6. CASE Step(r)
    <3>1. CASE Refuse(r)
      BY <3>1, <2>3 DEF Refuse, Finished
    <3>2. CASE LockFirst(r) \/ LockSecond(r) \/ LockAdvisory(r)
      BY <3>2, <2>2 DEF LockFirst, LockSecond, LockAdvisory, Go, requestVars, TypeOK,
                        Running, Statements
    <3>3. CASE Confirm(r)
      BY <3>3, <3>1, <2>2 DEF Confirm, Go, requestVars, TypeOK, Running, Statements
    <3>4. CASE LockOwnSession(r) \/ LockOwnToken(r)
      BY <3>4, <3>1, <2>2
      DEF LockOwnSession, LockOwnToken, Go, requestVars, TypeOK, Running, Statements
    <3>5. CASE ScanTokens(r) \/ EndTokens(r) \/ ScanSessions(r) \/ EndSessions(r)
      BY <3>5, <2>2 DEF ScanTokens, EndTokens, ScanSessions, EndSessions, Go, requestVars,
                        TypeOK, Running, Statements
    <3>6. CASE \E x \in Requests : LockNextToken(r, x) \/ LockNextSession(r, x)
      BY <3>6, <2>2 DEF LockNextToken, LockNextSession, requestVars, Running
    <3>7. CASE \/ CommitLogin(r) \/ CommitChange(r) \/ CommitRequest(r)
               \/ CommitComplete(r) \/ CommitRevokeAll(r)
      BY <3>7, <2>3 DEF CommitLogin, CommitChange, CommitRequest, CommitComplete,
                        CommitRevokeAll, Finished
    <3> QED BY <2>6, <3>2, <3>3, <3>4, <3>5, <3>6, <3>7 DEF Step
  <2> QED BY <1>2, <2>4, <2>5, <2>6
<1> QED BY <1>1, <1>2 DEF Next

(* The two rows that decide whether a password is current are held by      *)
(* whoever relies on them.                                                 *)
LEMMA HoldsCredentialStep ==
    ASSUME IndInv, TypeOK', [Next]_vars PROVE HoldsCredential'
<1> USE DEF IndInv
<1>1. CASE Environment \/ UNCHANGED vars
  BY <1>1, EnvironmentKeeps DEF HoldsCredential, requestVars
<1>2. ASSUME NEW r \in Requests, Begin(r) \/ Step(r) \/ Abort(r)
      PROVE  HoldsCredential'
  <2> DEFINE Holds(q) ==
        /\ pc[q] = "lockSecond" => holder[Cred] = q
        /\ op[q] \in {"login", "change"} /\ pc[q] \in AfterBothLocks =>
              holder[Cred] = q /\ holder[User] = q
        /\ op[q] = "complete" /\ pc[q] \in {"scanSessions", "lockSessions", "commit"} =>
              holder[Cred] = q /\ holder[User] = q
  <2>1. ASSUME NEW q \in Requests, q # r PROVE Holds(q)'
    BY <1>2, <2>1, OthersKeep, ResourcesDiffer DEF HoldsCredential
  <2> SUFFICES Holds(r)'
    BY <2>1 DEF HoldsCredential
  <2>2. Holds(r)
    BY DEF HoldsCredential
  <2>3. ASSUME NEW outcome \in Finished, Go(r, outcome) PROVE Holds(r)'
    BY <2>3 DEF Go, Finished, TypeOK, AfterBothLocks
  <2>4. CASE Begin(r)
    BY <2>4, BeginShape DEF AfterBothLocks
  <2>5. CASE Abort(r)
    BY <2>5, <2>3 DEF Abort, End, Finished
  <2>6. CASE Step(r)
    <3>1. CASE Refuse(r)
      BY <3>1, <2>3 DEF Refuse, End, Finished
    <3>2. CASE LockFirst(r)
      BY <3>2, ResourcesDiffer
      DEF LockFirst, Take, Go, CredentialLocks, requestVars, TypeOK, AfterBothLocks
    <3>3. CASE LockSecond(r)
      BY <3>3, <2>2, ResourcesDiffer DEF LockSecond, Take, Go, CredentialLocks, requestVars,
           TypeOK, AfterBothLocks, ProgramShape
    <3>4. CASE Confirm(r)
      BY <3>4, <3>1, <2>2 DEF Confirm, Go, requestVars, TypeOK, AfterBothLocks
    <3>5. CASE LockAdvisory(r)
      BY <3>5, <2>2, ResourcesDiffer DEF LockAdvisory, Take, Go, requestVars, TypeOK,
           AfterBothLocks, ProgramShape
    <3>6. CASE LockOwnSession(r)
      BY <3>6, <3>1, <2>2, ResourcesDiffer DEF LockOwnSession, Take, Go, requestVars, TypeOK,
           AfterBothLocks, ProgramShape, Running, Statements
    <3>7. CASE LockOwnToken(r)
      BY <3>7, <3>1, <2>2 DEF LockOwnToken, Go, requestVars, TypeOK, AfterBothLocks
    <3>8. CASE ScanTokens(r) \/ EndTokens(r) \/ ScanSessions(r) \/ EndSessions(r)
      BY <3>8, <2>2 DEF ScanTokens, EndTokens, ScanSessions, EndSessions, Go, requestVars,
           TypeOK, AfterBothLocks, ProgramShape
    <3>9. CASE \E t \in Requests : LockNextToken(r, t)
      BY <3>9, <2>2, ResourcesDiffer DEF LockNextToken, requestVars, TypeOK
    <3>10. CASE \E s \in Requests : LockNextSession(r, s)
      BY <3>10, <2>2, ResourcesDiffer DEF LockNextSession, requestVars, TypeOK
    <3>11. CASE \/ CommitLogin(r) \/ CommitChange(r) \/ CommitRequest(r)
                \/ CommitComplete(r) \/ CommitRevokeAll(r)
      BY <3>11, <2>3 DEF CommitLogin, CommitChange, CommitRequest, CommitComplete,
                         CommitRevokeAll, End, Finished
    <3> QED BY <2>6, <3>2, <3>3, <3>4, <3>5, <3>6, <3>7, <3>8, <3>9, <3>10, <3>11 DEF Step
  <2> QED BY <1>2, <2>4, <2>5, <2>6
<1> QED BY <1>1, <1>2 DEF Next
(* Who writes which rows: the credential and the user row change only      *)
(* under their locks, and a session row comes to life only under the lock  *)
(* of the credential.                                                      *)
LEMMA WritesUnderLock ==
    ASSUME IndInv, NEW r \in Requests, Begin(r) \/ Step(r) \/ Abort(r)
    PROVE  /\ UNCHANGED <<cred, user>> \/ (holder[Cred] = r /\ holder[User] = r)
           /\ Unrevoked' \subseteq Unrevoked \/ holder[Cred] = r
<1> USE DEF IndInv
<1>1. ASSUME NEW S, sessions' = Revoke(S) PROVE Unrevoked' \subseteq Unrevoked
  BY <1>1 DEF Revoke, Unrevoked, TypeOK, SessionRows
<1>2. CASE Begin(r)
  <2>1. sessions' = sessions \/ \E S : sessions' = Revoke(S)
    BY <1>2 DEF Begin, LoginSnapshot, ChangeSnapshot, RequestReset, CompleteReset,
                RevokeAll, Logout, Start, Reject
  <2> QED BY <1>1, <1>2, <2>1, BeginShape DEF Unrevoked
<1>3. CASE Abort(r)
  BY <1>3 DEF Abort, Unrevoked
<1>4. CASE Step(r)
  <2>1. CASE CommitLogin(r)
    BY <2>1 DEF CommitLogin, HoldsCredential, AfterBothLocks
  <2>2. CASE CommitChange(r)
    BY <2>2 DEF CommitChange, HoldsCredential, AfterBothLocks
  <2>3. CASE CommitComplete(r)
    BY <2>3 DEF CommitComplete, HoldsCredential
  <2>4. CASE CommitRevokeAll(r)
    BY <2>4, <1>1 DEF CommitRevokeAll
  <2>5. CASE UNCHANGED <<cred, user, sessions>>
    BY <2>5 DEF Unrevoked
  <2>6. CASE \/ LockFirst(r) \/ LockSecond(r) \/ Confirm(r) \/ LockAdvisory(r)
             \/ LockOwnSession(r) \/ LockOwnToken(r) \/ ScanTokens(r) \/ EndTokens(r)
             \/ ScanSessions(r) \/ EndSessions(r) \/ CommitRequest(r)
             \/ \E x \in Requests : LockNextToken(r, x) \/ LockNextSession(r, x)
    BY <2>6, <2>5 DEF LockFirst, LockSecond, Confirm, LockAdvisory, LockOwnSession,
         LockOwnToken, ScanTokens, EndTokens, ScanSessions, EndSessions, CommitRequest,
         LockNextToken, LockNextSession, Refuse
  <2> QED BY <1>4, <2>1, <2>2, <2>3, <2>4, <2>6 DEF Step
<1> QED BY <1>2, <1>3, <1>4

(* A confirmed request's snapshot stays current while it holds the rows.   *)
LEMMA ConfirmedIsCurrentStep ==
    ASSUME IndInv, TypeOK', [Next]_vars PROVE ConfirmedIsCurrent'
<1> USE DEF IndInv
<1>0. AfterConfirm \subseteq AfterBothLocks
  BY DEF AfterConfirm
<1>1. CASE Environment \/ UNCHANGED vars
  <2> SUFFICES ASSUME NEW q \in Requests, op[q] \in {"login", "change"}, pc[q] \in AfterConfirm
               PROVE  user'.active /\ snap[q] = Snapshot'
    BY <1>1, EnvironmentKeeps DEF ConfirmedIsCurrent, requestVars
  <2>1. holder[User] = q
    BY <1>0 DEF HoldsCredential
  <2>2. UNCHANGED <<cred, user>>
    BY <1>1, <2>1, NobodyAssumption
    DEF Environment, SessionExpires, TokenExpires, Suspend, Reactivate, Free, vars
  <2> QED BY <2>2 DEF ConfirmedIsCurrent, Snapshot
<1>2. ASSUME NEW r \in Requests, Begin(r) \/ Step(r) \/ Abort(r)
      PROVE  ConfirmedIsCurrent'
  <2> DEFINE Current(q) == op[q] \in {"login", "change"} /\ pc[q] \in AfterConfirm =>
                              user.active /\ snap[q] = Snapshot
  <2>1. ASSUME NEW q \in Requests, q # r PROVE Current(q)'
    <3> SUFFICES ASSUME op'[q] \in {"login", "change"}, pc'[q] \in AfterConfirm
                 PROVE  user'.active /\ snap'[q] = Snapshot'
      OBVIOUS
    <3>1. op[q] \in {"login", "change"} /\ pc[q] \in AfterConfirm /\ snap'[q] = snap[q]
      BY <1>2, <2>1, OthersKeep
    <3>2. holder[Cred] = q
      BY <3>1, <1>0 DEF HoldsCredential
    <3>3. UNCHANGED <<cred, user>>
      BY <1>2, <2>1, <3>2, WritesUnderLock
    <3> QED BY <3>1, <3>3 DEF ConfirmedIsCurrent, Snapshot
  <2> SUFFICES Current(r)'
    BY <2>1 DEF ConfirmedIsCurrent
  <2>2. Current(r)
    BY DEF ConfirmedIsCurrent
  <2>3. ASSUME NEW outcome \in Finished, Go(r, outcome) PROVE Current(r)'
    BY <2>3 DEF Go, Finished, TypeOK, AfterBothLocks, AfterConfirm
  <2>4. CASE Begin(r)
    BY <2>4, BeginShape DEF AfterConfirm, AfterBothLocks
  <2>5. CASE Abort(r)
    BY <2>5, <2>3 DEF Abort, End, Finished
  <2>6. CASE Step(r)
    <3>1. CASE Refuse(r)
      BY <3>1, <2>3 DEF Refuse, End, Finished
    <3>2. CASE LockFirst(r) \/ LockSecond(r) \/ ScanTokens(r)
      BY <3>2 DEF LockFirst, LockSecond, ScanTokens, Go, TypeOK, AfterConfirm, AfterBothLocks,
                  ProgramShape, requestVars
    <3>3. CASE Confirm(r)
      BY <3>3, <3>1 DEF Confirm, StillCurrent, Snapshot, requestVars
    <3>4. CASE LockAdvisory(r) \/ ScanSessions(r) \/ EndSessions(r)
      BY <3>4, <2>2 DEF LockAdvisory, ScanSessions, EndSessions, Go, TypeOK, requestVars,
                        AfterConfirm, AfterBothLocks, Snapshot
    <3>5. CASE LockOwnSession(r) \/ LockOwnToken(r)
      BY <3>5, <3>1, <2>2 DEF LockOwnSession, LockOwnToken, Go, TypeOK, requestVars,
                              AfterConfirm, AfterBothLocks, Snapshot
    <3>6. CASE EndTokens(r)
      BY <3>6 DEF EndTokens, Go, TypeOK, requestVars, ProgramShape
    <3>7. CASE \E x \in Requests : LockNextToken(r, x) \/ LockNextSession(r, x)
      BY <3>7, <2>2 DEF LockNextToken, LockNextSession, requestVars, Snapshot
    <3>8. CASE \/ CommitLogin(r) \/ CommitChange(r) \/ CommitRequest(r)
               \/ CommitComplete(r) \/ CommitRevokeAll(r)
      BY <3>8, <2>3 DEF CommitLogin, CommitChange, CommitRequest, CommitComplete,
                        CommitRevokeAll, End, Finished
    <3> QED BY <2>6, <3>2, <3>3, <3>4, <3>5, <3>6, <3>7, <3>8 DEF Step
  <2> QED BY <1>2, <2>4, <2>5, <2>6
<1> QED BY <1>1, <1>2 DEF Next

(* No unrevoked row escapes a login, a change or a completion: rows        *)
(* inserted after its scan would need the credential lock it holds.        *)
LEMMA ScanCoversStep ==
    ASSUME IndInv, TypeOK', [Next]_vars PROVE ScanCovers'
<1> USE DEF IndInv
<1>1. CASE Environment \/ UNCHANGED vars
  <2>1. Unrevoked' \subseteq Unrevoked
    BY <1>1 DEF Environment, SessionExpires, TokenExpires, Suspend, Reactivate, vars,
                Unrevoked, TypeOK, SessionRows
  <2> QED BY <1>1, <2>1, EnvironmentKeeps DEF ScanCovers, HeldSessions, requestVars
<1>2. ASSUME NEW r \in Requests, Begin(r) \/ Step(r) \/ Abort(r)
      PROVE  ScanCovers'
  <2> DEFINE Covers(q) ==
        op[q] \in {"login", "change", "complete"} =>
            /\ pc[q] = "lockSessions" => Unrevoked \subseteq todo[q] \cup HeldSessions(q)
            /\ pc[q] = "commit" => Unrevoked \subseteq HeldSessions(q)
  <2>1. ASSUME NEW q \in Requests, q # r PROVE Covers(q)'
    <3> SUFFICES ASSUME op'[q] \in {"login", "change", "complete"}, pc'[q] \in {"lockSessions", "commit"}
                 PROVE  /\ pc'[q] = "lockSessions" =>
                              Unrevoked' \subseteq todo'[q] \cup HeldSessions(q)'
                        /\ pc'[q] = "commit" => Unrevoked' \subseteq HeldSessions(q)'
      OBVIOUS
    <3>1. /\ op[q] \in {"login", "change", "complete"} /\ pc[q] \in {"lockSessions", "commit"}
          /\ pc'[q] = pc[q] /\ todo'[q] = todo[q]
      BY <1>2, <2>1, OthersKeep
    <3>2. HeldSessions(q)' = HeldSessions(q)
      BY <1>2, <2>1, OthersKeep, ResourcesDiffer DEF HeldSessions
    <3>3. holder[Cred] = q
      BY <3>1 DEF HoldsCredential, AfterBothLocks
    <3>4. Unrevoked' \subseteq Unrevoked
      BY <1>2, <2>1, <3>3, WritesUnderLock
    <3> QED BY <3>1, <3>2, <3>4 DEF ScanCovers
  <2> SUFFICES Covers(r)'
    BY <2>1 DEF ScanCovers
  <2>2. Covers(r)
    BY DEF ScanCovers
  <2>3. ASSUME pc'[r] \notin {"lockSessions", "commit"} PROVE Covers(r)'
    BY <2>3
  <2>4. CASE Begin(r)
    BY <2>4, <2>3, BeginShape
  <2>5. CASE Abort(r)
    BY <2>5, <2>3 DEF Abort, End, Go, TypeOK
  <2>6. CASE Step(r)
    <3>1. CASE ScanSessions(r)
      BY <3>1 DEF ScanSessions, Go, TypeOK, Unrevoked, HeldSessions, requestVars
    <3>2. CASE \E s \in Requests : LockNextSession(r, s)
      <4> PICK s \in Requests : LockNextSession(r, s)
        BY <3>2
      <4>1. Unrevoked' = Unrevoked /\ pc' = pc /\ op' = op /\ pc[r] = "lockSessions"
        BY DEF LockNextSession, Unrevoked, requestVars
      <4>2. todo'[r] = todo[r] \ {s}
        BY DEF LockNextSession, TypeOK
      <4>3. HeldSessions(r) \subseteq HeldSessions(r)'
        BY ResourcesDiffer DEF LockNextSession, HeldSessions, TypeOK
      <4>4. s \in Unrevoked => s \in HeldSessions(r)'
        BY ResourcesDiffer DEF LockNextSession, HeldSessions, TypeOK
      <4> QED BY <2>2, <4>1, <4>2, <4>3, <4>4
    <3>3. CASE EndSessions(r)
      BY <3>3, <2>2 DEF EndSessions, Go, TypeOK, Unrevoked, HeldSessions, requestVars
    <3>4. CASE EndTokens(r)
      BY <3>4, <2>2 DEF EndTokens, Go, TypeOK, requestVars, ProgramShape
    <3>5. CASE Refuse(r)
      BY <3>5, <2>3 DEF Refuse, End, Go, TypeOK
    <3>6. CASE \/ LockFirst(r) \/ LockSecond(r) \/ Confirm(r) \/ LockAdvisory(r)
               \/ LockOwnSession(r) \/ LockOwnToken(r) \/ ScanTokens(r)
               \/ \E t \in Requests : LockNextToken(r, t)
      BY <3>6, <3>5, <2>3 DEF LockFirst, LockSecond, Confirm, LockAdvisory, LockOwnSession,
           LockOwnToken, ScanTokens, LockNextToken, Go, TypeOK
    <3>7. CASE \/ CommitLogin(r) \/ CommitChange(r) \/ CommitRequest(r)
               \/ CommitComplete(r) \/ CommitRevokeAll(r)
      BY <3>7, <2>3 DEF CommitLogin, CommitChange, CommitRequest, CommitComplete,
                        CommitRevokeAll, End, Go, TypeOK
    <3> QED BY <2>6, <3>1, <3>2, <3>3, <3>4, <3>6, <3>7 DEF Step
  <2> QED BY <1>2, <2>4, <2>5, <2>6
<1> QED BY <1>1, <1>2 DEF Next

(* A new session carries the hash in force, and replacing the hash leaves  *)
(* no unrevoked session.                                                   *)
LEMMA MatchStep ==
    ASSUME IndInv, [Next]_vars PROVE UnrevokedMatchCredential'
<1> USE DEF IndInv
<1>1. ASSUME NEW S, sessions' = Revoke(S)
      PROVE  \A s \in Unrevoked' : s \in Unrevoked \ S /\ sessions'[s] = sessions[s]
  BY <1>1 DEF Revoke, Unrevoked, TypeOK, SessionRows
<1>2. CASE Environment \/ UNCHANGED vars
  <2>1. cred' = cred /\ \A s \in Requests : sessions'[s].hash = sessions[s].hash
    BY <1>2 DEF Environment, SessionExpires, TokenExpires, Suspend, Reactivate, vars,
                TypeOK, SessionRows
  <2>2. Unrevoked' \subseteq Unrevoked
    BY <1>2 DEF Environment, SessionExpires, TokenExpires, Suspend, Reactivate, vars,
                Unrevoked, TypeOK, SessionRows
  <2> QED BY <2>1, <2>2 DEF UnrevokedMatchCredential, Unrevoked
<1>3. ASSUME NEW r \in Requests, Begin(r) PROVE UnrevokedMatchCredential'
  <2>1. sessions' = sessions \/ \E S : sessions' = Revoke(S)
    BY <1>3 DEF Begin, LoginSnapshot, ChangeSnapshot, RequestReset, CompleteReset,
                RevokeAll, Logout, Start, Reject
  <2> QED BY <1>1, <1>3, <2>1, BeginShape DEF UnrevokedMatchCredential, Unrevoked
<1>4. ASSUME NEW r \in Requests, Abort(r) PROVE UnrevokedMatchCredential'
  BY <1>4 DEF Abort, UnrevokedMatchCredential, Unrevoked
<1>5. ASSUME NEW r \in Requests, Step(r) PROVE UnrevokedMatchCredential'
  <2>1. CASE CommitLogin(r)
    <3>1. snap[r].hash = cred.hash
      BY <2>1 DEF CommitLogin, ConfirmedIsCurrent, AfterConfirm, AfterBothLocks, Snapshot
    <3>2. Revoke(Surplus(r)) \in [Requests -> SessionRows]
      BY RevokeType
    <3>3. sessions'[r].hash = cred.hash
      BY <2>1, <3>1, <3>2 DEF CommitLogin, Issue
    <3>4. ASSUME NEW s \in Requests, s # r, s \in Unrevoked'
          PROVE  s \in Unrevoked /\ sessions'[s] = sessions[s]
      <4>1. sessions'[s] = Revoke(Surplus(r))[s]
        BY <2>1, <3>2, <3>4 DEF CommitLogin, Issue
      <4> QED BY <3>4, <4>1 DEF Revoke, Unrevoked, TypeOK, SessionRows
    <3> QED BY <2>1, <3>3, <3>4 DEF CommitLogin, UnrevokedMatchCredential, Unrevoked
  <2>2. CASE CommitChange(r) \/ CommitComplete(r)
    <3>1. Unrevoked \subseteq Revocable(r)
      BY <2>2 DEF CommitChange, CommitComplete, ScanCovers, Revocable
    <3>2. sessions' = Revoke(Revocable(r))
      BY <2>2 DEF CommitChange, CommitComplete, ReplaceCredential
    <3> QED BY <1>1, <3>1, <3>2 DEF UnrevokedMatchCredential
  <2>3. CASE CommitRevokeAll(r)
    BY <2>3, <1>1 DEF CommitRevokeAll, UnrevokedMatchCredential
  <2>4. CASE UNCHANGED <<cred, sessions>>
    BY <2>4 DEF UnrevokedMatchCredential, Unrevoked
  <2>5. CASE \/ LockFirst(r) \/ LockSecond(r) \/ Confirm(r) \/ LockAdvisory(r)
             \/ LockOwnSession(r) \/ LockOwnToken(r) \/ ScanTokens(r) \/ EndTokens(r)
             \/ ScanSessions(r) \/ EndSessions(r) \/ CommitRequest(r)
             \/ \E x \in Requests : LockNextToken(r, x) \/ LockNextSession(r, x)
    BY <2>5, <2>4 DEF LockFirst, LockSecond, Confirm, LockAdvisory, LockOwnSession,
         LockOwnToken, ScanTokens, EndTokens, ScanSessions, EndSessions, CommitRequest,
         LockNextToken, LockNextSession, Refuse
  <2> QED BY <1>5, <2>1, <2>2, <2>3, <2>5 DEF Step
<1> QED BY <1>2, <1>3, <1>4, <1>5 DEF Next

-----------------------------------------------------------------------------
(* The inductive invariant holds in every reachable state.                 *)
LEMMA IndInvAlways == Spec => []IndInv
<1>1. Init => IndInv
  <2>1. Init => TypeOK
    BY HashType, SnapshotType
    DEF Init, TypeOK, NoSession, SessionRows, SessionStatus, TokenStatus, Resources
  <2> QED BY <2>1 DEF Init, IndInv, ProgramShape, HoldsCredential, ConfirmedIsCurrent,
               ScanCovers, UnrevokedMatchCredential, Unrevoked, NoSession, Running,
               Statements, AfterConfirm, AfterBothLocks
<1>2. IndInv /\ [Next]_vars => IndInv'
  <2> SUFFICES ASSUME IndInv, [Next]_vars PROVE IndInv'
    OBVIOUS
  <2>1. TypeOK'
    BY TypeStep DEF IndInv
  <2> QED BY <2>1, ProgramShapeStep, HoldsCredentialStep, ConfirmedIsCurrentStep,
             ScanCoversStep, MatchStep DEF IndInv
<1> QED BY <1>1, <1>2, PTL DEF Spec

(* However requests interleave, an unrevoked session was opened by proving *)
(* the password that is in force.                                          *)
THEOREM SessionsMatchCredential == Spec => []UnrevokedMatchCredential
<1>1. IndInv => UnrevokedMatchCredential
  BY DEF IndInv
<1> QED BY <1>1, IndInvAlways, PTL

-----------------------------------------------------------------------------
(***************************************************************************)
(* A reset token works once, no replacement rests on a stale proof, a      *)
(* login is never a deadlock victim, the concurrent session limit holds,   *)
(* and the transactions implement CredentialAuthority.  Every invariant    *)
(* below is inductive relative to IndInv.                                  *)
(***************************************************************************)

(* The statements that lock and write session rows.                        *)
AtSessions == {"scanSessions", "lockSessions", "commit"}

(* Only a token that can still be used is locked; a completion past its    *)
(* first statement holds its own token, and a committed one consumed it.   *)
TokenLocks ==
    /\ \A t \in Requests : ~Free(Token(t)) => t \in Unused
    /\ \A r \in Requests :
          /\ pc[r] # "committed" => tokens[r] = "absent"
          /\ op[r] = "complete" /\ Running(r) /\ pc[r] # "lockOwnToken" =>
                holder[Token(row[r])] = r
          /\ op[r] = "complete" /\ pc[r] = "committed" =>
                row[r] \in Requests /\ tokens[row[r]] = "consumed"

(* The statements of a transaction that may hold the credential row.       *)
WithCredential == {"lockSecond", "confirm", "lockAdvisory", "lockOwnSession"} \cup AtSessions

(* Which locks each operation can hold at each statement.                  *)
LockShape ==
    \A r \in Requests :
        /\ holder[Cred] = r => /\ op[r] \in {"login", "change", "complete"}
                               /\ pc[r] \in WithCredential
        /\ holder[User] = r => holder[Cred] = r /\ pc[r] # "lockSecond"
        /\ holder[Advisory] = r => op[r] \in {"login", "revokeAll"} /\ pc[r] \in AtSessions
        /\ op[r] \in {"login", "revokeAll"} /\ pc[r] \in AtSessions => holder[Advisory] = r
        /\ \A s \in Requests : holder[Session(s)] = r =>
              op[r] \in {"login", "revokeAll", "change", "complete"} /\ pc[r] \in AtSessions
        /\ \A t \in Requests : holder[Token(t)] = r => op[r] \in {"request", "complete"}
        /\ pc[r] = "lockSessions" => todo[r] \cap HeldSessions(r) = {}

(* Rows of auth.sessions, whatever became of them.                         *)
Opened == {s \in Requests : sessions[s].status # "absent"}

(* Each session row was inserted by its own request's commit, in an order  *)
(* that `born` records, at a version the user has had; only inserted rows  *)
(* are locked.                                                             *)
Births ==
    /\ \A r \in Requests : pc[r] # "committed" => r \notin Opened
    /\ \A s \in Opened : sessions[s].born <= Cardinality(Opened)
    /\ \A s, q \in Opened : sessions[s].born = sessions[q].born => s = q
    /\ \A s \in Requests : sessions[s].version <= user.version
    /\ \A s \in Requests : ~Free(Session(s)) => s \in Opened

(* A running change or completion computed a hash with a salt of its own,  *)
(* which nobody can have put in force before it commits.                   *)
FreshHash ==
    \A r \in Requests :
        /\ op[r] \in {"change", "complete"} /\ Running(r) => fresh[r].salt = r
        /\ cred.hash.salt = r => pc[r] = "committed"
-----------------------------------------------------------------------------
(* A request that has ended takes no further step.                         *)
LEMMA ActsBeforeCommit ==
    ASSUME TypeOK, NEW r \in Requests, Begin(r) \/ Step(r) \/ Abort(r)
    PROVE  pc[r] \notin Finished
BY BeginShape DEF Step, Abort, Running, Statements, Finished, LockFirst, LockSecond, Confirm,
       LockAdvisory, LockOwnSession, LockOwnToken, ScanTokens, EndTokens, ScanSessions,
       EndSessions, LockNextToken, LockNextSession, CommitLogin, CommitChange,
       CommitRequest, CommitComplete, CommitRevokeAll

(* A request that has ended stays as it is.                                *)
LEMMA EndedStays ==
    ASSUME TypeOK, [Next]_vars, NEW r \in Requests, pc[r] \in Finished
    PROVE  pc'[r] = pc[r] /\ op'[r] = op[r] /\ row'[r] = row[r]
<1>1. CASE Environment \/ UNCHANGED vars
  BY <1>1, EnvironmentKeeps DEF requestVars
<1>2. ASSUME NEW q \in Requests, Begin(q) \/ Step(q) \/ Abort(q)
      PROVE  pc'[r] = pc[r] /\ op'[r] = op[r] /\ row'[r] = row[r]
  BY <1>2, ActsBeforeCommit, OthersKeep
<1> QED BY <1>1, <1>2 DEF Next

(* A change or a completion becomes committed by its commit only.          *)
LEMMA NewlyReplaced ==
    ASSUME TypeOK, [Next]_vars, NEW r \in Requests, pc[r] # "committed",
           pc'[r] = "committed", op'[r] \in {"change", "complete"}
    PROVE  CommitChange(r) \/ CommitComplete(r)
<1>1. CASE Environment \/ UNCHANGED vars
  BY <1>1, EnvironmentKeeps DEF requestVars
<1>2. ASSUME NEW q \in Requests, q # r, Begin(q) \/ Step(q) \/ Abort(q) PROVE FALSE
  BY <1>2, OthersKeep
<1>3. CASE Begin(r)
  BY <1>3, BeginShape
<1>4. CASE Abort(r)
  BY <1>4 DEF Abort, End, Go, TypeOK
<1>5. CASE Step(r)
  BY <1>5 DEF Step, LockFirst, LockSecond, Confirm, LockAdvisory, LockOwnSession,
       LockOwnToken, ScanTokens, EndTokens, ScanSessions, EndSessions, LockNextToken,
       LockNextSession, CommitLogin, CommitRequest, CommitRevokeAll,
       Refuse, End, Go, Forget, requestVars, TypeOK
<1> QED BY <1>1, <1>2, <1>3, <1>4, <1>5 DEF Next

(* Only the commit of a change or of a completion writes the credential,   *)
(* and the user's version never falls.                                     *)
LEMMA CredentialWriters ==
    ASSUME TypeOK, [Next]_vars
    PROVE  /\ user'.version >= user.version
           /\ \/ cred' = cred /\ (user' = user \/ Suspend \/ Reactivate)
              \/ \E r \in Requests : CommitChange(r) \/ CommitComplete(r)
<1>0. user.version \in Nat
  BY DEF TypeOK
<1>1. CASE Environment \/ UNCHANGED vars
  BY <1>0, <1>1 DEF Environment, SessionExpires, TokenExpires, Suspend, Reactivate, vars, TypeOK
<1>2. ASSUME NEW r \in Requests, Begin(r) \/ Step(r) \/ Abort(r)
      PROVE  (cred' = cred /\ user' = user) \/ CommitChange(r) \/ CommitComplete(r)
  BY <1>2, BeginShape DEF Step, LockFirst, LockSecond, Confirm, LockAdvisory,
       LockOwnSession, LockOwnToken, ScanTokens, EndTokens, ScanSessions, EndSessions,
       LockNextToken, LockNextSession, CommitLogin, CommitRequest, CommitRevokeAll,
       Refuse, Abort
<1>3. ASSUME NEW r \in Requests, CommitChange(r) \/ CommitComplete(r)
      PROVE  user'.version >= user.version
  BY <1>0, <1>3 DEF CommitChange, CommitComplete, ReplaceCredential, TypeOK
<1> QED BY <1>0, <1>1, <1>2, <1>3 DEF Next
-----------------------------------------------------------------------------
(* Reset tokens.                                                           *)

(* The requests write token rows only when they commit.                    *)
LEMMA TokenWriters ==
    ASSUME NEW r \in Requests, Begin(r) \/ Step(r) \/ Abort(r)
    PROVE  tokens' = tokens \/ CommitRequest(r) \/ CommitComplete(r)
BY DEF Begin, LoginSnapshot, ChangeSnapshot, RequestReset, CompleteReset, RevokeAll, Logout,
       Start, Reject, Step, LockFirst, LockSecond, Confirm, LockAdvisory, LockOwnSession,
       LockOwnToken, ScanTokens, EndTokens, ScanSessions, EndSessions, LockNextToken,
       LockNextSession, CommitLogin, CommitChange, CommitRevokeAll, Refuse, Abort

(* A consumed token stays consumed: nobody can hold it any more.           *)
LEMMA ConsumedStays ==
    ASSUME IndInv, TokenLocks, [Next]_vars
    PROVE  \A t \in Requests : tokens[t] = "consumed" => tokens'[t] = "consumed"
<1>1. \/ tokens' = tokens
      \/ \E t \in Requests : TokenExpires(t)
      \/ \E r \in Requests : CommitRequest(r) \/ CommitComplete(r)
  BY TokenWriters DEF Next, vars, Environment, SessionExpires, Suspend, Reactivate
<1>2. ASSUME NEW t \in Requests, tokens[t] = "consumed" PROVE tokens'[t] = "consumed"
  <2>1. t \notin Unused /\ Free(Token(t))
    BY <1>2 DEF TokenLocks, Unused
  <2>2. ASSUME NEW r \in Requests, CommitRequest(r) PROVE tokens'[t] = "consumed"
    <3>1. tokens[r] = "absent"
      BY <2>2 DEF CommitRequest, TokenLocks
    <3> QED BY <1>2, <2>1, <2>2, <3>1, NobodyAssumption
            DEF CommitRequest, RevokeTokens, Free
  <2>3. ASSUME NEW r \in Requests, CommitComplete(r) PROVE tokens'[t] = "consumed"
    BY <1>2, <2>1, <2>3, NobodyAssumption DEF CommitComplete, RevokeTokens, Free
  <2>4. ASSUME NEW u \in Requests, TokenExpires(u) PROVE tokens'[t] = "consumed"
    BY <1>2, <2>4 DEF TokenExpires, IndInv, TypeOK
  <2> QED BY <1>1, <1>2, <2>2, <2>3, <2>4
<1> QED BY <1>1, <1>2

(* A token is locked only while it can still be used, by whoever is about  *)
(* to consume or revoke it.                                                *)
LEMMA TokenLocksStep ==
    ASSUME IndInv, IndInv', TokenLocks, [Next]_vars PROVE TokenLocks'
<1> USE DEF IndInv
<1> DEFINE OfRow(t) == ~Free(Token(t)) => t \in Unused
           OfRequest(q) ==
               /\ pc[q] # "committed" => tokens[q] = "absent"
               /\ op[q] = "complete" /\ Running(q) /\ pc[q] # "lockOwnToken" =>
                     holder[Token(row[q])] = q
               /\ op[q] = "complete" /\ pc[q] = "committed" =>
                     row[q] \in Requests /\ tokens[row[q]] = "consumed"
<1>0. (\A t \in Requests : OfRow(t)) /\ (\A q \in Requests : OfRequest(q))
  BY DEF TokenLocks
<1>1. CASE Environment \/ UNCHANGED vars
  <2>1. UNCHANGED <<holder, pc, op, row>>
    BY <1>1, EnvironmentKeeps DEF requestVars
  <2>2. \A t \in Requests : /\ tokens[t] = "absent" => tokens'[t] = "absent"
                            /\ t \in Unused => t \in Unused'
    BY <1>1 DEF Environment, SessionExpires, TokenExpires, Suspend, Reactivate, vars,
                Unused, TypeOK
  <2>3. \A t \in Requests : tokens[t] = "consumed" => tokens'[t] = "consumed"
    BY ConsumedStays
  <2> QED BY <2>1, <2>2, <2>3 DEF TokenLocks, Free, Running
<1>2. ASSUME NEW r \in Requests, Begin(r) \/ Step(r) \/ Abort(r)
      PROVE  TokenLocks'
  <2>1. ASSUME tokens' = tokens,
               \A t \in Requests : ~Free(Token(t))' => ~Free(Token(t)) \/ t \in Unused
        PROVE  \A t \in Requests : OfRow(t)'
    BY <2>1, <1>0 DEF Unused
  <2>2. ASSUME tokens' = tokens, pc'[r] # "committed" \/ op'[r] # "complete",
               pc[r] # "committed",
               op'[r] = "complete" /\ Running(r)' /\ pc'[r] # "lockOwnToken" =>
                   (holder[Token(row[r])] = r)'
        PROVE  OfRequest(r)'
    BY <2>2, <1>0
  <2>3. \A t \in Requests : tokens[t] = "consumed" => tokens'[t] = "consumed"
    BY ConsumedStays
  <2>4. pc[r] # "committed"
    BY <1>2, ActsBeforeCommit DEF Finished
  <2>5. ASSUME NEW q \in Requests, q # r PROVE OfRequest(q)'
    <3>1. /\ pc'[q] = pc[q] /\ op'[q] = op[q] /\ row'[q] = row[q]
          /\ \A x \in Resources : (holder[x] = q) <=> (holder'[x] = q)
      BY <1>2, <2>5, OthersKeep
    <3>2. op[q] = "complete" /\ Running(q) => Token(row[q]) \in Resources
      BY ResourcesDiffer DEF ProgramShape
    <3>3. tokens[q] = "absent" => tokens'[q] = "absent"
      <4>1. tokens[q] = "absent" =>
                /\ Free(Token(q))
                /\ ~(op[r] = "complete" /\ Running(r) /\ row[r] = q /\ pc[r] # "lockOwnToken")
        BY <1>0, NobodyAssumption DEF Unused, Free
      <4>2. CASE tokens' = tokens
        BY <4>2
      <4>3. CASE CommitRequest(r) \/ CommitComplete(r)
        BY <4>1, <4>3, <2>5, NobodyAssumption
        DEF CommitRequest, CommitComplete, RevokeTokens, Free, Running, Statements, TypeOK
      <4> QED BY <1>2, <4>2, <4>3, TokenWriters
    <3> QED BY <1>0, <2>3, <3>1, <3>2, <3>3 DEF Running
  <2>6. ASSUME NEW outcome \in Finished, End(r, outcome), tokens' = tokens,
               outcome # "committed" \/ op[r] # "complete"
        PROVE  (\A t \in Requests : OfRow(t)') /\ OfRequest(r)'
    <3>1. \A t \in Requests : ~Free(Token(t))' => ~Free(Token(t))
      BY <2>6, ResourcesDiffer DEF End, Release, Free, TypeOK
    <3>2. pc'[r] = outcome /\ op'[r] = op[r]
      BY <2>6 DEF End, Go, Forget, TypeOK
    <3>3. ~Running(r)'
      BY <3>2 DEF Running, Statements, Finished
    <3> QED BY <2>1, <2>2, <2>4, <2>6, <3>1, <3>2, <3>3
  <2>7. CASE Begin(r)
    <3>1. tokens' = tokens
      BY <2>7 DEF Begin, LoginSnapshot, ChangeSnapshot, RequestReset, CompleteReset,
                  RevokeAll, Logout, Start, Reject
    <3> QED BY <2>1, <2>2, <2>4, <2>5, <2>7, <3>1, BeginShape
            DEF TokenLocks, Free, Running, Statements
  <2>8. CASE Abort(r)
    BY <2>5, <2>6, <2>8 DEF Abort, TokenLocks, Finished
  <2>9. CASE Step(r)
    <3> SUFFICES (\A t \in Requests : OfRow(t)') /\ OfRequest(r)'
      BY <2>5 DEF TokenLocks
    <3>1. CASE Refuse(r)
      BY <2>6, <3>1 DEF Refuse, Finished
    <3>2. CASE LockFirst(r) \/ LockSecond(r)
      BY <2>1, <2>2, <2>4, <3>2, <1>0, ResourcesDiffer
      DEF LockFirst, LockSecond, CredentialLocks, Take, Go, requestVars, Free, Running,
          Statements, TypeOK, ProgramShape
    <3>3. CASE LockAdvisory(r) \/ LockOwnSession(r)
      BY <2>1, <2>2, <2>4, <3>1, <3>3, <1>0, ResourcesDiffer
      DEF LockAdvisory, LockOwnSession, Take, Go, requestVars, Free, Running,
          Statements, TypeOK, ProgramShape
    <3>4. CASE Confirm(r)
      BY <2>1, <2>2, <2>4, <3>1, <3>4, <1>0
      DEF Confirm, Go, requestVars, Free, Running, Statements, TypeOK, ProgramShape
    <3>5. CASE LockOwnToken(r)
      BY <2>1, <2>2, <2>4, <3>1, <3>5, <1>0, ResourcesDiffer
      DEF LockOwnToken, Take, Go, requestVars, Free, Running, Statements, TypeOK,
          ProgramShape, Unused
    <3>6. CASE ScanTokens(r) \/ EndTokens(r) \/ ScanSessions(r) \/ EndSessions(r)
      BY <2>1, <2>2, <2>4, <3>6, <1>0
      DEF ScanTokens, EndTokens, ScanSessions, EndSessions, Go, requestVars, Free, Running,
          Statements, TypeOK
    <3>7. CASE \E t \in Requests : LockNextToken(r, t)
      BY <2>1, <2>2, <2>4, <3>7, <1>0, ResourcesDiffer
      DEF LockNextToken, requestVars, Free, Running, Statements, TypeOK, ProgramShape
    <3>8. CASE \E s \in Requests : LockNextSession(r, s)
      BY <2>1, <2>2, <2>4, <3>8, <1>0, ResourcesDiffer
      DEF LockNextSession, requestVars, Free, Running, Statements, TypeOK, ProgramShape
    <3>9. CASE CommitLogin(r) \/ CommitChange(r) \/ CommitRevokeAll(r)
      BY <2>6, <3>9 DEF CommitLogin, CommitChange, CommitRevokeAll, Finished
    <3>10. CASE CommitRequest(r)
      <4>1. Free(Token(r)) /\ tokens[r] = "absent"
        BY <1>0, <2>4 DEF Unused
      <4>2. ASSUME NEW t \in Requests PROVE OfRow(t)'
        BY <3>10, <4>1, <1>0, ResourcesDiffer
        DEF CommitRequest, RevokeTokens, End, Release, Free, Unused, TypeOK
      <4>3. OfRequest(r)'
        BY <3>10 DEF CommitRequest, End, Go, Forget, TypeOK, Running, Statements
      <4> QED BY <4>2, <4>3
    <3>11. CASE CommitComplete(r)
      <4>1. row[r] \in Requests /\ holder[Token(row[r])] = r
        BY <3>11, <1>0 DEF CommitComplete, ProgramShape, Running, Statements
      <4>2. ASSUME NEW t \in Requests PROVE OfRow(t)'
        BY <3>11, <4>1, <1>0, ResourcesDiffer
        DEF CommitComplete, RevokeTokens, End, Release, Free, Unused, TypeOK
      <4>3. OfRequest(r)'
        BY <3>11, <4>1
        DEF CommitComplete, RevokeTokens, End, Go, Forget, TypeOK, Running, Statements
      <4> QED BY <4>2, <4>3
    <3> QED BY <2>9, <3>2, <3>3, <3>4, <3>5, <3>6, <3>7, <3>8, <3>9, <3>10, <3>11 DEF Step
  <2> QED BY <1>2, <2>7, <2>8, <2>9
<1> QED BY <1>1, <1>2 DEF Next

(* The locks on tokens are as described, and no token is used twice.       *)
LEMMA TokensAlways == Spec => [](TokenLocks /\ TokenUsedOnce)
<1>1. Init => TokenLocks /\ TokenUsedOnce
  <2> SUFFICES ASSUME Init PROVE TokenLocks /\ TokenUsedOnce
    OBVIOUS
  <2>1. \A r \in Requests : pc[r] = "idle" /\ op[r] = "none" /\ tokens[r] = "absent"
    BY DEF Init
  <2>2. \A t \in Requests : holder[Token(t)] = Nobody
    BY ResourcesDiffer DEF Init
  <2>3. TokenLocks
    BY <2>1, <2>2 DEF TokenLocks, Free
  <2>4. TokenUsedOnce
    BY <2>1 DEF TokenUsedOnce
  <2> QED BY <2>3, <2>4
<1>2. IndInv /\ IndInv' /\ TokenLocks /\ TokenUsedOnce /\ [Next]_vars =>
          TokenLocks' /\ TokenUsedOnce'
  <2> SUFFICES ASSUME IndInv, IndInv', TokenLocks, TokenUsedOnce, [Next]_vars
               PROVE  TokenLocks' /\ TokenUsedOnce'
    OBVIOUS
  <2>1. TokenLocks'
    BY TokenLocksStep
  <2> DEFINE Used(q) == op[q] = "complete" /\ pc[q] = "committed"
  <2>2. ASSUME NEW r \in Requests, Used(r)', ~Used(r)
        PROVE  CommitComplete(r)
    BY <2>2, NewlyReplaced, EndedStays DEF IndInv, CommitChange, End, Forget, Finished
  <2>3. ASSUME NEW r \in Requests, NEW q \in Requests, r # q,
               Used(r)', Used(q)', (row[r] = row[q])'
        PROVE  FALSE
    <3>1. ASSUME NEW a \in Requests, NEW b \in Requests, a # b, CommitComplete(a),
                 Used(b)', (row[a] = row[b])'
          PROVE  FALSE
      <4>1. /\ Used(b) /\ row'[b] = row[b] /\ row'[a] = row[a]
            /\ row[a] \in Requests /\ holder[Token(row[a])] = a
        <5>1. pc'[b] = pc[b] /\ op'[b] = op[b]
          BY <3>1, OthersKeep DEF Step, IndInv
        <5>2. row' = row
          BY <3>1 DEF CommitComplete, End, Forget
        <5> QED BY <3>1, <5>1, <5>2
                DEF CommitComplete, TokenLocks, Running, Statements, IndInv, ProgramShape
      <4>2. tokens[row[b]] = "consumed" /\ row[b] \in Requests
        BY <4>1 DEF TokenLocks
      <4>3. row[a] \in Unused
        BY <4>1, NobodyAssumption DEF TokenLocks, Free
      <4> QED BY <3>1, <4>1, <4>2, <4>3 DEF Unused
    <3>2. CASE ~Used(r) \/ ~Used(q)
      BY <2>2, <2>3, <3>1, <3>2
    <3>3. CASE Used(r) /\ Used(q)
      <4>1. row[r] # row[q]
        BY <2>3, <3>3 DEF TokenUsedOnce
      <4>2. row'[r] = row[r] /\ row'[q] = row[q]
        BY <3>3, EndedStays DEF IndInv, Finished
      <4> QED BY <2>3, <3>3, <4>1, <4>2
    <3> QED BY <3>2, <3>3
  <2>4. TokenUsedOnce'
    BY <2>3 DEF TokenUsedOnce
  <2> QED BY <2>1, <2>4
<1> QED BY <1>1, <1>2, IndInvAlways, PTL DEF Spec

(* A reset token replaces the password at most once, however many          *)
(* completions present it concurrently.                                    *)
THEOREM TokensWorkOnce == Spec => []TokenUsedOnce
BY TokensAlways, PTL
-----------------------------------------------------------------------------
(* A change that has locked its own session keeps it, unrevoked, until it  *)
(* commits.                                                                *)
OwnSession ==
    \A r \in Requests :
        op[r] = "change" /\ pc[r] \in AtSessions =>
            holder[Session(row[r])] = r /\ row[r] \in Unrevoked

(* A session row that one request has locked is revoked by no other.       *)
LEMMA LockedStaysUnrevoked ==
    ASSUME IndInv, [Next]_vars, NEW q \in Requests, NEW s \in Unrevoked,
           holder[Session(s)] = q,
           \A r \in Requests : Begin(r) \/ Step(r) \/ Abort(r) => r # q
    PROVE  s \in Unrevoked'
<1> USE DEF IndInv
<1>0. s \in Requests /\ sessions[s] \in SessionRows
  BY DEF Unrevoked, TypeOK
<1>1. ASSUME NEW S, sessions' = Revoke(S), s \notin S PROVE s \in Unrevoked'
  BY <1>0, <1>1 DEF Revoke, Unrevoked
<1>2. ASSUME sessions' = sessions PROVE s \in Unrevoked'
  BY <1>2 DEF Unrevoked
<1>3. ASSUME NEW u \in Requests, SessionExpires(u) PROVE s \in Unrevoked'
  BY <1>0, <1>3 DEF SessionExpires, Unrevoked, TypeOK
<1>4. CASE Environment \/ UNCHANGED vars
  BY <1>2, <1>3, <1>4 DEF Environment, TokenExpires, Suspend, Reactivate, vars
<1>5. ASSUME NEW r \in Requests, Begin(r) \/ Step(r) \/ Abort(r) PROVE s \in Unrevoked'
  <2>0. s \notin HeldSessions(r)
    BY <1>5 DEF HeldSessions
  <2>1. ASSUME NEW u \in Requests, Logout(r, u) PROVE s \in Unrevoked'
    <3>1. u # s
      BY <2>1, NobodyAssumption DEF Logout, Free
    <3> QED BY <1>1, <2>1, <3>1 DEF Logout
  <2>2. CASE Begin(r)
    BY <1>2, <2>1, <2>2 DEF Begin, LoginSnapshot, ChangeSnapshot, RequestReset,
         CompleteReset, RevokeAll, Start, Reject
  <2>3. CASE Abort(r)
    BY <1>2, <2>3 DEF Abort
  <2>4. CASE CommitChange(r) \/ CommitComplete(r) \/ CommitRevokeAll(r)
    BY <1>1, <2>0, <2>4
    DEF CommitChange, CommitComplete, CommitRevokeAll, ReplaceCredential, Revocable
  <2>5. CASE CommitLogin(r)
    <3>1. s \notin Surplus(r)
      BY <2>0 DEF Surplus, Countable
    <3>2. sessions' = Issue(r)
      BY <2>5 DEF CommitLogin
    <3>3. CASE s = r
      BY <1>0, <3>2, <3>3 DEF Issue, Revoke, Unrevoked
    <3>4. CASE s # r
      BY <1>0, <3>1, <3>2, <3>4 DEF Issue, Revoke, Unrevoked
    <3> QED BY <3>3, <3>4
  <2>6. CASE Step(r)
    <3>1. \/ sessions' = sessions \/ CommitLogin(r) \/ CommitChange(r) \/ CommitComplete(r)
          \/ CommitRevokeAll(r)
      BY <2>6 DEF Step, LockFirst, LockSecond, Confirm, LockAdvisory, LockOwnSession,
           LockOwnToken, ScanTokens, EndTokens, ScanSessions, EndSessions, LockNextToken,
           LockNextSession, CommitRequest, Refuse
    <3> QED BY <1>2, <2>4, <2>5, <3>1
  <2> QED BY <1>5, <2>2, <2>3, <2>6
<1> QED BY <1>4, <1>5 DEF Next

(* The locks a step of the transaction itself takes leave its own session  *)
(* locked, and unrevoked, until the commit.                                *)
LEMMA OwnSessionStep ==
    ASSUME IndInv, IndInv', OwnSession, [Next]_vars PROVE OwnSession'
<1> USE DEF IndInv
<1> DEFINE Owns(q) == op[q] = "change" /\ pc[q] \in AtSessions =>
                          holder[Session(row[q])] = q /\ row[q] \in Unrevoked
<1> SUFFICES ASSUME NEW q \in Requests PROVE Owns(q)'
    BY DEF OwnSession
<1>0. Owns(q) /\ (op[q] = "change" /\ pc[q] \in AtSessions => row[q] \in Requests)
  BY DEF OwnSession, AtSessions, Running, Statements, ProgramShape
<1>1. CASE \A r \in Requests : Begin(r) \/ Step(r) \/ Abort(r) => r # q
  <2> SUFFICES ASSUME op'[q] = "change", pc'[q] \in AtSessions
               PROVE  holder'[Session(row'[q])] = q /\ row'[q] \in Unrevoked'
    OBVIOUS
  <2>1. /\ op'[q] = op[q] /\ pc'[q] = pc[q] /\ row'[q] = row[q]
        /\ \A x \in Resources : (holder[x] = q) <=> (holder'[x] = q)
    BY <1>1, OthersKeep, EnvironmentKeeps DEF Next, requestVars
  <2>2. row[q] \in Requests /\ holder[Session(row[q])] = q /\ row[q] \in Unrevoked
    BY <1>0, <2>1
  <2>3. holder'[Session(row[q])] = q
    BY <2>1, <2>2, ResourcesDiffer
  <2>4. row[q] \in Unrevoked'
    BY <1>1, <2>2, LockedStaysUnrevoked
  <2> QED BY <2>1, <2>3, <2>4
<1>2. CASE Begin(q)
  BY <1>2, BeginShape DEF AtSessions
<1>3. ASSUME NEW outcome \in Finished, Go(q, outcome) PROVE Owns(q)'
  BY <1>3 DEF Go, Finished, TypeOK, AtSessions
<1>4. CASE Abort(q)
  BY <1>3, <1>4 DEF Abort, End, Finished
<1>5. CASE Step(q)
  <2>1. CASE Refuse(q)
    BY <1>3, <2>1 DEF Refuse, End, Finished
  <2>2. CASE LockFirst(q) \/ LockSecond(q) \/ Confirm(q) \/ LockAdvisory(q) \/ LockOwnToken(q)
             \/ ScanTokens(q) \/ EndTokens(q)
    BY <2>1, <2>2 DEF LockFirst, LockSecond, Confirm, LockAdvisory, LockOwnToken, ScanTokens,
         EndTokens, Go, TypeOK, ProgramShape, requestVars, AtSessions
  <2>3. CASE LockOwnSession(q)
    <3> SUFFICES ASSUME ~Refuse(q) PROVE Owns(q)'
      BY <2>1
    <3>1. row[q] \in Requests
      BY <2>3 DEF LockOwnSession, ProgramShape, Running, Statements
    <3>2. sessions[row[q]].status = "active" /\ Take(q, Session(row[q])) /\ row' = row
          /\ sessions' = sessions
      BY <2>3 DEF LockOwnSession, requestVars
    <3>3. holder'[Session(row[q])] = q
      BY <3>1, <3>2, ResourcesDiffer DEF Take, TypeOK
    <3> QED BY <3>1, <3>2, <3>3 DEF Unrevoked
  <2>4. CASE \/ ScanSessions(q) \/ EndSessions(q)
             \/ \E x \in Requests : LockNextToken(q, x) \/ LockNextSession(q, x)
    <3>1. /\ op' = op /\ row' = row /\ sessions' = sessions
          /\ pc'[q] \in AtSessions => pc[q] \in AtSessions
      BY <2>4 DEF ScanSessions, EndSessions, LockNextToken, LockNextSession, Go, TypeOK,
                  requestVars, AtSessions
    <3>2. \A x \in Resources : holder[x] = q => holder'[x] = q
      BY <2>4 DEF ScanSessions, EndSessions, LockNextToken, LockNextSession, TypeOK
    <3> QED BY <1>0, <3>1, <3>2, ResourcesDiffer DEF Unrevoked
  <2>5. CASE \/ CommitLogin(q) \/ CommitChange(q) \/ CommitRequest(q)
             \/ CommitComplete(q) \/ CommitRevokeAll(q)
    BY <1>3, <2>5 DEF CommitLogin, CommitChange, CommitRequest, CommitComplete,
                      CommitRevokeAll, End, Finished
  <2> QED BY <1>5, <2>2, <2>3, <2>4, <2>5 DEF Step
<1> QED BY <1>1, <1>2, <1>4, <1>5

(* No password is replaced on the strength of a proof that is no longer    *)
(* good: whoever writes the credential row holds it and the user's row     *)
(* since he compared them with what was verified, and holds, unrevoked and *)
(* unused, the session or the token he was let in with                     *)
(* (apply_password_change, complete_password_reset).                       *)
THEOREM ReplacementsAreCurrent == Spec => NoStaleReplacement
<1>1. Init => OwnSession
  BY DEF Init, OwnSession
<1>2. IndInv /\ IndInv' /\ OwnSession /\ [Next]_vars => OwnSession'
  BY OwnSessionStep
<1> DEFINE Justified(r) ==
        /\ pc[r] # "committed" /\ pc'[r] = "committed"
        /\ cred'.hash = fresh[r]
        /\ \/ /\ op[r] = "change"
              /\ user.active /\ snap[r] = Snapshot
              /\ row[r] \in Unrevoked
           \/ /\ op[r] = "complete"
              /\ row[r] \in Unused
<1>3. IndInv /\ TokenLocks /\ OwnSession /\ [Next]_vars =>
          (cred' # cred => \E r \in Requests : Justified(r))
  <2> SUFFICES ASSUME IndInv, TokenLocks, OwnSession, [Next]_vars, cred' # cred
               PROVE  \E r \in Requests : Justified(r)
    OBVIOUS
  <2>0. TypeOK
    BY DEF IndInv
  <2>1. PICK r \in Requests : CommitChange(r) \/ CommitComplete(r)
    BY <2>0, CredentialWriters
  <2>2. pc[r] = "commit" /\ pc'[r] = "committed" /\ cred'.hash = fresh[r]
    BY <2>0, <2>1 DEF CommitChange, CommitComplete, ReplaceCredential, End, Go, TypeOK
  <2>3. CASE CommitChange(r)
    <3>1. op[r] = "change"
      BY <2>3 DEF CommitChange
    <3>2. user.active /\ snap[r] = Snapshot
      BY <2>2, <3>1 DEF IndInv, ConfirmedIsCurrent, AfterConfirm, AfterBothLocks
    <3>3. row[r] \in Unrevoked
      BY <2>2, <3>1 DEF OwnSession, AtSessions
    <3> QED BY <2>2, <3>1, <3>2, <3>3
  <2>4. CASE CommitComplete(r)
    <3>1. op[r] = "complete" /\ Running(r) /\ pc[r] # "lockOwnToken"
      BY <2>2, <2>4 DEF CommitComplete, Running, Statements
    <3>2. row[r] \in Requests /\ holder[Token(row[r])] = r
      BY <3>1 DEF IndInv, ProgramShape, TokenLocks
    <3>3. row[r] \in Unused
      BY <3>2, NobodyAssumption DEF TokenLocks, Free
    <3> QED BY <2>2, <3>1, <3>3
  <2> QED BY <2>1, <2>3, <2>4
<1>4. Spec => []OwnSession
  BY <1>1, <1>2, IndInvAlways, PTL DEF Spec
<1>5. Spec => [][cred' # cred => \E r \in Requests : Justified(r)]_vars
  BY <1>3, <1>4, IndInvAlways, TokensAlways, PTL DEF Spec
<1> QED BY <1>5 DEF NoStaleReplacement
-----------------------------------------------------------------------------
(* Waiting.                                                                *)

(* A request only ever holds the locks its program has reached.            *)
LEMMA LockShapeStep ==
    ASSUME IndInv, IndInv', LockShape, [Next]_vars PROVE LockShape'
<1> USE DEF IndInv
<1> DEFINE Shape(r) ==
        /\ holder[Cred] = r => /\ op[r] \in {"login", "change", "complete"}
                               /\ pc[r] \in WithCredential
        /\ holder[User] = r => holder[Cred] = r /\ pc[r] # "lockSecond"
        /\ holder[Advisory] = r => op[r] \in {"login", "revokeAll"} /\ pc[r] \in AtSessions
        /\ op[r] \in {"login", "revokeAll"} /\ pc[r] \in AtSessions => holder[Advisory] = r
        /\ \A s \in Requests : holder[Session(s)] = r =>
              op[r] \in {"login", "revokeAll", "change", "complete"} /\ pc[r] \in AtSessions
        /\ \A t \in Requests : holder[Token(t)] = r => op[r] \in {"request", "complete"}
        /\ pc[r] = "lockSessions" => todo[r] \cap HeldSessions(r) = {}
<1>1. CASE Environment \/ UNCHANGED vars
  BY <1>1, EnvironmentKeeps DEF LockShape, HeldSessions, requestVars
<1>2. ASSUME NEW r \in Requests, Begin(r) \/ Step(r) \/ Abort(r)
      PROVE  LockShape'
  <2>1. ASSUME NEW q \in Requests, q # r PROVE Shape(q)'
    <3>1. /\ pc'[q] = pc[q] /\ op'[q] = op[q] /\ todo'[q] = todo[q]
          /\ \A x \in Resources : (holder[x] = q) <=> (holder'[x] = q)
      BY <1>2, <2>1, OthersKeep
    <3>2. HeldSessions(q)' = HeldSessions(q)
      BY <3>1, ResourcesDiffer DEF HeldSessions
    <3> QED BY <3>1, <3>2, ResourcesDiffer DEF LockShape
  <2> SUFFICES Shape(r)'
    BY <2>1 DEF LockShape
  <2>2. Shape(r)
    BY DEF LockShape
  <2>3. ASSUME NEW outcome \in Finished, End(r, outcome) PROVE Shape(r)'
    <3>1. \A x \in Resources : holder'[x] # r
      BY <2>3, NobodyAssumption DEF End, Release
    <3>2. pc'[r] \notin AtSessions
      BY <2>3 DEF End, Go, TypeOK, AtSessions, Finished
    <3> QED BY <3>1, <3>2, ResourcesDiffer DEF AtSessions
  <2>4. CASE Begin(r)
    <3>1. pc[r] = "idle" /\ UNCHANGED holder /\ op[r] = "none"
      BY <2>4, BeginShape DEF ProgramShape
    <3>2. \A x \in Resources : holder[x] # r
      <4>1. holder[Cred] # r /\ holder[User] # r /\ holder[Advisory] # r
        BY <2>2, <3>1
      <4>2. \A s \in Requests : holder[Session(s)] # r /\ holder[Token(s)] # r
        BY <2>2, <3>1
      <4> QED BY <4>1, <4>2 DEF Resources
    <3>3. pc'[r] \notin AtSessions
      BY <2>4, BeginShape DEF AtSessions
    <3> QED BY <3>1, <3>2, <3>3, ResourcesDiffer DEF AtSessions
  <2>5. CASE Abort(r)
    BY <2>3, <2>5 DEF Abort, Finished
  <2>6. CASE Step(r)
    <3>1. CASE Refuse(r)
      BY <2>3, <3>1 DEF Refuse, Finished
    <3>2. CASE LockFirst(r)
      BY <2>2, <3>2, ResourcesDiffer DEF LockFirst, CredentialLocks, Take, Go, requestVars,
           TypeOK, WithCredential, AtSessions, ProgramShape
    <3>3. CASE LockSecond(r)
      <4>1. holder[Cred] = r /\ op[r] \in {"login", "change", "complete"}
        BY <3>3 DEF LockSecond, HoldsCredential, ProgramShape
      <4> QED BY <2>2, <3>3, <4>1, ResourcesDiffer DEF LockSecond, CredentialLocks, Take, Go,
           requestVars, TypeOK, WithCredential, AtSessions
    <3>4. CASE Confirm(r)
      BY <2>2, <3>1, <3>4 DEF Confirm, Go, requestVars, TypeOK, WithCredential, AtSessions
    <3>5. CASE LockAdvisory(r)
      BY <2>2, <3>5, ResourcesDiffer DEF LockAdvisory, Take, Go, requestVars, TypeOK,
           WithCredential, AtSessions, ProgramShape
    <3>6. CASE LockOwnSession(r)
      BY <2>2, <3>1, <3>6, ResourcesDiffer DEF LockOwnSession, Take, Go, requestVars, TypeOK,
           WithCredential, AtSessions, ProgramShape, Running, Statements
    <3>7. CASE LockOwnToken(r)
      BY <2>2, <3>1, <3>7, ResourcesDiffer DEF LockOwnToken, Take, Go, requestVars, TypeOK,
           WithCredential, AtSessions, ProgramShape, Running, Statements
    <3>8. CASE ScanTokens(r) \/ EndTokens(r)
      BY <2>2, <3>8 DEF ScanTokens, EndTokens, Go, requestVars, TypeOK,
           WithCredential, AtSessions, ProgramShape
    <3>9. CASE ScanSessions(r) \/ EndSessions(r)
      BY <2>2, <3>9 DEF ScanSessions, EndSessions, Go, requestVars, TypeOK, HeldSessions,
           WithCredential, AtSessions
    <3>10. CASE \E t \in Requests : LockNextToken(r, t)
      BY <2>2, <3>10, ResourcesDiffer DEF LockNextToken, requestVars, TypeOK, ProgramShape
    <3>11. CASE \E s \in Requests : LockNextSession(r, s)
      BY <2>2, <3>11, ResourcesDiffer DEF LockNextSession, requestVars, TypeOK, ProgramShape,
           HeldSessions, MayLockNext, WithCredential, AtSessions
    <3>12. CASE \/ CommitLogin(r) \/ CommitChange(r) \/ CommitRequest(r)
                \/ CommitComplete(r) \/ CommitRevokeAll(r)
      BY <2>3, <3>12 DEF CommitLogin, CommitChange, CommitRequest, CommitComplete,
                         CommitRevokeAll, Finished
    <3> QED BY <2>6, <3>2, <3>3, <3>4, <3>5, <3>6, <3>7, <3>8, <3>9, <3>10, <3>11, <3>12
            DEF Step
  <2> QED BY <1>2, <2>4, <2>5, <2>6
<1> QED BY <1>1, <1>2 DEF Next

(* What a blocked request waits for is held by somebody.                   *)
LEMMA BlockerHolds ==
    ASSUME IndInv, NEW r \in Requests, NEW q \in Blockers(r)
    PROVE  \E x \in Wanted(r) : holder[x] = q /\ q # Nobody
BY DEF Blockers, Free

(* Nobody waits for a session row that its holder holds with the advisory  *)
(* lock or with the credential, when he has either.                        *)
LEMMA SessionHolders ==
    ASSUME IndInv, LockShape, NEW r \in Requests, NEW s \in Requests,
           holder[Session(s)] = r
    PROVE  \/ holder[Cred] = r /\ op[r] \in {"change", "complete"}
           \/ holder[Advisory] = r /\ op[r] \in {"login", "revokeAll"}
<1>1. op[r] \in {"login", "revokeAll", "change", "complete"} /\ pc[r] \in AtSessions
  BY DEF LockShape
<1>2. CASE op[r] \in {"change", "complete"}
  BY <1>1, <1>2 DEF IndInv, HoldsCredential, AtSessions, AfterBothLocks
<1>3. CASE op[r] \in {"login", "revokeAll"}
  BY <1>1, <1>3 DEF LockShape
<1> QED BY <1>1, <1>2, <1>3

(* A login waits for one request at most, and that request for nobody.     *)
LEMMA LoginOffCycles ==
    ASSUME IndInv, LockShape PROVE LoginNeverDeadlocks
<1> USE DEF IndInv
<1> SUFFICES ASSUME NEW r \in Requests, op[r] = "login", OnCycle(r) PROVE FALSE
    BY DEF LoginNeverDeadlocks
<1>1. PICK S \in SUBSET {q \in Requests : Blockers(q) # {}} :
          /\ r \in S
          /\ \E next \in [S -> S] :
                \A q \in S : next[q] \in Blockers(q) /\ \E p \in S : next[p] = q
    BY DEF OnCycle
<1>2. PICK next \in [S -> S] :
          \A q \in S : next[q] \in Blockers(q) /\ \E p \in S : next[p] = q
    BY <1>1
<1>3. PICK q \in Requests : q \in Blockers(r) /\ Blockers(q) # {}
  <2>1. next[r] \in S /\ next[r] \in Blockers(r)
    BY <1>1, <1>2
  <2> QED BY <2>1
<1>4. PICK p \in Requests : r \in Blockers(p)
  <2>1. PICK p \in S : next[p] = r
    BY <1>1, <1>2
  <2> QED BY <1>2, <2>1
<1>5. PICK x \in Wanted(r) : holder[x] = q
  BY <1>3, BlockerHolds
<1>6. \E y \in Wanted(p) : holder[y] = r
  BY <1>4, BlockerHolds
<1>7. \/ pc[r] = "lockFirst" \/ pc[r] = "lockSecond" \/ pc[r] = "lockAdvisory"
      \/ pc[r] = "lockSessions"
  <2>1. pc[r] \notin {"lockOwnSession", "lockOwnToken", "lockTokens"}
    BY DEF ProgramShape
  <2> QED BY <1>5, <2>1 DEF Wanted
<1>8. CASE pc[r] = "lockFirst"
  <2>1. \A y \in Resources : holder[y] # r
    <3>1. holder[Cred] # r /\ holder[User] # r /\ holder[Advisory] # r
      BY <1>8 DEF LockShape, WithCredential, AtSessions
    <3>2. \A s \in Requests : holder[Session(s)] # r /\ holder[Token(s)] # r
      BY <1>8 DEF LockShape, AtSessions
    <3> QED BY <3>1, <3>2 DEF Resources
  <2>2. Wanted(p) \subseteq Resources
    <3>1. pc[p] = "lockOwnSession" \/ pc[p] = "lockOwnToken" => row[p] \in Requests
      BY DEF ProgramShape, Running, Statements
    <3>2. todo[p] \subseteq Requests
      BY DEF TypeOK
    <3> QED BY <3>1, <3>2, ResourcesDiffer DEF Wanted, CredentialLocks
  <2> QED BY <1>6, <2>1, <2>2
<1>9. CASE pc[r] = "lockSecond"
  <2>1. x = User
    BY <1>5, <1>9 DEF Wanted, CredentialLocks
  <2>2. holder[Cred] = r /\ holder[Cred] = q /\ pc[q] # "lockSecond"
    BY <1>5, <1>9, <2>1 DEF HoldsCredential, LockShape
  <2> QED BY <1>9, <2>2
<1>10. CASE pc[r] = "lockAdvisory"
  <2>1. x = Advisory /\ holder[Advisory] = q
    BY <1>5, <1>10 DEF Wanted
  <2>2. holder[Cred] = r
    BY <1>10 DEF HoldsCredential, AfterBothLocks
  <2>3. q # r /\ op[q] \in {"login", "revokeAll"} /\ pc[q] \in AtSessions
    BY <1>10, <2>1 DEF LockShape, AtSessions
  <2>4. op[q] = "revokeAll"
    BY <2>2, <2>3 DEF HoldsCredential, AtSessions, AfterBothLocks
  <2>5. PICK z \in Wanted(q) : holder[z] # Nobody
    BY <1>3 DEF Blockers, Free
  <2>6. PICK s \in todo[q] : z = Session(s) /\ pc[q] = "lockSessions"
    <3>1. pc[q] = "lockSessions"
      BY <2>3, <2>5 DEF Wanted, AtSessions
    <3>2. Wanted(q) = {Session(s) : s \in {t \in todo[q] : MayLockNext(q, t)}}
      BY <3>1 DEF Wanted
    <3> QED BY <2>5, <3>1, <3>2
  <2>7. s \in Requests /\ holder[z] \in Requests
    BY <2>5, <2>6, ResourcesDiffer DEF TypeOK
  <2>8. holder[z] = q
    BY <2>1, <2>2, <2>5, <2>6, <2>7, SessionHolders
  <2> QED BY <2>5, <2>6, <2>7, <2>8 DEF LockShape, HeldSessions
<1>11. CASE pc[r] = "lockSessions"
  <2>1. holder[Cred] = r /\ holder[Advisory] = r
    BY <1>11 DEF HoldsCredential, AfterBothLocks, LockShape, AtSessions
  <2>2. PICK s \in todo[r] : x = Session(s)
    BY <1>5, <1>11 DEF Wanted
  <2>3. s \in Requests
    BY DEF TypeOK
  <2>4. q = r
    BY <1>5, <2>1, <2>2, <2>3, SessionHolders
  <2> QED BY <1>5, <1>11, <2>2, <2>3, <2>4 DEF LockShape, HeldSessions
<1> QED BY <1>7, <1>8, <1>9, <1>10, <1>11

(* No login is ever on a cycle of waiting transactions, so PostgreSQL      *)
(* never picks one as a deadlock victim.                                   *)
THEOREM LoginsNeverDeadlock == Spec => []LoginNeverDeadlocks
<1>1. Init => LockShape
  BY NobodyAssumption DEF Init, LockShape, HeldSessions, Cred, User, Advisory, Session, Token,
       Resources, AtSessions
<1>2. IndInv /\ IndInv' /\ LockShape /\ [Next]_vars => LockShape'
  BY LockShapeStep
<1>3. IndInv /\ LockShape => LoginNeverDeadlocks
  BY LoginOffCycles
<1> QED BY <1>1, <1>2, <1>3, IndInvAlways, PTL DEF Spec
-----------------------------------------------------------------------------
(* The concurrent-session limit.                                           *)

(* A set of natural numbers has a least element.                           *)
LEMMA LeastNumber ==
    ASSUME NEW T, T \subseteq Nat, T # {}
    PROVE  \E x \in T : \A y \in T : x <= y
<1> DEFINE Less == {p \in Nat \X Nat : p[1] < p[2]}
<1>1. IsWellFoundedOn(Less, Nat)
  BY NatLessThanWellFounded DEF OpToRel
<1>2. PICK x \in T : \A y \in T : ~(<<y, x>> \in Less)
  BY <1>1, WFMin
<1>3. ASSUME NEW y \in T PROVE x <= y
  <2>1. <<y, x>> \notin Less
    BY <1>2
  <2>2. x \in Nat /\ y \in Nat
    OBVIOUS
  <2>3. ~(y < x)
    BY <2>1, <2>2
  <2> QED BY <2>2, <2>3
<1> QED BY <1>3

(* Of a finite set ordered by age, fewer than n+1 members have fewer than  *)
(* n younger ones.                                                         *)
LEMMA Youngest ==
    ASSUME NEW S, IsFiniteSet(S), NEW age \in [S -> Nat], NEW n \in Nat,
           \A s, q \in S : age[s] = age[q] => s = q
    PROVE  Cardinality({s \in S : Cardinality({q \in S : age[q] > age[s]}) < n}) <= n
<1> DEFINE Younger(s) == {q \in S : age[q] > age[s]}
           T == {s \in S : Cardinality(Younger(s)) < n}
<1>0. IsFiniteSet(T) /\ Cardinality(T) \in Nat
  BY FS_Subset, FS_CardinalityType
<1>1. CASE T = {}
  <2> HIDE DEF T
  <2>1. Cardinality(T) <= n
    BY <1>1, FS_EmptySet
  <2> QED BY <2>1 DEF T
<1>2. CASE T # {}
  <2>1. {age[s] : s \in T} \subseteq Nat /\ {age[s] : s \in T} # {}
    BY <1>2
  <2>2. PICK a \in {age[s] : s \in T} : \A b \in {age[s] : s \in T} : a <= b
    BY <2>1, LeastNumber
  <2>3. PICK m \in T : a = age[m]
    OBVIOUS
  <2>4. ASSUME NEW s \in T PROVE age[m] <= age[s]
    <3>1. age[s] \in {age[q] : q \in T}
      OBVIOUS
    <3> HIDE DEF T
    <3> QED BY <2>2, <2>3, <3>1
  <2>5. T \ {m} \subseteq Younger(m)
    <3> SUFFICES ASSUME NEW s \in T, s # m PROVE age[s] > age[m]
      OBVIOUS
    <3>1. age[s] \in Nat /\ age[m] \in Nat /\ age[m] <= age[s] /\ age[m] # age[s]
      BY <2>4
    <3> QED BY <3>1
  <2>6. Cardinality(T \ {m}) = Cardinality(T) - 1
    BY <1>0, FS_RemoveElement
  <2>7. IsFiniteSet(Younger(m)) /\ Cardinality(Younger(m)) \in Nat
    BY FS_Subset, FS_CardinalityType
  <2>8. Cardinality(T \ {m}) <= Cardinality(Younger(m))
    BY <2>5, <2>7, FS_Subset
  <2>9. Cardinality(Younger(m)) < n
    OBVIOUS
  <2> HIDE DEF T, Younger
  <2>10. Cardinality(T) <= n
    BY <1>0, <2>6, <2>7, <2>8, <2>9
  <2> QED BY <2>10 DEF T, Younger
<1> QED BY <1>1, <1>2

(* A row keeps everything but its status, and is opened once.              *)
SameRows ==
    \A s \in Requests :
        /\ sessions'[s].born = sessions[s].born
        /\ sessions'[s].version = sessions[s].version
        /\ sessions'[s].hash = sessions[s].hash
        /\ sessions'[s].status = "absent" <=> sessions[s].status = "absent"
        /\ sessions'[s].status = "active" => sessions[s].status = "active"

(* Revoking rows that exist only changes their status.                     *)
LEMMA RevokeKeeps ==
    ASSUME TypeOK, NEW S, S \subseteq Opened, sessions' = Revoke(S) PROVE SameRows
<1> SUFFICES ASSUME NEW s \in Requests
             PROVE  /\ sessions'[s].born = sessions[s].born
                    /\ sessions'[s].version = sessions[s].version
                    /\ sessions'[s].hash = sessions[s].hash
                    /\ sessions'[s].status = "absent" <=> sessions[s].status = "absent"
                    /\ sessions'[s].status = "active" => sessions[s].status = "active"
    BY DEF SameRows
<1>1. sessions[s] \in SessionRows
  BY DEF TypeOK
<1> QED BY <1>1 DEF Revoke, SessionRows, Opened

(* Rows of auth.sessions are inserted by the commit of a login only, and   *)
(* every other step at most ends some of them.                             *)
LEMMA SessionWriters ==
    ASSUME IndInv, Births, [Next]_vars
    PROVE  SameRows \/ \E r \in Requests : CommitLogin(r)
<1> USE DEF IndInv
<1>1. ASSUME sessions' = sessions PROVE SameRows
  BY <1>1 DEF SameRows
<1>2. ASSUME NEW s \in Requests, SessionExpires(s) PROVE SameRows
  <2>1. sessions[s] \in SessionRows
    BY DEF TypeOK
  <2> QED BY <1>2, <2>1 DEF SessionExpires, SameRows, SessionRows, TypeOK
<1>3. ASSUME NEW r \in Requests, NEW s \in Requests, Logout(r, s) PROVE SameRows
  BY <1>3, RevokeKeeps DEF Logout, Valid, Opened
<1>4. ASSUME NEW r \in Requests, CommitChange(r) \/ CommitComplete(r) \/ CommitRevokeAll(r)
      PROVE  SameRows
  <2>1. HeldSessions(r) \subseteq Opened
    BY NobodyAssumption DEF HeldSessions, Births, Free
  <2> QED BY <1>4, <2>1, RevokeKeeps
          DEF CommitChange, CommitComplete, CommitRevokeAll, ReplaceCredential, Revocable
<1>5. CASE Environment \/ UNCHANGED vars
  BY <1>1, <1>2, <1>5 DEF Environment, TokenExpires, Suspend, Reactivate, vars
<1>6. ASSUME NEW r \in Requests, Begin(r) \/ Step(r) \/ Abort(r)
      PROVE  SameRows \/ CommitLogin(r)
  <2>1. CASE Begin(r)
    BY <1>1, <1>3, <2>1 DEF Begin, LoginSnapshot, ChangeSnapshot, RequestReset,
         CompleteReset, RevokeAll, Start, Reject
  <2>2. CASE Abort(r)
    BY <1>1, <2>2 DEF Abort
  <2>3. CASE Step(r)
    <3>1. \/ sessions' = sessions \/ CommitLogin(r) \/ CommitChange(r) \/ CommitComplete(r)
          \/ CommitRevokeAll(r)
      BY <2>3 DEF Step, LockFirst, LockSecond, Confirm, LockAdvisory, LockOwnSession,
           LockOwnToken, ScanTokens, EndTokens, ScanSessions, EndSessions, LockNextToken,
           LockNextSession, CommitRequest, Refuse
    <3> QED BY <1>1, <1>4, <3>1
  <2> QED BY <1>6, <2>1, <2>2, <2>3
<1> QED BY <1>5, <1>6 DEF Next

(* Locking a session row requires that it exists.                          *)
LEMMA SessionLockers ==
    ASSUME IndInv, [Next]_vars, NEW s \in Requests, Free(Session(s)), ~Free(Session(s))'
    PROVE  s \in Opened
<1> USE DEF IndInv
<1>1. CASE Environment \/ UNCHANGED vars
  BY <1>1, EnvironmentKeeps DEF Free
<1>2. ASSUME NEW r \in Requests, Begin(r) \/ Abort(r) PROVE s \in Opened
  BY <1>2, BeginShape, ResourcesDiffer DEF Abort, End, Release, Free
<1>3. ASSUME NEW r \in Requests, Step(r) PROVE s \in Opened
  <2>1. CASE LockFirst(r) \/ LockSecond(r) \/ LockAdvisory(r)
    BY <2>1, ResourcesDiffer
    DEF LockFirst, LockSecond, LockAdvisory, CredentialLocks, Take, Free, TypeOK
  <2>2. ASSUME NEW outcome, End(r, outcome) PROVE FALSE
    BY <2>2, ResourcesDiffer DEF End, Release, Free
  <2>3. CASE LockOwnSession(r)
    BY <2>2, <2>3, ResourcesDiffer
    DEF LockOwnSession, Take, Free, TypeOK, Refuse, Opened, ProgramShape, Running, Statements
  <2>4. CASE LockOwnToken(r)
    BY <2>2, <2>4, ResourcesDiffer DEF LockOwnToken, Take, Free, TypeOK, Refuse,
         ProgramShape, Running, Statements
  <2>5. CASE Confirm(r) \/ ScanTokens(r) \/ EndTokens(r) \/ ScanSessions(r) \/ EndSessions(r)
    BY <2>2, <2>5
    DEF Confirm, ScanTokens, EndTokens, ScanSessions, EndSessions, Refuse, Free
  <2>6. CASE \E t \in Requests : LockNextToken(r, t)
    BY <2>6, ResourcesDiffer DEF LockNextToken, Free, TypeOK
  <2>7. CASE \E q \in Requests : LockNextSession(r, q)
    BY <2>7, ResourcesDiffer DEF LockNextSession, Free, TypeOK, Unrevoked, Opened
  <2>8. CASE \/ CommitLogin(r) \/ CommitChange(r) \/ CommitRequest(r)
             \/ CommitComplete(r) \/ CommitRevokeAll(r)
    BY <2>2, <2>8 DEF CommitLogin, CommitChange, CommitRequest, CommitComplete,
                      CommitRevokeAll
  <2> QED BY <1>3, <2>1, <2>3, <2>4, <2>5, <2>6, <2>7, <2>8 DEF Step
<1> QED BY <1>1, <1>2, <1>3 DEF Next

(* What the commit of a login does to the rows.                            *)
LEMMA LoginInserts ==
    ASSUME IndInv, Births, NEW r \in Requests, CommitLogin(r)
    PROVE  /\ r \notin Opened /\ Opened' = Opened \cup {r}
           /\ user.active /\ UNCHANGED <<cred, user>>
           /\ sessions'[r] = [status |-> "active", version |-> user.version,
                              hash |-> cred.hash, born |-> 1 + Cardinality(Opened)]
           /\ \A s \in Requests \ {r} :
                 /\ sessions'[s].born = sessions[s].born
                 /\ sessions'[s].version = sessions[s].version
                 /\ sessions'[s].hash = sessions[s].hash
                 /\ sessions'[s].status = "active" =>
                       sessions[s].status = "active" /\ s \notin Surplus(r)
<1> USE DEF IndInv
<1>1. r \notin Opened
  BY DEF CommitLogin, Births
<1>2. user.active /\ snap[r].sv = user.version /\ snap[r].hash = cred.hash
  BY DEF CommitLogin, ConfirmedIsCurrent, AfterConfirm, AfterBothLocks, Snapshot
<1>3. Surplus(r) \subseteq Opened
  BY DEF Surplus, Countable, HeldSessions, Opened
<1>4. Revoke(Surplus(r)) \in [Requests -> SessionRows]
  BY RevokeType
<1>5. sessions'[r] = [status |-> "active", version |-> user.version,
                      hash |-> cred.hash, born |-> 1 + Cardinality(Opened)]
  BY <1>2, <1>4 DEF CommitLogin, Issue, Opened
<1>6. ASSUME NEW s \in Requests, s # r
      PROVE  /\ sessions'[s].born = sessions[s].born
             /\ sessions'[s].version = sessions[s].version
             /\ sessions'[s].hash = sessions[s].hash
             /\ sessions'[s].status = "active" =>
                   sessions[s].status = "active" /\ s \notin Surplus(r)
             /\ sessions'[s].status = "absent" <=> sessions[s].status = "absent"
  <2>1. sessions'[s] = Revoke(Surplus(r))[s]
    BY <1>4, <1>6 DEF CommitLogin, Issue
  <2>2. sessions[s] \in SessionRows
    BY DEF TypeOK
  <2> QED BY <1>3, <2>1, <2>2 DEF Revoke, SessionRows, Opened
<1>7. Opened' = Opened \cup {r}
  BY <1>5, <1>6 DEF Opened
<1> QED BY <1>1, <1>2, <1>5, <1>6, <1>7 DEF CommitLogin

(* The order, the versions and the locks of the session rows are kept.     *)
LEMMA BirthsStep ==
    ASSUME IndInv, IndInv', Births, [Next]_vars PROVE Births'
<1> USE DEF IndInv
<1>1. \A s \in Requests : ~Free(Session(s))' => s \in Opened
  BY SessionLockers DEF Births
<1>2. user'.version >= user.version /\ user.version \in Nat /\ user'.version \in Nat
  BY CredentialWriters DEF TypeOK
<1>3. \A r \in Requests : pc'[r] # "committed" => pc[r] # "committed"
  BY EndedStays DEF Finished
<1>4. Cardinality(Opened) \in Nat /\ IsFiniteSet(Opened)
  BY CountIsNat, FiniteAssumption, FS_Subset DEF Opened
<1>5. \A s \in Requests : sessions[s].version \in Nat /\ sessions[s].born \in Nat
  BY DEF TypeOK, SessionRows
<1>6. CASE SameRows
  <2>1. Opened' = Opened
    BY <1>6 DEF SameRows, Opened
  <2>2. \A s \in Requests : sessions'[s].version <= user'.version
    BY <1>2, <1>5, <1>6 DEF SameRows, Births
  <2>3. \A s, q \in Opened' : sessions'[s].born = sessions'[q].born => s = q
    BY <1>6, <2>1 DEF SameRows, Births, Opened
  <2>4. \A s \in Opened' : sessions'[s].born <= Cardinality(Opened')
    BY <1>6, <2>1 DEF SameRows, Births, Opened
  <2> QED BY <1>1, <1>3, <2>1, <2>2, <2>3, <2>4 DEF Births
<1>7. ASSUME NEW r \in Requests, CommitLogin(r) PROVE Births'
  <2>1. /\ r \notin Opened /\ Opened' = Opened \cup {r} /\ user' = user
        /\ sessions'[r].born = 1 + Cardinality(Opened)
        /\ sessions'[r].version = user.version
        /\ \A s \in Requests \ {r} : /\ sessions'[s].born = sessions[s].born
                                      /\ sessions'[s].version = sessions[s].version
    BY <1>7, LoginInserts
  <2>2. Cardinality(Opened') = Cardinality(Opened) + 1
    BY <1>4, <2>1, FS_AddElement
  <2>3. pc'[r] = "committed"
    BY <1>7 DEF CommitLogin, End, Go, TypeOK
  <2>4. \A s \in Opened : s \in Requests /\ s # r /\ sessions[s].born <= Cardinality(Opened)
    BY <2>1 DEF Opened, Births
  <2>5. \A s \in Opened' : sessions'[s].born <= Cardinality(Opened')
    BY <1>4, <1>5, <2>1, <2>2, <2>4
  <2>6. \A s, q \in Opened' : sessions'[s].born = sessions'[q].born => s = q
    BY <1>4, <1>5, <2>1, <2>4 DEF Births
  <2>7. \A s \in Requests : sessions'[s].version <= user'.version
    BY <1>2, <2>1 DEF Births
  <2>8. \A q \in Requests : pc'[q] # "committed" => q \notin Opened'
    BY <1>3, <2>1, <2>3 DEF Births
  <2> QED BY <1>1, <2>1, <2>5, <2>6, <2>7, <2>8 DEF Births
<1> QED BY <1>6, <1>7, SessionWriters

(* A step leaves at most the limit of valid sessions.                      *)
LEMMA LimitStep ==
    ASSUME IndInv, IndInv', Births, ConcurrentLimit, [Next]_vars PROVE ConcurrentLimit'
<1> USE DEF IndInv
<1>0. /\ IsFiniteSet(Valid) /\ IsFiniteSet(Valid')
      /\ Cardinality(Valid) \in Nat /\ Cardinality(Valid') \in Nat
      /\ MaxSessions \in Nat /\ MaxSessions >= 1
  BY FiniteAssumption, LimitAssumption, FS_Subset, FS_CardinalityType DEF Valid
<1>1. user'.version >= user.version /\ user.version \in Nat /\ user'.version \in Nat
  BY CredentialWriters DEF TypeOK
<1>2. \A s \in Requests : sessions[s].version \in Nat /\ sessions[s].version <= user.version
  BY DEF TypeOK, SessionRows, Births
<1>3. CASE SameRows
  <2>1. Valid' \subseteq Valid
    BY <1>1, <1>2, <1>3 DEF SameRows, Valid
  <2>2. Cardinality(Valid') <= Cardinality(Valid)
    BY <1>0, <2>1, FS_Subset
  <2> QED BY <1>0, <2>2 DEF ConcurrentLimit
<1>4. ASSUME NEW r \in Requests, CommitLogin(r) PROVE ConcurrentLimit'
  <2> DEFINE C == Countable(r)
             age == [s \in C |-> sessions[s].born]
             Kept == {s \in C : Cardinality({q \in C : age[q] > age[s]}) < MaxSessions - 1}
  <2>1. IsFiniteSet(C) /\ C \subseteq Opened /\ C \subseteq Requests
    BY FiniteAssumption, FS_Subset DEF Countable, HeldSessions, Opened
  <2>2. age \in [C -> Nat] /\ \A s, q \in C : age[s] = age[q] => s = q
    BY <2>1 DEF TypeOK, SessionRows, Births
  <2>3. Cardinality(Kept) <= MaxSessions - 1
    <3>1. MaxSessions - 1 \in Nat
      BY <1>0
    <3> HIDE DEF C, age
    <3> QED BY <2>1, <2>2, <3>1, Youngest
  <2>4. C \ Surplus(r) \subseteq Kept
    <3> SUFFICES ASSUME NEW s \in C, s \notin Surplus(r) PROVE s \in Kept
      OBVIOUS
    <3>1. {q \in C : age[q] > age[s]} = {q \in C : sessions[q].born > sessions[s].born}
      OBVIOUS
    <3>2. {q \in C : sessions[q].born > sessions[s].born} \subseteq Requests
      BY <2>1
    <3>3. Cardinality({q \in C : sessions[q].born > sessions[s].born}) \in Nat
      BY <3>2, CountIsNat
    <3>4. ~(Cardinality({q \in C : sessions[q].born > sessions[s].born}) >= MaxSessions - 1)
      BY DEF Surplus
    <3>5. Cardinality({q \in C : sessions[q].born > sessions[s].born}) < MaxSessions - 1
      BY <1>0, <3>3, <3>4
    <3> QED BY <3>1, <3>5
  <2>5. Valid' \subseteq Kept \cup {r}
    <3> SUFFICES ASSUME NEW s \in Valid', s # r PROVE s \in C \ Surplus(r)
      BY <2>4
    <3>1. /\ s \in Requests /\ sessions[s].status = "active" /\ s \notin Surplus(r)
          /\ sessions[s].version = user.version
      BY <1>4, LoginInserts DEF Valid
    <3>2. s \in HeldSessions(r)
      BY <1>4, <3>1 DEF CommitLogin, ScanCovers, Unrevoked
    <3>3. snap[r].sv = user.version
      BY <1>4 DEF CommitLogin, ConfirmedIsCurrent, AfterConfirm, AfterBothLocks, Snapshot
    <3> QED BY <3>1, <3>2, <3>3 DEF Countable
  <2>6. IsFiniteSet(Kept) /\ Cardinality(Kept) \in Nat
    BY <2>1, FS_Subset, FS_CardinalityType
  <2> HIDE DEF Kept
  <2>7. /\ IsFiniteSet(Kept \cup {r}) /\ Cardinality(Kept \cup {r}) \in Nat
        /\ Cardinality(Kept \cup {r}) <= Cardinality(Kept) + 1
    <3>1. /\ IsFiniteSet(Kept \cup {r})
          /\ Cardinality(Kept \cup {r}) =
                IF r \in Kept THEN Cardinality(Kept) ELSE Cardinality(Kept) + 1
      BY <2>6, FS_AddElement
    <3> QED BY <2>6, <3>1
  <2>8. Cardinality(Valid') <= Cardinality(Kept \cup {r})
    BY <2>5, <2>7, FS_Subset
  <2> QED BY <1>0, <2>3, <2>6, <2>7, <2>8 DEF ConcurrentLimit
<1> QED BY <1>3, <1>4, SessionWriters

(* The order and the versions of the session rows are as described.        *)
LEMMA BirthsAlways == Spec => []Births
<1>1. Init => Births
  <2> SUFFICES ASSUME Init PROVE Births
    OBVIOUS
  <2>1. Opened = {}
    BY DEF Init, Opened, NoSession
  <2> QED BY <2>1, ResourcesDiffer DEF Init, Births, NoSession, Free
<1>2. IndInv /\ IndInv' /\ Births /\ [Next]_vars => Births'
  BY BirthsStep
<1> QED BY <1>1, <1>2, IndInvAlways, PTL DEF Spec

(* However many logins run at once, the user never has more valid sessions *)
(* than MAX_CONCURRENT_SESSIONS.                                           *)
THEOREM SessionsStayLimited == Spec => []ConcurrentLimit
<1>1. Init => ConcurrentLimit
  <2> SUFFICES ASSUME Init PROVE ConcurrentLimit
    OBVIOUS
  <2>1. Valid = {}
    BY DEF Init, Valid, NoSession
  <2>2. Cardinality(Valid) = 0
    BY <2>1, FS_EmptySet
  <2> QED BY <2>2, LimitAssumption DEF ConcurrentLimit
<1>2. IndInv /\ IndInv' /\ Births /\ ConcurrentLimit /\ [Next]_vars => ConcurrentLimit'
  BY LimitStep
<1> QED BY <1>1, <1>2, IndInvAlways, BirthsAlways, PTL DEF Spec
-----------------------------------------------------------------------------
(* The transactions implement CredentialAuthority.                         *)

(* The hash of a running change or completion stays its own.               *)
LEMMA FreshHashStep ==
    ASSUME IndInv, IndInv', FreshHash, [Next]_vars PROVE FreshHash'
<1> USE DEF IndInv
<1>1. ASSUME NEW r \in Requests, (op[r] \in {"change", "complete"} /\ Running(r))'
      PROVE  fresh'[r].salt = r
  <2>1. CASE Environment \/ UNCHANGED vars
    BY <1>1, <2>1, EnvironmentKeeps DEF FreshHash, Running, requestVars
  <2>2. ASSUME NEW q \in Requests, q # r, Begin(q) \/ Step(q) \/ Abort(q)
        PROVE  fresh'[r].salt = r
    BY <1>1, <2>2, OthersKeep DEF FreshHash, Running
  <2>3. CASE Begin(r)
    BY <1>1, <2>3, BeginShape DEF Running, Statements
  <2>4. ASSUME NEW outcome \in Finished, End(r, outcome) PROVE FALSE
    BY <1>1, <2>4 DEF End, Go, TypeOK, Running, Statements, Finished
  <2>5. CASE Abort(r)
    BY <2>4, <2>5 DEF Abort, Finished
  <2>6. ASSUME UNCHANGED <<op, fresh>>, Running(r) PROVE fresh'[r].salt = r
    BY <1>1, <2>6 DEF FreshHash
  <2>7. CASE Step(r)
    <3>1. Running(r)
      BY <2>7 DEF Running, Statements, Step, LockFirst, LockSecond, Confirm, LockAdvisory,
           LockOwnSession, LockOwnToken, ScanTokens, EndTokens, ScanSessions, EndSessions,
           LockNextToken, LockNextSession, CommitLogin, CommitChange, CommitRequest,
           CommitComplete, CommitRevokeAll
    <3> QED BY <2>4, <2>6, <2>7, <3>1
            DEF Step, LockFirst, LockSecond, Confirm, LockAdvisory,
           LockOwnSession, LockOwnToken, ScanTokens, EndTokens, ScanSessions, EndSessions,
           LockNextToken, LockNextSession, CommitLogin, CommitChange, CommitRequest,
           CommitComplete, CommitRevokeAll, Refuse, requestVars, Finished
  <2> QED BY <2>1, <2>2, <2>3, <2>5, <2>7 DEF Next
<1>2. ASSUME NEW r \in Requests, cred'.hash.salt = r PROVE pc'[r] = "committed"
  <2>1. CASE cred' = cred
    BY <1>2, <2>1, EndedStays DEF FreshHash, Finished
  <2>2. ASSUME NEW q \in Requests, CommitChange(q) \/ CommitComplete(q)
        PROVE  pc'[r] = "committed"
    <3>1. cred'.hash.salt = q
      BY <2>2 DEF CommitChange, CommitComplete, ReplaceCredential, FreshHash, Running, Statements
    <3> QED BY <1>2, <2>2, <3>1 DEF CommitChange, CommitComplete, End, Go, TypeOK
  <2> QED BY <2>1, <2>2, CredentialWriters
<1> QED BY <1>1, <1>2 DEF FreshHash

(* A version the user has not had yet makes every session invalid.         *)
LEMMA NewVersionEndsAll ==
    ASSUME IndInv, Births, SameRows, user'.version = user.version + 1 PROVE Valid' = {}
<1>1. \A s \in Requests : sessions[s].version \in Nat /\ sessions[s].version <= user.version
  BY DEF IndInv, TypeOK, SessionRows, Births
<1>2. user.version \in Nat
  BY DEF IndInv, TypeOK
<1> QED BY <1>1, <1>2 DEF SameRows, Valid

(* Naming each valid session with its hash counts it once.                 *)
LEMMA LiveIsCounted ==
    ASSUME NEW S \in SUBSET Requests, NEW h
    PROVE  LET Live == {<<s, h[s].hash>> : s \in S}
           IN  IsFiniteSet(Live) /\ Cardinality(Live) <= Cardinality(S)
<1> DEFINE Live == {<<s, h[s].hash>> : s \in S}
           f == [s \in S |-> <<s, h[s].hash>>]
<1>1. IsFiniteSet(S)
  BY FiniteAssumption, FS_Subset
<1>2. f \in Surjection(S, Live)
  BY DEF Surjection
<1> HIDE DEF f, Live
<1>3. IsFiniteSet(Live) /\ Cardinality(Live) <= Cardinality(S)
  BY <1>1, <1>2, FS_Surjection
<1> QED BY <1>3 DEF Live

(* The abstract specification counts as this module does.                  *)
LEMMA AuthorityCount == \A S : Authority!Cardinality(S) = Cardinality(S)
BY DEF Authority!Cardinality, Cardinality, Authority!IsFiniteSet, IsFiniteSet

(* Every step of the transactions is a step CredentialAuthority allows.    *)
LEMMA AuthorityStep ==
    ASSUME IndInv, IndInv', Births, Births', FreshHash, ConcurrentLimit, ConcurrentLimit',
           [Next]_vars
    PROVE  [Authority!Next]_(Authority!vars)
<1> USE DEF IndInv
<1> DEFINE live == {<<s, sessions[s].hash>> : s \in Valid}
<1>1. ASSUME NEW r \in Requests, CommitLogin(r) PROVE Authority!Login(r)
  <2> DEFINE kept == {<<s, sessions'[s].hash>> : s \in Valid' \ {r}}
  <2>1. /\ r \notin Opened /\ Opened' = Opened \cup {r} /\ user.active
        /\ UNCHANGED <<cred, user>>
        /\ sessions'[r] = [status |-> "active", version |-> user.version,
                           hash |-> cred.hash, born |-> 1 + Cardinality(Opened)]
        /\ \A s \in Requests \ {r} :
              /\ sessions'[s].version = sessions[s].version
              /\ sessions'[s].hash = sessions[s].hash
              /\ sessions'[s].status = "active" => sessions[s].status = "active"
    BY <1>1, LoginInserts
  <2>2. kept \in SUBSET live
    BY <2>1 DEF Valid
  <2>3. r \in Valid' /\ sessions'[r].hash = cred.hash
    BY <2>1 DEF Valid
  <2>4. live' = kept \cup {<<r, cred.hash>>}
    BY <2>3
  <2>5. Cardinality(live') <= MaxSessions
    <3>1. Valid' \in SUBSET Requests
      BY DEF Valid
    <3>2. Cardinality({<<s, sessions'[s].hash>> : s \in Valid'}) <= Cardinality(Valid')
      BY <3>1, LiveIsCounted
    <3>3. IsFiniteSet(Valid') /\ Cardinality(Valid') \in Nat
      BY <3>1, CountIsNat, FiniteAssumption, FS_Subset
    <3>4. Cardinality({<<s, sessions'[s].hash>> : s \in Valid'}) \in Nat
      BY <3>1, LiveIsCounted, FS_CardinalityType
    <3> QED BY <3>2, <3>3, <3>4, LimitAssumption DEF ConcurrentLimit
  <2>6. \E some \in SUBSET live : /\ live' = some \cup {<<r, cred.hash>>}
                                  /\ Authority!Cardinality(live') <= MaxSessions
    BY <2>2, <2>4, <2>5, AuthorityCount
  <2>7. Authority!Login(r) <=> /\ user.active /\ r \notin Opened
                               /\ Opened' = Opened \cup {r}
                               /\ \E some \in SUBSET live :
                                     /\ live' = some \cup {<<r, cred.hash>>}
                                     /\ Authority!Cardinality(live') <= MaxSessions
                               /\ UNCHANGED <<cred.hash, user.active>>
    BY DEF Authority!Login, Opened
  <2> HIDE DEF kept, live
  <2> QED BY <2>1, <2>6, <2>7
<1>2. ASSUME SameRows PROVE Opened' = Opened
  BY <1>2 DEF SameRows, Opened
<1>3. ASSUME NEW r \in Requests, CommitChange(r) \/ CommitComplete(r),
             NEW h \in Hashes, h = fresh[r]
      PROVE  Authority!Replace(h)
  <2>1. SameRows
    <3>1. cred'.version = cred.version + 1 /\ cred.version \in Nat
      BY <1>3 DEF CommitChange, CommitComplete, ReplaceCredential, TypeOK
    <3> QED BY <3>1, SessionWriters DEF CommitLogin
  <2>2. /\ cred'.hash = fresh[r] /\ user'.version = user.version + 1
        /\ user'.active = user.active
    BY <1>3 DEF CommitChange, CommitComplete, ReplaceCredential, TypeOK
  <2>3. fresh[r] # cred.hash
    BY <1>3 DEF CommitChange, CommitComplete, FreshHash, Running, Statements
  <2>4. live' = {}
    BY <2>1, <2>2, NewVersionEndsAll
  <2>5. Opened' = Opened
    BY <1>2, <2>1
  <2> QED BY <1>3, <2>2, <2>3, <2>4, <2>5 DEF Authority!Replace, Opened
<1>4. ASSUME Suspend PROVE Authority!Suspend
  <2>1. SameRows
    BY <1>4 DEF Suspend, SameRows
  <2>2. user.active /\ user'.active = FALSE /\ user'.version = user.version + 1 /\ cred' = cred
    BY <1>4 DEF Suspend, TypeOK
  <2>3. live' = {}
    BY <2>1, <2>2, NewVersionEndsAll
  <2> QED BY <1>2, <2>1, <2>2, <2>3 DEF Authority!Suspend, Opened
<1>5. ASSUME Reactivate PROVE Authority!Reactivate
  <2>1. /\ ~user.active /\ user'.active = TRUE /\ user'.version = user.version
        /\ cred' = cred /\ sessions' = sessions
    BY <1>5 DEF Reactivate, TypeOK
  <2> QED BY <2>1 DEF Authority!Reactivate, Valid
<1>6. ASSUME SameRows, cred' = cred, user' = user PROVE Authority!Finish
  <2>1. live' \in SUBSET live
    BY <1>6 DEF SameRows, Valid
  <2> QED BY <1>2, <1>6, <2>1 DEF Authority!Finish, Opened
<1>7. CASE \E r \in Requests : CommitLogin(r)
  BY <1>1, <1>7 DEF Authority!Next
<1>8. CASE \E r \in Requests : CommitChange(r) \/ CommitComplete(r)
  <2>1. PICK r \in Requests : CommitChange(r) \/ CommitComplete(r)
    BY <1>8
  <2>2. PICK h \in Hashes : h = fresh[r]
    BY DEF TypeOK
  <2>3. Authority!Replace(h)
    BY <1>3, <2>1, <2>2
  <2> QED BY <2>3 DEF Authority!Next
<1>9. CASE Suspend \/ Reactivate
  <2>1. CASE Suspend
    BY <1>4, <2>1 DEF Authority!Next
  <2>2. CASE Reactivate
    BY <1>5, <2>2 DEF Authority!Next
  <2> QED BY <1>9, <2>1, <2>2
<1>10. CASE SameRows /\ cred' = cred /\ user' = user
  BY <1>6, <1>10 DEF Authority!Next
<1> QED BY <1>7, <1>8, <1>9, <1>10, CredentialWriters, SessionWriters

(* Whoever looks at the rows between two commits sees a behaviour of       *)
(* CredentialAuthority.                                                    *)
THEOREM AuthorityImplemented == Spec => ImplementsAuthority
<1>1. Init => Authority!Init
  <2> SUFFICES ASSUME Init PROVE Authority!Init
    OBVIOUS
  <2>1. Valid = {} /\ {s \in Requests : sessions[s].status # "absent"} = {}
    BY DEF Init, Valid, NoSession
  <2> QED BY <2>1 DEF Init, Authority!Init
<1>2. Init => FreshHash
  BY NobodyAssumption DEF Init, FreshHash, InitialHash
<1>3. IndInv /\ IndInv' /\ FreshHash /\ [Next]_vars => FreshHash'
  BY FreshHashStep
<1>4. IndInv /\ IndInv' /\ Births /\ Births' /\ FreshHash /\ ConcurrentLimit
         /\ ConcurrentLimit' /\ [Next]_vars => [Authority!Next]_(Authority!vars)
  BY AuthorityStep
<1> QED BY <1>1, <1>2, <1>3, <1>4, IndInvAlways, BirthsAlways, SessionsStayLimited, PTL
        DEF Spec, ImplementsAuthority, Authority!Spec

(* The sessions CredentialAuthority speaks of.                             *)
Live == {<<s, sessions[s].hash>> : s \in Valid}

(* What a user may rely on, in the terms of CredentialAuthority.           *)
Promises ==
    /\ \A l \in Live : l[1] \in Opened /\ l[2] = cred.hash
    /\ Cardinality(Live) <= MaxSessions
    /\ ~user.active => Live = {}

Promised == Promises /\ IsFiniteSet(Live) /\ user.active \in BOOLEAN

(* Fewer sessions keep the promises.                                       *)
LEMMA FewerKeep ==
    ASSUME Promised, Live' \subseteq Live,
           UNCHANGED <<cred.hash, user.active, Opened>>
    PROVE  Promised'
<1>1. IsFiniteSet(Live') /\ Cardinality(Live') <= Cardinality(Live)
  BY FS_Subset DEF Promised
<1>2. Cardinality(Live) \in Nat /\ Cardinality(Live') \in Nat
  BY <1>1, FS_CardinalityType DEF Promised
<1>3. Cardinality(Live') <= MaxSessions
  BY <1>1, <1>2, LimitAssumption DEF Promised, Promises
<1> HIDE DEF Live, Opened
<1> QED BY <1>1, <1>3 DEF Promised, Promises

(* So does having none.                                                    *)
LEMMA NoneKeeps ==
    ASSUME Live' = {}, user'.active \in BOOLEAN
    PROVE  Promised'
<1>1. IsFiniteSet({}) /\ Cardinality({}) = 0
  BY FS_EmptySet
<1> QED BY <1>1, LimitAssumption DEF Promised, Promises

(* Every step of CredentialAuthority keeps them.                           *)
LEMMA PromisesStep ==
    ASSUME Promised, [Authority!Next]_(Authority!vars)
    PROVE  Promised'
<1>1. ASSUME NEW r \in Requests, Authority!Login(r) PROVE Promised'
  <2>1. /\ user.active /\ r \notin Opened /\ Opened' = Opened \cup {r}
        /\ \E kept \in SUBSET Live :
              /\ Live' = kept \cup {<<r, cred.hash>>}
              /\ Authority!Cardinality(Live') <= MaxSessions
        /\ UNCHANGED <<cred.hash, user.active>>
    BY <1>1 DEF Authority!Login, Opened, Live
  <2> HIDE DEF Live, Opened
  <2>2. PICK kept \in SUBSET Live : Live' = kept \cup {<<r, cred.hash>>}
    BY <2>1
  <2>3. Cardinality(Live') <= MaxSessions
    BY <2>1, AuthorityCount
  <2>4. IsFiniteSet(kept)
    BY FS_Subset DEF Promised
  <2>5. IsFiniteSet(Live')
    BY <2>2, <2>4, FS_AddElement
  <2>6. \A l \in Live' : l[1] \in Opened' /\ l[2] = cred'.hash
    BY <2>1, <2>2 DEF Promised, Promises
  <2> QED BY <2>1, <2>3, <2>5, <2>6 DEF Promised, Promises
<1>2. ASSUME NEW h \in Hashes, Authority!Replace(h) PROVE Promised'
  <2>1. Live' = {} /\ user'.active = user.active
    BY <1>2 DEF Authority!Replace, Live
  <2> QED BY <2>1, NoneKeeps DEF Promised
<1>3. CASE Authority!Suspend
  <2>1. Live' = {} /\ user'.active = FALSE
    BY <1>3 DEF Authority!Suspend, Live
  <2> QED BY <2>1, NoneKeeps
<1>4. CASE Authority!Reactivate
  <2>1. /\ ~user.active /\ user'.active = TRUE /\ Live' = Live
    BY <1>4 DEF Authority!Reactivate, Live
  <2>2. Live' = {}
    BY <2>1 DEF Promised, Promises
  <2> QED BY <2>1, <2>2, NoneKeeps
<1>5. CASE Authority!Finish \/ UNCHANGED Authority!vars
  <2>1. Live' \subseteq Live /\ UNCHANGED <<cred.hash, user.active, Opened>>
    BY <1>5 DEF Authority!Finish, Authority!vars, Live, Opened
  <2> QED BY <2>1, FewerKeep
<1> QED BY <1>1, <1>2, <1>3, <1>4, <1>5 DEF Authority!Next

(* CredentialAuthority is worth implementing: of itself, without a row, a  *)
(* lock or a version, it says that every accepted session was opened once  *)
(* and proves the password in force, that there are no more of them than   *)
(* the limit and that a suspended user has none.  The services, which      *)
(* implement it, hence promise this to whoever reads the rows between two  *)
(* commits (password_authentication.py, sessions.py).                      *)
THEOREM AuthorityKeepsItsPromises ==
    (ImplementsAuthority => []Promises) /\ (Spec => []Promises)
<1>1. Authority!Init => Promised
  <2> SUFFICES ASSUME Authority!Init PROVE Promised
    OBVIOUS
  <2>1. Live = {} /\ user.active \in BOOLEAN
    BY DEF Authority!Init, Live
  <2>2. IsFiniteSet({}) /\ Cardinality({}) = 0
    BY FS_EmptySet
  <2> QED BY <2>1, <2>2, LimitAssumption DEF Promised, Promises
<1>2. Promised /\ [Authority!Next]_(Authority!vars) => Promised'
  BY PromisesStep
<1>3. Promised => Promises
  BY DEF Promised
<1>4. ImplementsAuthority => []Promises
  BY <1>1, <1>2, <1>3, PTL DEF ImplementsAuthority, Authority!Spec
<1> QED BY <1>4, AuthorityImplemented, PTL

-----------------------------------------------------------------------------
(* What the end of every request rests on: whoever holds a lock is still   *)
(* executing, and a request has only so many statements to execute.        *)

NoLockIsLeftBehind == \A x \in Resources : holder[x] = Nobody \/ Running(holder[x])

(* A request that ends, whether it commits, is refused by a check, loses   *)
(* its connection or is a deadlock victim, leaves no row and no advisory   *)
(* lock behind, so that whoever waits waits for a request that is still    *)
(* executing (the engine.begin() blocks of password_authentication.py).    *)
THEOREM LocksEndWithTheirRequest == Spec => []NoLockIsLeftBehind
<1>1. Init => NoLockIsLeftBehind
  BY DEF Init, NoLockIsLeftBehind
<1>2. IndInv /\ NoLockIsLeftBehind /\ [Next]_vars => NoLockIsLeftBehind'
  <2> SUFFICES ASSUME IndInv, NoLockIsLeftBehind, [Next]_vars PROVE NoLockIsLeftBehind'
    OBVIOUS
  <2>0. TypeOK
    BY DEF IndInv
  <2>1. CASE Environment \/ UNCHANGED vars
    BY <2>1, EnvironmentKeeps DEF NoLockIsLeftBehind, Running
  <2>2. ASSUME NEW r \in Requests, Begin(r) \/ Step(r) \/ Abort(r) PROVE NoLockIsLeftBehind'
    <3>1. (\A x \in Resources : holder'[x] # r) \/ Running(r)'
      <4>1. ASSUME NEW outcome, End(r, outcome) PROVE \A x \in Resources : holder'[x] # r
        BY <4>1, NobodyAssumption DEF End, Release
      <4>2. CASE Begin(r)
        <5>1. pc[r] = "idle" /\ holder' = holder
          BY <2>0, <4>2, BeginShape
        <5> QED BY <5>1, NobodyAssumption DEF NoLockIsLeftBehind, Running, Statements
      <4>3. CASE Abort(r) \/ CommitLogin(r) \/ CommitChange(r) \/ CommitRequest(r)
                 \/ CommitComplete(r) \/ CommitRevokeAll(r) \/ Refuse(r)
        BY <4>1, <4>3 DEF Abort, CommitLogin, CommitChange, CommitRequest, CommitComplete,
                          CommitRevokeAll, Refuse
      <4>4. ASSUME NEW next \in Statements, Go(r, next) PROVE Running(r)'
        BY <2>0, <4>4 DEF Go, TypeOK, Running
      <4>5. CASE Step(r)
        <5>1. CASE LockFirst(r) \/ LockSecond(r) \/ LockAdvisory(r) \/ ScanTokens(r)
                   \/ EndTokens(r) \/ ScanSessions(r) \/ EndSessions(r)
          BY <4>4, <5>1 DEF LockFirst, LockSecond, LockAdvisory, ScanTokens, EndTokens,
                            ScanSessions, EndSessions, Statements
        <5>2. CASE Confirm(r) \/ LockOwnSession(r) \/ LockOwnToken(r)
          BY <4>3, <4>4, <5>2 DEF Confirm, LockOwnSession, LockOwnToken, Statements
        <5>3. CASE \E x \in Requests : LockNextToken(r, x) \/ LockNextSession(r, x)
          BY <5>3 DEF LockNextToken, LockNextSession, Running, Statements
        <5> QED BY <4>3, <4>5, <5>1, <5>2, <5>3 DEF Step
      <4> QED BY <2>2, <4>2, <4>3, <4>5
    <3>2. \A x \in Resources, q \in Requests \ {r} : holder'[x] = q <=> holder[x] = q
      BY <2>0, <2>2, OthersKeep
    <3>3. \A q \in Requests \ {r} : pc'[q] = pc[q]
      BY <2>0, <2>2, OthersKeep
    <3>4. holder' \in [Resources -> Requests \cup {Nobody}]
      BY <2>0, TypeStep DEF TypeOK
    <3> QED BY <3>1, <3>2, <3>3, <3>4 DEF NoLockIsLeftBehind, Running
  <2> QED BY <2>1, <2>2 DEF Next
<1> QED BY <1>1, <1>2, IndInvAlways, PTL DEF Spec

(* How many statements of other kinds a request still has before it, at    *)
(* most.                                                                   *)
StatementsLeft ==
    [idle |-> 11, lockOwnToken |-> 10, scanTokens |-> 9, lockTokens |-> 8, lockFirst |-> 7,
     lockSecond |-> 6, confirm |-> 5, lockAdvisory |-> 4, lockOwnSession |-> 4,
     scanSessions |-> 3, lockSessions |-> 2, commit |-> 1,
     committed |-> 0, refused |-> 0, aborted |-> 0]

(* A request goes on to a later statement, or has one row less to lock.    *)
GoesOn(r) ==
    \/ StatementsLeft[pc'[r]] < StatementsLeft[pc[r]]
    \/ pc'[r] = pc[r] /\ \E x \in todo[r] : todo'[r] = todo[r] \ {x}

EveryStatementCounts ==
    \A r \in Requests : pc'[r] # pc[r] \/ todo'[r] # todo[r] => GoesOn(r)

(* Each statement of a request, and its end, takes it on.                  *)
LEMMA StatementsGoOn ==
    ASSUME TypeOK, NEW r \in Requests, Begin(r) \/ Step(r) \/ Abort(r)
    PROVE  GoesOn(r)
<1>1. CASE Begin(r)
  <2>1. /\ pc[r] = "idle"
        /\ pc'[r] \in {"lockFirst", "scanTokens", "lockOwnToken", "lockAdvisory", "refused",
                       "committed"}
    BY <1>1, BeginShape
  <2> QED BY <2>1 DEF GoesOn, StatementsLeft
<1>2. ASSUME NEW outcome \in Finished, End(r, outcome), Running(r) PROVE GoesOn(r)
  <2>1. pc'[r] \in Finished /\ pc[r] \in Statements
    BY <1>2 DEF End, Go, TypeOK, Running
  <2> QED BY <2>1 DEF GoesOn, StatementsLeft, Statements, Finished
<1>3. ASSUME Refuse(r), Running(r) PROVE GoesOn(r)
  BY <1>2, <1>3 DEF Refuse, Finished
<1>4. CASE Abort(r)
  BY <1>2, <1>4 DEF Abort, Finished
<1>5. CASE \/ CommitLogin(r) \/ CommitChange(r) \/ CommitRequest(r)
           \/ CommitComplete(r) \/ CommitRevokeAll(r)
  <2>1. Running(r) /\ End(r, "committed")
    BY <1>5 DEF CommitLogin, CommitChange, CommitRequest, CommitComplete, CommitRevokeAll,
                Running, Statements
  <2> QED BY <1>2, <2>1 DEF Finished
<1>6. ASSUME NEW next, Go(r, next), StatementsLeft[next] < StatementsLeft[pc[r]]
      PROVE  GoesOn(r)
  BY <1>6 DEF Go, TypeOK, GoesOn
<1>7. CASE LockFirst(r) \/ LockSecond(r)
  <2>1. PICK next \in {"lockSecond", "confirm", "scanSessions"} :
          /\ Go(r, next) /\ pc[r] \in {"lockFirst", "lockSecond"}
          /\ next = "lockSecond" => pc[r] = "lockFirst"
    BY <1>7 DEF LockFirst, LockSecond
  <2>2. StatementsLeft[next] < StatementsLeft[pc[r]]
    BY <2>1 DEF StatementsLeft
  <2> QED BY <1>6, <2>1, <2>2
<1>8. CASE Confirm(r) \/ LockOwnSession(r) \/ LockOwnToken(r)
  <2>1. CASE Refuse(r)
    <3>1. Running(r)
      BY <1>8 DEF Confirm, LockOwnSession, LockOwnToken, Running, Statements
    <3> QED BY <1>3, <2>1, <3>1
  <2>2. CASE ~Refuse(r)
    <3>1. \/ pc[r] = "confirm" /\ (Go(r, "lockAdvisory") \/ Go(r, "lockOwnSession"))
          \/ pc[r] = "lockOwnSession" /\ Go(r, "scanSessions")
          \/ pc[r] = "lockOwnToken" /\ Go(r, "scanTokens")
      BY <1>8, <2>2 DEF Confirm, LockOwnSession, LockOwnToken
    <3>2. /\ StatementsLeft["lockAdvisory"] < StatementsLeft["confirm"]
          /\ StatementsLeft["lockOwnSession"] < StatementsLeft["confirm"]
          /\ StatementsLeft["scanSessions"] < StatementsLeft["lockOwnSession"]
          /\ StatementsLeft["scanTokens"] < StatementsLeft["lockOwnToken"]
      BY DEF StatementsLeft
    <3> QED BY <1>6, <3>1, <3>2
  <2> QED BY <2>1, <2>2
<1>9. CASE LockAdvisory(r) \/ ScanTokens(r) \/ EndTokens(r) \/ ScanSessions(r) \/ EndSessions(r)
  <2>1. \/ pc[r] = "lockAdvisory" /\ Go(r, "scanSessions")
        \/ pc[r] = "scanTokens" /\ Go(r, "lockTokens")
        \/ pc[r] = "lockTokens" /\ (Go(r, "lockFirst") \/ Go(r, "commit"))
        \/ pc[r] = "scanSessions" /\ Go(r, "lockSessions")
        \/ pc[r] = "lockSessions" /\ Go(r, "commit")
    BY <1>9 DEF LockAdvisory, ScanTokens, EndTokens, ScanSessions, EndSessions
  <2>2. /\ StatementsLeft["scanSessions"] < StatementsLeft["lockAdvisory"]
        /\ StatementsLeft["lockTokens"] < StatementsLeft["scanTokens"]
        /\ StatementsLeft["lockFirst"] < StatementsLeft["lockTokens"]
        /\ StatementsLeft["commit"] < StatementsLeft["lockTokens"]
        /\ StatementsLeft["lockSessions"] < StatementsLeft["scanSessions"]
        /\ StatementsLeft["commit"] < StatementsLeft["lockSessions"]
    BY DEF StatementsLeft
  <2> QED BY <1>6, <2>1, <2>2
<1>10. CASE \E x \in Requests : LockNextToken(r, x) \/ LockNextSession(r, x)
  <2>1. PICK x \in todo[r] : todo' = [todo EXCEPT ![r] = todo[r] \ {x}] /\ pc' = pc
    BY <1>10 DEF LockNextToken, LockNextSession, MayLockNext
  <2> QED BY <2>1 DEF GoesOn, TypeOK
<1> QED BY <1>1, <1>4, <1>5, <1>7, <1>8, <1>9, <1>10 DEF Step

(* A request executes each statement of its transactions once and locks    *)
(* each row it has to lock once; other requests, expiry and suspensions    *)
(* add nothing to what it has left.  With LocksEndWithTheirRequest, only   *)
(* waiting for a lock can hold it up, which is what EveryRequestEnds       *)
(* leaves to fairness and to PostgreSQL's deadlock detection.              *)
THEOREM RequestsAreBounded == Spec => [][EveryStatementCounts]_vars
<1>1. TypeOK /\ [Next]_vars => EveryStatementCounts
  <2> SUFFICES ASSUME TypeOK, [Next]_vars PROVE EveryStatementCounts
    OBVIOUS
  <2>1. CASE Environment \/ UNCHANGED vars
    BY <2>1, EnvironmentKeeps DEF EveryStatementCounts
  <2>2. ASSUME NEW r \in Requests, Begin(r) \/ Step(r) \/ Abort(r) PROVE EveryStatementCounts
    BY <2>2, OthersKeep, StatementsGoOn DEF EveryStatementCounts
  <2> QED BY <2>1, <2>2 DEF Next
<1> QED BY <1>1, TypeCorrect, PTL DEF Spec
=============================================================================
