------------------------ MODULE SessionLifecycle_proofs ------------------------
(***************************************************************************)
(* Safety of SessionLifecycle for every number of session rows, requests   *)
(* and memberships and every timeout policy.                               *)
(*                                                                         *)
(* The argument is the row lock.  While a request works on a session it    *)
(* holds the row, the row is open and equal to the copy the request read,  *)
(* and the row still has the bearer and the membership the request         *)
(* presented; so a write from the copy never takes back what another       *)
(* transaction did.                                                        *)
(***************************************************************************)
EXTENDS SessionLifecycle, TLAPS

Records == [state : {"absent", "open", "revoked"}, id : 0..MaxBearers,
            bearer : 0..MaxBearers, sealed : BOOLEAN, version : 0..MaxVersion,
            created : 0..MaxTime, seen : 0..MaxTime, idle : 0..MaxTime,
            absolute : 0..MaxTime, member : Selections, memberVersion : 0..MaxVersion]

(* What a request holds is open, is what it copied, and is what it asked   *)
(* for.                                                                    *)
HeldIsCopied(w) ==
    work[w].slot # None =>
        /\ holder[work[w].slot] = w
        /\ copy[w] = rows[work[w].slot]
        /\ copy[w].state = "open"
        /\ copy[w].bearer = work[w].bearer
        /\ work[w].op \in Unsafe => work[w].expected = copy[w].member /\ copy[w].sealed
        /\ work[w].op # "none"

(* A switch names the membership it wants.                                 *)
TargetsAreMemberships == \A w \in Workers : work[w].op = "switch" => work[w].target \in Memberships

(* No row is of a later version than its user.                             *)
VersionsArePast == \A s \in Slots : rows[s].version <= user.version

IndInv ==
    /\ TypeOK
    /\ copy \in [Workers -> Records]
    /\ \A w \in Workers : HeldIsCopied(w)
    /\ TargetsAreMemberships
    /\ VersionsArePast
    /\ ExpiryPolicy

-----------------------------------------------------------------------------
(* What the operations make of a record.                                   *)

(* No row is a record.                                                     *)
LEMMA NoRowForm == NoRow \in Records /\ NoRow.version = 0 /\ NoRow.state = "absent"
BY TimeoutAssumption DEF NoRow, Records, Selections

(* SessionService.resolve leaves a record as it is, or records its use and *)
(* puts off the idle end, never beyond the absolute end.                   *)
LEMMA TouchForm ==
    ASSUME NEW c \in Records, NEW t \in 0..MaxTime
    PROVE  \/ Touch(c, t) = c
           \/ /\ IsValid(c, t, c.version)
              /\ \E i \in 0..MaxTime : /\ i <= c.absolute /\ i <= t + IdleTimeout
                                       /\ Touch(c, t) = [c EXCEPT !.seen = t, !.idle = i]
<1> SUFFICES ASSUME Touch(c, t) # c
             PROVE  /\ IsValid(c, t, c.version)
                    /\ \E i \in 0..MaxTime : /\ i <= c.absolute /\ i <= t + IdleTimeout
                                             /\ Touch(c, t) = [c EXCEPT !.seen = t, !.idle = i]
  OBVIOUS
<1> DEFINE i == Min(t + IdleTimeout, c.absolute)
<1>1. c.absolute \in 0..MaxTime
  BY DEF Records
<1>2. i \in 0..MaxTime /\ i <= c.absolute /\ i <= t + IdleTimeout
  BY <1>1, TimeoutAssumption DEF Min
<1>3. IsValid(c, t, c.version) /\ Touch(c, t) = [c EXCEPT !.seen = t, !.idle = i]
  BY DEF Touch
<1> QED BY <1>2, <1>3

(* What a request writes in place of the record it read: the identity, the *)
(* start and the absolute end stay, a revoked session stays revoked, and   *)
(* the idle end moves only for a session that is still valid.              *)
Follows(n, c, t) ==
    /\ n \in Records
    /\ n.state \in {c.state, "revoked"}
    /\ n.version = c.version /\ n.created = c.created /\ n.absolute = c.absolute
    /\ n.seen \in {c.seen, t}
    /\ \/ n.idle = c.idle
       \/ /\ IsValid(c, t, c.version)
          /\ n.seen = t /\ n.idle <= c.absolute /\ n.idle <= t + IdleTimeout

(* SessionService.resolve makes such a record.                             *)
LEMMA TouchFollows ==
    ASSUME NEW c \in Records, NEW t \in 0..MaxTime
    PROVE  /\ Follows(Touch(c, t), c, t) /\ Touch(c, t).state = c.state
           /\ Touch(c, t).bearer = c.bearer
<1>1. CASE Touch(c, t) = c
  BY <1>1 DEF Follows
<1>2. CASE /\ IsValid(c, t, c.version)
           /\ \E i \in 0..MaxTime : /\ i <= c.absolute /\ i <= t + IdleTimeout
                                    /\ Touch(c, t) = [c EXCEPT !.seen = t, !.idle = i]
  <2>1. PICK i \in 0..MaxTime : /\ i <= c.absolute /\ i <= t + IdleTimeout
                                /\ Touch(c, t) = [c EXCEPT !.seen = t, !.idle = i]
    BY <1>2
  <2>2. Touch(c, t) \in Records
    BY <2>1 DEF Records
  <2>3. /\ Touch(c, t).state = c.state /\ Touch(c, t).bearer = c.bearer
        /\ Touch(c, t).version = c.version /\ Touch(c, t).created = c.created
        /\ Touch(c, t).absolute = c.absolute /\ Touch(c, t).seen = t /\ Touch(c, t).idle = i
    BY <2>1 DEF Records
  <2> QED BY <1>2, <2>1, <2>2, <2>3 DEF Follows
<1> QED BY <1>1, <1>2, TouchForm

(* So does SessionService.rotate_to_membership.                            *)
LEMMA RotateFollows ==
    ASSUME NEW c \in Records, NEW t \in 0..MaxTime, NEW b \in 0..MaxBearers,
           NEW m \in Memberships, NEW v \in 0..MaxVersion
    PROVE  Follows(Rotate(c, t, b, m, v), c, t)
<1> DEFINE u == Touch(c, t)
           n == [u EXCEPT !.bearer = b, !.sealed = TRUE, !.seen = t, !.member = m,
                          !.memberVersion = v]
<1>1. Follows(u, c, t) /\ u \in Records
  BY TouchFollows DEF Follows
<1> HIDE DEF u
<1>2. n \in Records
  BY <1>1 DEF Records, Selections
<1>3. /\ n.state = u.state /\ n.version = u.version /\ n.created = u.created
      /\ n.absolute = u.absolute /\ n.idle = u.idle /\ n.seen = t
  BY <1>1 DEF Records
<1>4. Rotate(c, t, b, m, v) = n
  BY DEF Rotate, u
<1> QED BY <1>1, <1>2, <1>3, <1>4 DEF Follows

(* Such a record keeps the policy of the timeouts.                         *)
LEMMA FollowsKeepsPolicy ==
    ASSUME NEW c \in Records, NEW t \in 0..MaxTime, NEW n, Follows(n, c, t),
           c.absolute = c.created + AbsoluteTimeout, c.idle <= c.absolute,
           c.idle <= c.seen + IdleTimeout, c.created <= c.seen, c.seen <= t
    PROVE  /\ n.absolute = n.created + AbsoluteTimeout /\ n.idle <= n.absolute
           /\ n.idle <= n.seen + IdleTimeout /\ n.created <= n.seen /\ n.seen <= t
<1>1. /\ c.absolute \in Nat /\ c.created \in Nat /\ c.idle \in Nat /\ c.seen \in Nat
      /\ n.idle \in Nat /\ n.seen \in Nat /\ t \in Nat
  BY TimeoutAssumption DEF Follows, Records
<1> QED BY <1>1, TimeoutAssumption DEF Follows

(* And one that has ended stays so.                                        *)
LEMMA FollowsStaysEnded ==
    ASSUME NEW c \in Records, NEW t \in 0..MaxTime, NEW n, Follows(n, c, t),
           NEW v, ~IsValid(c, t, v)
    PROVE  ~IsValid(n, t, v)
<1>1. CASE c.state # "open" \/ c.version # v
  BY <1>1 DEF Follows, IsValid
<1>2. CASE c.state = "open" /\ c.version = v
  BY <1>2 DEF Follows, IsValid
<1> QED BY <1>1, <1>2

-----------------------------------------------------------------------------
(* Facts of the state.                                                     *)

(* The type invariant, a variable at a time.                               *)
LEMMA Typed ==
    ASSUME IndInv
    PROVE  /\ now \in 0..MaxTime /\ user \in [active : BOOLEAN, version : 1..MaxVersion]
           /\ members \in [Memberships -> [active : BOOLEAN, version : 1..MaxVersion]]
           /\ rows \in [Slots -> Records] /\ bearers \in 0..MaxBearers
           /\ holder \in [Slots -> Workers \cup {None}]
           /\ work \in [Workers -> [op : Reads \cup Unsafe \cup {"none"}, bearer : 0..MaxBearers,
                                    expected : Selections, target : Selections,
                                    slot : Slots \cup {None}]]
           /\ copy \in [Workers -> Records]
           /\ \A w \in Workers : work[w].slot = None => copy[w] = NoRow
BY DEF IndInv, TypeOK, Records

(* Nobody works on a row while every open row is free.                     *)
LEMMA NobodyWorks ==
    ASSUME IndInv, AllOpenFree, NEW w \in Workers
    PROVE  work[w].slot = None
<1> SUFFICES ASSUME work[w].slot # None PROVE FALSE
  OBVIOUS
<1>1. work[w].slot \in Slots /\ holder[work[w].slot] = w /\ rows[work[w].slot].state = "open"
  BY Typed DEF IndInv, HeldIsCopied
<1>2. work[w].slot \in Open
  BY <1>1 DEF Open
<1> QED BY <1>1, <1>2, NoneAssumption DEF AllOpenFree, Free

(* Two requests never work on one row.                                     *)
LEMMA OneWorker ==
    ASSUME IndInv, NEW w \in Workers, NEW q \in Workers, w # q, work[w].slot # None
    PROVE  work[w].slot # work[q].slot
BY DEF IndInv, HeldIsCopied

(* What a transaction of a request leaves of its row, and who rotated it.  *)
LEMMA ApplyForm ==
    ASSUME IndInv, NEW w \in Workers, Apply(w)
    PROVE  /\ work[w].slot \in Slots
           /\ bearers' \in 0..MaxBearers
           /\ \/ rows' = rows
              \/ \E n : /\ Follows(n, rows[work[w].slot], now)
                        /\ rows' = [rows EXCEPT ![work[w].slot] = n]
                        /\ n.bearer = rows[work[w].slot].bearer \/ work[w].op = "switch"
<1> DEFINE s == work[w].slot
           c == copy[w]
<1>1. s \in Slots /\ s # None
  BY Typed DEF Apply
<1>2. c = rows[s] /\ c \in Records /\ now \in 0..MaxTime /\ bearers \in 0..MaxBearers
  BY <1>1, Typed DEF IndInv, HeldIsCopied
<1> HIDE DEF s, c
<1>3. CASE Me(w)
  BY <1>1, <1>2, <1>3, TouchFollows DEF Me, Write, s, c
<1>4. CASE ListMemberships(w)
  BY <1>1, <1>2, <1>4 DEF ListMemberships, s
<1>5. CASE Seal(w)
  <2> DEFINE n == [c EXCEPT !.sealed = TRUE]
  <2>1. /\ n \in Records /\ n.state = c.state /\ n.version = c.version /\ n.created = c.created
        /\ n.absolute = c.absolute /\ n.seen = c.seen /\ n.idle = c.idle /\ n.bearer = c.bearer
    BY <1>2 DEF Records
  <2>2. Follows(n, c, now)
    BY <2>1 DEF Follows
  <2> QED BY <1>1, <1>2, <1>5, <2>1, <2>2 DEF Seal, Write, s, c
<1>6. CASE Switch(w)
  <2> DEFINE m == work[w].target
  <2>1. m \in Memberships /\ members[m].version \in 0..MaxVersion
    <3>1. m \in Memberships
      BY <1>6 DEF Switch, IndInv, TargetsAreMemberships
    <3>2. members[m].version \in 1..MaxVersion
      BY <3>1, Typed
    <3> QED BY <3>1, <3>2, TimeoutAssumption
  <2>2. bearers' \in 0..MaxBearers /\ bearers' = bearers + 1
    BY <1>2, <1>6, TimeoutAssumption DEF Switch
  <2>3. rows' = [rows EXCEPT ![s] = Rotate(c, now, bearers', m, members[m].version)]
    BY <1>6, <2>2 DEF Switch, Write, s, c
  <2>4. \A b \in 0..MaxBearers : Follows(Rotate(c, now, b, m, members[m].version), c, now)
    BY <1>2, <2>1, RotateFollows
  <2> QED BY <1>1, <1>2, <1>6, <2>2, <2>3, <2>4 DEF Switch, s
<1>7. CASE Logout(w)
  <2> DEFINE n == [c EXCEPT !.state = "revoked"]
  <2>1. /\ n \in Records /\ n.state = "revoked" /\ n.version = c.version /\ n.created = c.created
        /\ n.absolute = c.absolute /\ n.seen = c.seen /\ n.idle = c.idle /\ n.bearer = c.bearer
    BY <1>2 DEF Records
  <2>2. Follows(n, c, now)
    BY <2>1 DEF Follows
  <2> QED BY <1>1, <1>2, <1>7, <2>1, <2>2 DEF Logout, Write, s, c
<1> QED BY <1>3, <1>4, <1>5, <1>6, <1>7 DEF Apply

-----------------------------------------------------------------------------
(* Every action keeps the invariant.                                       *)

(* A transaction that ends frees its row; the others keep theirs.          *)
LEMMA FinishKeeps ==
    ASSUME IndInv, NEW w \in Workers, Finish(w), UNCHANGED <<now, user, members>>,
           bearers' \in 0..MaxBearers, rows' \in [Slots -> Records],
           \A s \in Slots : s # work[w].slot => rows'[s] = rows[s],
           VersionsArePast', ExpiryPolicy'
    PROVE  IndInv'
<1>1. /\ \A q \in Workers \ {w} : work'[q] = work[q] /\ copy'[q] = copy[q]
      /\ work'[w] = NoWork /\ copy'[w] = NoRow
  BY Typed DEF Finish
<1>2. NoWork \in [op : Reads \cup Unsafe \cup {"none"}, bearer : 0..MaxBearers,
                  expected : Selections, target : Selections, slot : Slots \cup {None}]
  BY TimeoutAssumption DEF NoWork, Selections
<1>3. /\ work' \in [Workers -> [op : Reads \cup Unsafe \cup {"none"}, bearer : 0..MaxBearers,
                                expected : Selections, target : Selections,
                                slot : Slots \cup {None}]]
      /\ copy' \in [Workers -> Records] /\ holder' \in [Slots -> Workers \cup {None}]
  BY <1>2, Typed, NoRowForm DEF Finish
<1>4. \A q \in Workers : work'[q].slot = None => copy'[q] = NoRow
  BY <1>1, Typed
<1>5. TypeOK'
  BY <1>3, <1>4, Typed DEF TypeOK, Records
<1>6. ASSUME NEW q \in Workers PROVE HeldIsCopied(q)'
  <2>1. CASE q = w
    BY <2>1, <1>1 DEF HeldIsCopied, NoWork
  <2>2. CASE q # w
    <3> SUFFICES ASSUME work[q].slot # None
                 PROVE  HeldIsCopied(q)'
      BY <1>1, <2>2 DEF HeldIsCopied
    <3>1. work[q].slot \in Slots /\ work[q].slot # work[w].slot /\ holder[work[q].slot] = q
      BY <2>2, Typed, OneWorker DEF IndInv, HeldIsCopied
    <3>2. rows'[work[q].slot] = rows[work[q].slot] /\ holder'[work[q].slot] = q
      BY <2>2, <3>1 DEF Finish
    <3> QED BY <1>1, <2>2, <3>1, <3>2 DEF IndInv, HeldIsCopied
  <2> QED BY <2>1, <2>2
<1>7. TargetsAreMemberships'
  BY <1>1 DEF IndInv, TargetsAreMemberships, NoWork
<1> QED BY <1>3, <1>5, <1>6, <1>7 DEF IndInv

(* A request that is answered keeps the invariant.                         *)
LEMMA ApplyKeeps ==
    ASSUME IndInv, NEW w \in Workers, Apply(w)
    PROVE  IndInv'
<1> DEFINE s == work[w].slot
<1>1. Finish(w) /\ UNCHANGED <<now, user, members>>
  BY DEF Apply
<1>2. s \in Slots /\ bearers' \in 0..MaxBearers
  BY ApplyForm
<1>3. CASE rows' = rows
  <2>1. VersionsArePast' /\ ExpiryPolicy' /\ rows' \in [Slots -> Records]
    BY <1>1, <1>3, Typed DEF IndInv, VersionsArePast, ExpiryPolicy
  <2> QED BY <1>1, <1>2, <1>3, <2>1, FinishKeeps
<1>4. ASSUME NEW n, Follows(n, rows[s], now), rows' = [rows EXCEPT ![s] = n]
      PROVE  IndInv'
  <2>1. n \in Records /\ rows' \in [Slots -> Records] /\ rows'[s] = n
        /\ \A q \in Slots : q # s => rows'[q] = rows[q]
    BY <1>2, <1>4, Typed DEF Follows
  <2>2. VersionsArePast'
    BY <1>1, <1>2, <1>4, <2>1 DEF IndInv, VersionsArePast, Follows
  <2>3. rows[s].state # "absent"
    BY DEF Apply, IndInv, HeldIsCopied
  <2>4. ExpiryPolicy'
    <3> SUFFICES ASSUME NEW q \in Slots, rows'[q].state # "absent"
                 PROVE  /\ rows'[q].absolute = rows'[q].created + AbsoluteTimeout
                        /\ rows'[q].idle <= rows'[q].absolute
                        /\ rows'[q].idle <= rows'[q].seen + IdleTimeout
                        /\ rows'[q].created <= rows'[q].seen /\ rows'[q].seen <= now
      BY <1>1 DEF ExpiryPolicy
    <3>1. CASE q = s
      <4>1. /\ rows[s].absolute = rows[s].created + AbsoluteTimeout
            /\ rows[s].idle <= rows[s].absolute
            /\ rows[s].idle <= rows[s].seen + IdleTimeout
            /\ rows[s].created <= rows[s].seen /\ rows[s].seen <= now
        BY <1>2, <2>3 DEF IndInv, ExpiryPolicy
      <4>2. rows[s] \in Records /\ now \in 0..MaxTime
        BY <1>2, Typed
      <4> QED BY <1>4, <2>1, <3>1, <4>1, <4>2, FollowsKeepsPolicy
    <3>2. CASE q # s
      BY <2>1, <3>2 DEF IndInv, ExpiryPolicy
    <3> QED BY <3>1, <3>2
  <2> QED BY <1>1, <1>2, <2>1, <2>2, <2>4, FinishKeeps
<1> QED BY <1>3, <1>4, ApplyForm

(* A request that gives up keeps it.                                       *)
LEMMA GiveUpKeeps ==
    ASSUME IndInv, NEW w \in Workers, GiveUp(w)
    PROVE  IndInv'
<1>1. Finish(w) /\ UNCHANGED <<now, user, members, rows, bearers>>
  BY DEF GiveUp
<1>2. VersionsArePast' /\ ExpiryPolicy'
  BY <1>1 DEF IndInv, VersionsArePast, ExpiryPolicy
<1>3. rows' \in [Slots -> Records] /\ bearers' \in 0..MaxBearers
  BY <1>1, Typed
<1> QED BY <1>1, <1>2, <1>3, FinishKeeps

(* A request that arrives has opened nothing.                              *)
LEMMA ArriveKeeps ==
    ASSUME IndInv, NEW w \in Workers, Arrive(w)
    PROVE  IndInv'
<1>1. PICK operation \in Reads \cup Unsafe, bearer \in 1..bearers,
           expected \in Selections, target \in Selections :
           /\ Send(w, operation, bearer, expected, target)
           /\ operation = "switch" => target \in Memberships
  BY DEF Arrive, Reads, Unsafe, Selections
<1> DEFINE n == [op |-> operation, bearer |-> bearer, expected |-> expected,
                 target |-> target, slot |-> None]
<1>2. /\ work' = [work EXCEPT ![w] = n]
      /\ UNCHANGED <<now, user, members, rows, bearers, holder, copy>>
      /\ work[w].op = "none"
  BY <1>1 DEF Send
<1>3. n \in [op : Reads \cup Unsafe \cup {"none"}, bearer : 0..MaxBearers,
             expected : Selections, target : Selections, slot : Slots \cup {None}]
  <2>1. bearer \in 0..MaxBearers
    BY Typed, TimeoutAssumption
  <2> QED BY <2>1
<1>4. work[w].slot = None
  BY <1>2 DEF IndInv, HeldIsCopied
<1>5. n.op = operation /\ n.target = target /\ n.slot = None
  OBVIOUS
<1> HIDE DEF n
<1>6. work'[w] = n /\ \A q \in Workers \ {w} : work'[q] = work[q]
  BY <1>2, Typed
<1>7. TypeOK' /\ copy' \in [Workers -> Records]
  <2>1. work' \in [Workers -> [op : Reads \cup Unsafe \cup {"none"}, bearer : 0..MaxBearers,
                              expected : Selections, target : Selections,
                              slot : Slots \cup {None}]]
    BY <1>2, <1>3, Typed
  <2>2. \A q \in Workers : work'[q].slot = None => copy'[q] = NoRow
    BY <1>2, <1>4, <1>6, Typed
  <2> QED BY <1>2, <2>1, <2>2, Typed DEF TypeOK, Records
<1>8. \A q \in Workers : HeldIsCopied(q)'
  BY <1>2, <1>5, <1>6 DEF IndInv, HeldIsCopied
<1>9. TargetsAreMemberships'
  BY <1>1, <1>5, <1>6 DEF IndInv, TargetsAreMemberships
<1>10. VersionsArePast' /\ ExpiryPolicy'
  BY <1>2 DEF IndInv, VersionsArePast, ExpiryPolicy
<1> QED BY <1>7, <1>8, <1>9, <1>10 DEF IndInv

(* A request that opens a session locks the row it copies.                 *)
LEMMA OpenKeeps ==
    ASSUME IndInv, NEW w \in Workers, NEW s \in Slots, OpenSession(w, s)
    PROVE  IndInv'
<1>1. /\ holder' = [holder EXCEPT ![s] = w] /\ copy' = [copy EXCEPT ![w] = rows[s]]
      /\ work' = [work EXCEPT ![w].slot = s]
      /\ UNCHANGED <<now, user, members, rows, bearers>>
      /\ work[w].op # "none" /\ work[w].slot = None /\ holder[s] = None
      /\ rows[s].bearer = work[w].bearer /\ rows[s].state = "open"
      /\ work[w].op \in Unsafe => work[w].expected = rows[s].member /\ rows[s].sealed
  BY DEF OpenSession, Found, Free, Accepts, Valid, IsValid
<1>2. /\ work'[w] = [work[w] EXCEPT !.slot = s] /\ copy'[w] = rows[s] /\ holder'[s] = w
      /\ \A q \in Workers \ {w} : work'[q] = work[q] /\ copy'[q] = copy[q]
      /\ \A q \in Slots \ {s} : holder'[q] = holder[q]
  BY <1>1, Typed
<1>3. /\ work'[w].op = work[w].op /\ work'[w].bearer = work[w].bearer
      /\ work'[w].expected = work[w].expected /\ work'[w].target = work[w].target
      /\ work'[w].slot = s
  BY <1>2, Typed
<1>4. TypeOK' /\ copy' \in [Workers -> Records]
  <2>1. /\ work' \in [Workers -> [op : Reads \cup Unsafe \cup {"none"}, bearer : 0..MaxBearers,
                                  expected : Selections, target : Selections,
                                  slot : Slots \cup {None}]]
        /\ copy' \in [Workers -> Records] /\ holder' \in [Slots -> Workers \cup {None}]
    BY <1>1, Typed
  <2>2. \A q \in Workers : work'[q].slot = None => copy'[q] = NoRow
    BY <1>2, <1>3, Typed, NoneAssumption
  <2> QED BY <1>1, <2>1, <2>2, Typed DEF TypeOK, Records
<1>5. ASSUME NEW q \in Workers PROVE HeldIsCopied(q)'
  <2>1. CASE q = w
    BY <2>1, <1>1, <1>2, <1>3 DEF HeldIsCopied
  <2>2. CASE q # w
    <3> SUFFICES ASSUME work[q].slot # None
                 PROVE  HeldIsCopied(q)'
      BY <1>2, <2>2 DEF HeldIsCopied
    <3>1. work[q].slot \in Slots \ {s}
      BY <1>1, Typed, NoneAssumption DEF IndInv, HeldIsCopied
    <3> QED BY <1>1, <1>2, <2>2, <3>1 DEF IndInv, HeldIsCopied
  <2> QED BY <2>1, <2>2
<1>6. TargetsAreMemberships'
  <2> SUFFICES ASSUME NEW q \in Workers, work'[q].op = "switch"
               PROVE  work'[q].target \in Memberships
    BY DEF TargetsAreMemberships
  <2>1. work'[q].op = work[q].op /\ work'[q].target = work[q].target
    BY <1>2, <1>3
  <2> QED BY <2>1 DEF IndInv, TargetsAreMemberships
<1>7. VersionsArePast' /\ ExpiryPolicy'
  BY <1>1 DEF IndInv, VersionsArePast, ExpiryPolicy
<1> QED BY <1>4, <1>5, <1>6, <1>7 DEF IndInv

(* A step of the clock, the user or the memberships moves nothing back.    *)
LEMMA ContextKeeps ==
    ASSUME IndInv, UNCHANGED <<rows, bearers, holder, work, copy>>,
           now' \in 0..MaxTime, now <= now',
           user' \in [active : BOOLEAN, version : 1..MaxVersion], user.version <= user'.version,
           members' \in [Memberships -> [active : BOOLEAN, version : 1..MaxVersion]]
    PROVE  IndInv'
<1>1. TypeOK' /\ copy' \in [Workers -> Records]
  BY Typed DEF TypeOK, Records
<1>2. \A q \in Workers : HeldIsCopied(q)'
  BY DEF IndInv, HeldIsCopied
<1>3. TargetsAreMemberships'
  BY DEF IndInv, TargetsAreMemberships
<1>4. \A s \in Slots : rows[s].version \in Nat /\ rows[s].seen \in Nat
  BY Typed DEF Records
<1>5. user.version \in Nat /\ user'.version \in Nat /\ now \in Nat /\ now' \in Nat
  BY Typed
<1>6. VersionsArePast'
  BY <1>4, <1>5 DEF IndInv, VersionsArePast
<1>7. ExpiryPolicy'
  <2>1. ASSUME NEW s \in Slots, rows[s].seen <= now PROVE rows[s].seen <= now'
    BY <1>4, <1>5, <2>1
  <2> QED BY <2>1 DEF IndInv, ExpiryPolicy
<1> QED BY <1>1, <1>2, <1>3, <1>6, <1>7 DEF IndInv

(* Tick, Suspend, Reactivate and ChangeMembership are such steps.          *)
LEMMA ContextStep ==
    ASSUME IndInv, Tick \/ Suspend \/ Reactivate \/ \E m \in Memberships : ChangeMembership(m)
    PROVE  /\ UNCHANGED <<rows, bearers, holder, work, copy>>
           /\ now' \in 0..MaxTime /\ now <= now'
           /\ user' \in [active : BOOLEAN, version : 1..MaxVersion]
           /\ user.version <= user'.version
           /\ members' \in [Memberships -> [active : BOOLEAN, version : 1..MaxVersion]]
<1>1. /\ now \in 0..MaxTime /\ user \in [active : BOOLEAN, version : 1..MaxVersion]
      /\ members \in [Memberships -> [active : BOOLEAN, version : 1..MaxVersion]]
      /\ now \in Nat /\ user.version \in Nat /\ now <= now /\ user.version <= user.version
  BY Typed
<1>2. CASE Tick
  BY <1>1, <1>2, TimeoutAssumption DEF Tick
<1>3. CASE Suspend
  <2>1. user.version + 1 \in 1..MaxVersion
    BY <1>1, <1>3, TimeoutAssumption DEF Suspend
  <2>2. user' = [active |-> FALSE, version |-> user.version + 1]
    BY <1>3 DEF Suspend
  <2> QED BY <1>1, <1>3, <2>1, <2>2 DEF Suspend
<1>4. CASE Reactivate
  BY <1>1, <1>4 DEF Reactivate
<1>5. CASE \E m \in Memberships : ChangeMembership(m)
  <2>1. PICK m \in Memberships : ChangeMembership(m)
    BY <1>5
  <2>2. members[m].version + 1 \in 1..MaxVersion
    BY <1>1, <2>1, TimeoutAssumption DEF ChangeMembership
  <2>3. PICK n \in [active : BOOLEAN, version : 1..MaxVersion] :
            members' = [members EXCEPT ![m] = n]
    BY <1>1, <2>1, <2>2 DEF ChangeMembership
  <2>4. members' \in [Memberships -> [active : BOOLEAN, version : 1..MaxVersion]]
    BY <1>1, <2>3
  <2> QED BY <1>1, <2>1, <2>4 DEF ChangeMembership
<1> QED BY <1>2, <1>3, <1>4, <1>5

(* A transaction that writes several rows waits for the free ones, so no   *)
(* request has a copy of what it changes.                                  *)
LEMMA ManyRowsKeep ==
    ASSUME IndInv, AllOpenFree, UNCHANGED <<now, members, holder, work, copy>>,
           bearers' \in 0..MaxBearers, rows' \in [Slots -> Records],
           user' \in [active : BOOLEAN, version : 1..MaxVersion],
           VersionsArePast', ExpiryPolicy'
    PROVE  IndInv'
<1>1. TypeOK' /\ copy' \in [Workers -> Records]
  BY Typed DEF TypeOK, Records
<1>2. \A q \in Workers : HeldIsCopied(q)'
  BY NobodyWorks DEF HeldIsCopied
<1>3. TargetsAreMemberships'
  BY DEF IndInv, TargetsAreMemberships
<1> QED BY <1>1, <1>2, <1>3 DEF IndInv

(* Revoking a record changes its state only.                               *)
LEMMA RevokedForm ==
    ASSUME NEW c \in Records
    PROVE  LET n == [c EXCEPT !.state = "revoked"] IN
           /\ n \in Records /\ n.state = "revoked" /\ n.version = c.version
           /\ n.created = c.created /\ n.absolute = c.absolute /\ n.seen = c.seen
           /\ n.idle = c.idle /\ n.bearer = c.bearer
BY DEF Records

(* RevokeAll keeps the invariant.                                          *)
LEMMA RevokeAllKeeps ==
    ASSUME IndInv, ReplacePassword \/ RevokeAllSessions
    PROVE  IndInv'
<1>1. PICK v \in 1..MaxVersion : user.version <= v /\ RevokeAll(v)
  <2>1. user.version \in 1..MaxVersion
    BY Typed
  <2>2. CASE ReplacePassword
    <3>1. user.version + 1 \in 1..MaxVersion /\ user.version <= user.version + 1
      BY <2>1, <2>2, TimeoutAssumption DEF ReplacePassword
    <3> QED BY <2>2, <3>1 DEF ReplacePassword
  <2>3. CASE RevokeAllSessions
    BY <2>1, <2>3 DEF RevokeAllSessions
  <2> QED BY <2>2, <2>3
<1>2. /\ AllOpenFree /\ UNCHANGED <<now, members, bearers, holder, work, copy>>
      /\ user' = [user EXCEPT !.version = v]
      /\ \A s \in Slots : rows'[s] = IF s \in Open THEN [rows[s] EXCEPT !.state = "revoked"]
                                                    ELSE rows[s]
  BY <1>1 DEF RevokeAll
<1>3. user' \in [active : BOOLEAN, version : 1..MaxVersion] /\ user'.version = v
  BY <1>2, Typed
<1>4. ASSUME NEW s \in Slots
      PROVE  /\ rows'[s] \in Records /\ rows'[s].version = rows[s].version
             /\ rows'[s].created = rows[s].created /\ rows'[s].absolute = rows[s].absolute
             /\ rows'[s].seen = rows[s].seen /\ rows'[s].idle = rows[s].idle
             /\ rows'[s].state # "absent" => rows[s].state # "absent"
  <2>1. rows[s] \in Records
    BY Typed
  <2>2. CASE s \in Open
    <3>1. rows[s].state = "open" /\ rows'[s] = [rows[s] EXCEPT !.state = "revoked"]
      BY <1>2, <2>2 DEF Open
    <3> QED BY <2>1, <3>1, RevokedForm
  <2>3. CASE s \notin Open
    BY <1>2, <2>1, <2>3
  <2> QED BY <2>2, <2>3
<1>5. rows' \in [Slots -> Records]
  BY <1>1, <1>4 DEF RevokeAll
<1>6. VersionsArePast'
  <2>1. \A s \in Slots : rows[s].version \in Nat /\ rows[s].version <= user.version
    BY Typed DEF Records, IndInv, VersionsArePast
  <2>2. user.version \in Nat /\ v \in Nat
    BY Typed
  <2>3. \A s \in Slots : rows[s].version <= v
    BY <1>1, <2>1, <2>2
  <2> QED BY <1>3, <1>4, <2>3 DEF VersionsArePast
<1>7. ExpiryPolicy'
  BY <1>2, <1>4 DEF IndInv, ExpiryPolicy
<1>8. bearers' \in 0..MaxBearers
  BY <1>2, Typed
<1> QED BY <1>2, <1>3, <1>5, <1>6, <1>7, <1>8, ManyRowsKeep

(* Issue keeps the invariant: the new row starts with a full idle and a    *)
(* full absolute timeout.                                                  *)
LEMMA IssueKeeps ==
    ASSUME IndInv, NEW s \in Slots, Issue(s)
    PROVE  IndInv'
<1> DEFINE n == [NoRow EXCEPT !.state = "open", !.id = bearers + 1, !.bearer = bearers + 1,
                              !.version = user.version, !.created = now, !.seen = now,
                              !.idle = now + IdleTimeout, !.absolute = now + AbsoluteTimeout]
<1>1. /\ AllOpenFree /\ UNCHANGED <<now, user, members, holder, work, copy>>
      /\ bearers < MaxBearers /\ bearers' = bearers + 1 /\ now + AbsoluteTimeout <= MaxTime
      /\ rows' = [q \in Slots |-> IF q = s THEN n
                                  ELSE IF q \in Surplus THEN [rows[q] EXCEPT !.state = "revoked"]
                                  ELSE rows[q]]
  BY DEF Issue
<1>2. now \in Nat /\ now \in 0..MaxTime /\ user.version \in 0..MaxVersion /\ bearers \in 0..MaxBearers
  <2>1. user.version \in 1..MaxVersion /\ now \in 0..MaxTime /\ bearers \in 0..MaxBearers
    BY Typed
  <2> QED BY <2>1, TimeoutAssumption
<1>3. PICK i \in 0..MaxTime : i = now + IdleTimeout
  BY <1>1, <1>2, TimeoutAssumption
<1>4. PICK a \in 0..MaxTime : a = now + AbsoluteTimeout
  BY <1>1, <1>2, TimeoutAssumption
<1>5. PICK b \in 0..MaxBearers : b = bearers + 1
  BY <1>1, <1>2, TimeoutAssumption
<1>6. n = [state |-> "open", id |-> b, bearer |-> b, sealed |-> FALSE,
           version |-> user.version, created |-> now, seen |-> now, idle |-> i,
           absolute |-> a, member |-> None, memberVersion |-> 0]
  <2>1. n = [NoRow EXCEPT !.state = "open", !.id = b, !.bearer = b, !.version = user.version,
                          !.created = now, !.seen = now, !.idle = i, !.absolute = a]
    BY <1>3, <1>4, <1>5
  <2> HIDE DEF n
  <2> QED BY <2>1 DEF NoRow
<1>7. n \in Records
  <2>1. None \in Selections /\ 0 \in 0..MaxVersion
    BY TimeoutAssumption DEF Selections
  <2> QED BY <1>2, <1>6, <2>1 DEF Records
<1>8. /\ n.version = user.version /\ n.created = now /\ n.seen = now /\ n.idle = i
      /\ n.absolute = a
  BY <1>6
<1> HIDE DEF n
<1>9. ASSUME NEW q \in Slots, q # s
      PROVE  /\ rows'[q] \in Records /\ rows'[q].version = rows[q].version
             /\ rows'[q].created = rows[q].created /\ rows'[q].absolute = rows[q].absolute
             /\ rows'[q].seen = rows[q].seen /\ rows'[q].idle = rows[q].idle
             /\ rows'[q].state # "absent" => rows[q].state # "absent"
  <2>1. rows[q] \in Records
    BY Typed
  <2>2. CASE q \in Surplus
    <3>1. rows[q].state = "open" /\ rows'[q] = [rows[q] EXCEPT !.state = "revoked"]
      BY <1>1, <1>9, <2>2 DEF Surplus, Countable, Open
    <3> QED BY <2>1, <3>1, RevokedForm
  <2>3. CASE q \notin Surplus
    BY <1>1, <1>9, <2>1, <2>3
  <2> QED BY <2>2, <2>3
<1>10. rows'[s] = n
  BY <1>1
<1>11. rows' \in [Slots -> Records]
  BY <1>1, <1>7, <1>9, <1>10
<1>12. VersionsArePast'
  <2>1. user.version <= user.version
    BY <1>2
  <2> QED BY <1>1, <1>8, <1>9, <1>10, <2>1 DEF IndInv, VersionsArePast
<1>13. ExpiryPolicy'
  <2> SUFFICES ASSUME NEW q \in Slots, rows'[q].state # "absent"
               PROVE  /\ rows'[q].absolute = rows'[q].created + AbsoluteTimeout
                      /\ rows'[q].idle <= rows'[q].absolute
                      /\ rows'[q].idle <= rows'[q].seen + IdleTimeout
                      /\ rows'[q].created <= rows'[q].seen /\ rows'[q].seen <= now
    BY <1>1 DEF ExpiryPolicy
  <2>1. CASE q = s
    <3>1. /\ a = now + AbsoluteTimeout /\ i <= a /\ i <= now + IdleTimeout /\ now <= now
      BY <1>2, <1>3, <1>4, TimeoutAssumption
    <3> QED BY <1>8, <1>10, <2>1, <3>1
  <2>2. CASE q # s
    BY <1>9, <2>2 DEF IndInv, ExpiryPolicy
  <2> QED BY <2>1, <2>2
<1>14. bearers' \in 0..MaxBearers /\ user' \in [active : BOOLEAN, version : 1..MaxVersion]
  BY <1>1, <1>5, Typed
<1> QED BY <1>1, <1>11, <1>12, <1>13, <1>14, ManyRowsKeep

(* Every step keeps the invariant, and the first state has it.             *)
LEMMA StepKeeps == IndInv /\ [Next]_vars => IndInv'
<1> SUFFICES ASSUME IndInv, [Next]_vars PROVE IndInv'
  OBVIOUS
<1>1. CASE UNCHANGED vars
  <2>1. now \in Nat /\ user.version \in Nat
    BY Typed
  <2>2. now <= now /\ user.version <= user.version
    BY <2>1
  <2> QED BY <1>1, <2>2, Typed, ContextKeeps DEF vars
<1>2. CASE Tick \/ Suspend \/ Reactivate \/ \E m \in Memberships : ChangeMembership(m)
  BY <1>2, ContextStep, ContextKeeps
<1>3. CASE ReplacePassword \/ RevokeAllSessions \/ \E s \in Slots : Issue(s)
  BY <1>3, RevokeAllKeeps, IssueKeeps
<1>4. CASE \E w \in Workers : \/ Arrive(w) \/ Apply(w) \/ GiveUp(w)
                              \/ \E s \in Slots : OpenSession(w, s)
  BY <1>4, ArriveKeeps, ApplyKeeps, GiveUpKeeps, OpenKeeps
<1> QED BY <1>1, <1>2, <1>3, <1>4 DEF Next

(* At first there are no sessions and no requests.                         *)
LEMMA InitHolds == Init => IndInv
<1> SUFFICES ASSUME Init PROVE IndInv
  OBVIOUS
<1>1. NoWork \in [op : Reads \cup Unsafe \cup {"none"}, bearer : 0..MaxBearers,
                  expected : Selections, target : Selections, slot : Slots \cup {None}]
  BY TimeoutAssumption DEF NoWork, Selections
<1>2. TypeOK /\ copy \in [Workers -> Records]
  <2>1. 1 \in 1..MaxVersion /\ 0 \in 0..MaxTime /\ 0 \in 0..MaxBearers
    BY TimeoutAssumption
  <2>2. rows \in [Slots -> Records] /\ copy \in [Workers -> Records]
    BY NoRowForm DEF Init
  <2> QED BY <1>1, <2>1, <2>2 DEF Init, TypeOK, Records
<1>3. (\A w \in Workers : HeldIsCopied(w)) /\ TargetsAreMemberships
  BY DEF Init, HeldIsCopied, TargetsAreMemberships, NoWork
<1>4. VersionsArePast /\ ExpiryPolicy
  BY NoRowForm DEF Init, VersionsArePast, ExpiryPolicy
<1> QED BY <1>2, <1>3, <1>4 DEF IndInv

(* The invariant holds in every state.                                     *)
LEMMA IndInvAlways == Spec => []IndInv
BY InitHolds, StepKeeps, PTL DEF Spec

-----------------------------------------------------------------------------
(* The rows, the clock and the requests keep their types: no instant a row *)
(* stores leaves the range of the clock.                                   *)
THEOREM TypeCorrect == Spec => []TypeOK
<1>1. IndInv => TypeOK
  BY DEF IndInv
<1> QED BY <1>1, IndInvAlways, PTL

(* The timeout policy of auth.sessions holds of every row, whatever order  *)
(* the requests of one session come and write in.                          *)
THEOREM TimeoutsHold == Spec => []ExpiryPolicy
<1>1. IndInv => ExpiryPolicy
  BY DEF IndInv
<1> QED BY <1>1, IndInvAlways, PTL

(* A record that is not valid does not become so by waiting, by a newer    *)
(* version of its user or by being revoked.                                *)
LEMMA WaitingStaysEnded ==
    ASSUME NEW c \in Records, NEW n, n = c \/ n.state = "revoked",
           NEW t \in Nat, NEW u \in Nat, t <= u,
           NEW v \in Nat, NEW x \in Nat, v <= x, c.version <= v,
           ~IsValid(c, t, v)
    PROVE  ~IsValid(n, u, x)
<1>1. c.version \in Nat /\ c.idle \in Nat /\ c.absolute \in Nat
  BY DEF Records
<1> QED BY <1>1 DEF IsValid

(* What a step can do to a session that is there.                          *)
LEMMA StepsOfASession ==
    ASSUME IndInv, [Next]_vars, NEW s \in Slots, rows[s].state # "absent"
    PROVE  \/ /\ \/ rows'[s] = rows[s]
                 \/ rows[s].state = "open" /\ rows'[s] = [rows[s] EXCEPT !.state = "revoked"]
              /\ now <= now' /\ user.version <= user'.version
           \/ /\ \E w \in Workers : /\ work[w].slot = s
                                     /\ \/ rows'[s].bearer = rows[s].bearer
                                        \/ work[w].op = "switch"
              /\ Follows(rows'[s], rows[s], now) /\ now' = now /\ user' = user
<1>1. now \in Nat /\ user.version \in Nat
  BY Typed
<1>2. now <= now /\ user.version <= user.version
  BY <1>1
<1>3. CASE UNCHANGED vars
  BY <1>2, <1>3 DEF vars
<1>4. CASE Tick \/ Suspend \/ Reactivate \/ \E m \in Memberships : ChangeMembership(m)
  BY <1>4, ContextStep
<1>5. CASE ReplacePassword \/ RevokeAllSessions
  <2>1. PICK v \in Nat : user.version <= v /\ RevokeAll(v)
    BY <1>1, <1>2, <1>5 DEF ReplacePassword, RevokeAllSessions
  <2>2. now' = now /\ user'.version = v
    BY <2>1, Typed DEF RevokeAll
  <2>3. \/ rows'[s] = rows[s]
        \/ rows[s].state = "open" /\ rows'[s] = [rows[s] EXCEPT !.state = "revoked"]
    BY <2>1 DEF RevokeAll, Open
  <2> QED BY <1>2, <2>1, <2>2, <2>3
<1>6. CASE \E q \in Slots : Issue(q)
  BY <1>2, <1>6 DEF Issue, Surplus, Countable, Open
<1>7. ASSUME NEW w \in Workers, Arrive(w) \/ GiveUp(w) \/ \E q \in Slots : OpenSession(w, q)
      PROVE  rows' = rows /\ now' = now /\ user' = user
  BY <1>7 DEF Arrive, Send, GiveUp, OpenSession
<1>8. ASSUME NEW w \in Workers, Apply(w)
      PROVE  \/ rows'[s] = rows[s] /\ now <= now' /\ user.version <= user'.version
             \/ /\ work[w].slot = s /\ Follows(rows'[s], rows[s], now) /\ now' = now /\ user' = user
                /\ rows'[s].bearer = rows[s].bearer \/ work[w].op = "switch"
  <2>1. now' = now /\ user' = user
    BY <1>8 DEF Apply
  <2>2. work[w].slot \in Slots /\ rows \in [Slots -> Records]
    BY <1>8, ApplyForm, Typed
  <2>3. CASE rows' = rows
    BY <1>2, <2>1, <2>3
  <2>4. ASSUME NEW n, Follows(n, rows[work[w].slot], now),
               rows' = [rows EXCEPT ![work[w].slot] = n],
               n.bearer = rows[work[w].slot].bearer \/ work[w].op = "switch"
        PROVE  \/ rows'[s] = rows[s] /\ now <= now' /\ user.version <= user'.version
               \/ /\ work[w].slot = s /\ Follows(rows'[s], rows[s], now) /\ now' = now /\ user' = user
                  /\ rows'[s].bearer = rows[s].bearer \/ work[w].op = "switch"
    <3>1. CASE s = work[w].slot
      BY <2>1, <2>2, <2>4, <3>1
    <3>2. CASE s # work[w].slot
      BY <1>2, <2>1, <2>2, <2>4, <3>2
    <3> QED BY <3>1, <3>2
  <2> QED BY <1>8, <2>3, <2>4, ApplyForm
<1> QED BY <1>2, <1>3, <1>4, <1>5, <1>6, <1>7, <1>8 DEF Next

(* A session that expired, was revoked or fell behind its user's version   *)
(* never becomes valid again, although SessionService.resolve and          *)
(* PostgresSessionStore.replace may still write its row.                   *)
THEOREM EndedSessionsStayEnded == Spec => NoResurrection
<1>1. ASSUME IndInv, [Next]_vars, NEW s \in Slots, Ended(s)
      PROVE  Ended(s)'
  <2>1. /\ rows[s] \in Records /\ now \in Nat /\ now \in 0..MaxTime /\ user.version \in Nat
        /\ rows[s].version <= user.version /\ rows[s].state # "absent"
        /\ ~IsValid(rows[s], now, user.version)
    <3>1. now \in 0..MaxTime /\ user.version \in 1..MaxVersion
      BY <1>1, Typed
    <3> QED BY <1>1, <3>1, Typed DEF IndInv, VersionsArePast, Ended, Valid
  <2>2. now' \in Nat /\ user'.version \in Nat
    <3>1. IndInv'
      BY <1>1, StepKeeps
    <3>2. now' \in 0..MaxTime /\ user' \in [active : BOOLEAN, version : 1..MaxVersion]
      BY <3>1 DEF IndInv, TypeOK
    <3> QED BY <3>2
  <2>3. CASE /\ \/ rows'[s] = rows[s]
                \/ rows[s].state = "open" /\ rows'[s] = [rows[s] EXCEPT !.state = "revoked"]
             /\ now <= now' /\ user.version <= user'.version
    <3>1. rows'[s].state # "absent" /\ (rows'[s] = rows[s] \/ rows'[s].state = "revoked")
      BY <2>1, <2>3, RevokedForm
    <3>2. ~IsValid(rows'[s], now', user'.version)
      BY <2>1, <2>2, <2>3, <3>1, WaitingStaysEnded
    <3> QED BY <3>1, <3>2 DEF Ended, Valid
  <2>4. CASE Follows(rows'[s], rows[s], now) /\ now' = now /\ user' = user
    <3>1. ~IsValid(rows'[s], now, user.version)
      BY <2>1, <2>4, FollowsStaysEnded
    <3>2. rows'[s].state # "absent"
      BY <2>1, <2>4 DEF Follows
    <3> QED BY <2>4, <3>1, <3>2 DEF Ended, Valid
  <2> QED BY <1>1, <2>1, <2>3, <2>4, StepsOfASession
<1>2. IndInv /\ [Next]_vars => [\A s \in Slots : Ended(s) => Ended(s)']_vars
  BY <1>1
<1> QED BY <1>2, IndInvAlways, PTL DEF Spec, NoResurrection

(* The bearer of an open session changes only for a switch that presented  *)
(* the bearer and the membership the row has, and of a session that has its *)
(* CSRF token: of several tabs one wins.                                   *)
THEOREM RotationsAreCompareAndSwap == Spec => RotationIsCompareAndSwap
<1>1. ASSUME IndInv, [Next]_vars, NEW s \in Slots, rows[s].state = "open",
             rows'[s].bearer # rows[s].bearer
      PROVE  /\ rows[s].sealed
             /\ \E w \in Workers : /\ work[w].op = "switch"
                                   /\ work[w].slot = s
                                   /\ work[w].bearer = rows[s].bearer
                                   /\ work[w].expected = rows[s].member
  <2>1. rows[s] \in Records
    BY <1>1, Typed
  <2>2. rows'[s] # rows[s] /\ rows'[s] # [rows[s] EXCEPT !.state = "revoked"]
    BY <1>1, <2>1, RevokedForm
  <2>3. PICK w \in Workers : work[w].slot = s /\ work[w].op = "switch"
    BY <1>1, <2>2, StepsOfASession
  <2>4. s # None
    BY NoneAssumption
  <2> QED BY <1>1, <2>3, <2>4 DEF IndInv, HeldIsCopied, Unsafe
<1>2. IndInv /\ [Next]_vars =>
        [\A s \in Slots :
          rows[s].state = "open" /\ rows'[s].bearer # rows[s].bearer =>
              /\ rows[s].sealed
              /\ \E w \in Workers : /\ work[w].op = "switch"
                                    /\ work[w].slot = s
                                    /\ work[w].bearer = rows[s].bearer
                                    /\ work[w].expected = rows[s].member]_vars
  BY <1>1
<1> QED BY <1>2, IndInvAlways, PTL DEF Spec, RotationIsCompareAndSwap
=============================================================================
