--------------------------- MODULE AccessGate_proofs ---------------------------
(***************************************************************************)
(* Safety of AccessGate for every number of requests, names, states and    *)
(* memberships, and for any quotas.                                        *)
(*                                                                         *)
(* The invariant has three parts that do not depend on one another.  A     *)
(* quota row is counted by one request at a time, and the count that a     *)
(* request was let through with stands until its transaction ends.  A      *)
(* pre-authentication state is open to one request at a time, and has let  *)
(* nobody in while it is not used.  And what a request has to record, or   *)
(* has recorded, is true of what it presented.                             *)
(***************************************************************************)
EXTENDS AccessGate, FiniteSetTheorems, TLAPS

HeaderForms == [unsafe : BOOLEAN, expected : Memberships \cup {None},
                origin : BOOLEAN, csrf : {"missing", "wrong", "right"}]
Asks == [kind : {"none", "call", "preauth", "csrf", "login"}, bearer : Nat,
         headers : HeaderForms, at : Nat, name : Names, state : States]
Sessions == [bearer : Nat, open : BOOLEAN, version : Nat, member : Memberships]
Preauths == [state : {"absent", "issued", "used"}, expires : Nat]

(* Variables that TypeOK leaves open; an event is whatever was denied.     *)
Shapes ==
    /\ pc \in [Requests -> Places]
    /\ trace \in [Requests -> {"none", "event", "diagnostic"}]
    /\ session \in Sessions
    /\ members \in [Memberships -> [active : BOOLEAN, version : Nat]]
    /\ ask \in [Requests -> Asks]
    /\ principal \in [Requests -> [member : Memberships \cup {None}, version : Nat]]
    /\ denial = [r \in Requests |-> denial[r]]
    /\ now \in 0..MaxTime
    /\ bucket \in [Rows -> Nat]
    /\ held \in [Requests -> SUBSET Rows]
    /\ within \in [Requests -> BOOLEAN]
    /\ pending = [r \in Requests |-> pending[r]]
    /\ preauth \in [States -> Preauths]
    /\ holder \in [States -> SUBSET Requests]
    /\ entered \in [States -> SUBSET Requests]

-----------------------------------------------------------------------------
(* Quotas.                                                                 *)

Fresh == {"idle", "sent", "preauth", "consuming", "login_username", "csrf_ip"}
Late == {"throttled", "admitted", "issuing", "done", "rejected", "failed"}

(* The scopes a request counts before it comes to a place.                 *)
RowsInOrder(r) ==
    \A row \in held[r] :
        \/ pc[r] = "login_ip" /\ row[1] = "login_username"
        \/ pc[r] = "login_ip_username" /\ row[1] \in {"login_username", "login_ip"}
        \/ pc[r] = "counted"

WithinMeans(r) == within[r] => \A row \in held[r] : bucket[row] <= Limit[row[1]]

(* Nobody else counts a row that a transaction has counted.                *)
HeldApart == \A r, q \in Requests : r # q => held[r] \cap held[q] = {}

SpentLate == \A x \in spent : x \in [by : Requests, row : Rows] /\ pc[x.by] \in Late

Quotas ==
    /\ \A r \in Requests : RowsInOrder(r) /\ WithinMeans(r)
    /\ HeldApart /\ SpentLate
    /\ EveryAttemptCounts /\ WindowLimit

-----------------------------------------------------------------------------
(* Pre-authentication states.                                              *)

OpenToOne(r) ==
    /\ \A s \in States : r \in holder[s] => /\ pc[r] = "consuming"
                                            /\ ask[r].state = s
                                            /\ preauth[s].state = "issued"
    /\ pc[r] = "consuming" => holder[ask[r].state] = {r}

LetsOneIn(s) == IF preauth[s].state = "used" THEN \E r \in Requests : entered[s] = {r}
                                             ELSE entered[s] = {}

Openings == (\A r \in Requests : OpenToOne(r)) /\ (\A s \in States : LetsOneIn(s))

-----------------------------------------------------------------------------
(* Evidence.                                                               *)

(* An event is true of what the request presented.                         *)
TrueOf(e, h, member) ==
    /\ e.type = "origin_rejected" => ~h.origin
    /\ e.type = "csrf_rejected" => h.origin
    /\ e.reason = {"csrf_missing"} => h.csrf = "missing"
    /\ e.reason = {"csrf_invalid"} => h.csrf = "wrong" \/ h.expected = None
    /\ Given(e.membership) => e.membership = {member}

Throttling(e) ==
    /\ e.type = "throttling_triggered" /\ ~Given(e.membership)
    /\ e.reason \notin {{"csrf_missing"}, {"csrf_invalid"}}

(* A request over its quota has the event of that to commit.               *)
Judged(r) ==
    /\ pc[r] \in Fresh => within[r]
    /\ within[r] => pending[r] = {}
    /\ ~within[r] /\ pc[r] \in Scopes \cup {"counted"} => pending[r] # {}
    /\ \A e \in pending[r] : Throttling(e)

Denials(r) ==
    /\ denial[r] # {} => pc[r] \in {"denied", "refused"}
    /\ \A e \in denial[r] : TrueOf(e, ask[r].headers, principal[r].member)
    /\ pc[r] \in {"authorizing", "allowed"} /\ ask[r].headers.unsafe =>
          /\ ask[r].headers.expected = principal[r].member
          /\ ask[r].headers.origin /\ ask[r].headers.csrf = "right"

Logged(x) ==
    /\ x.by \in Requests /\ pc[x.by] \in {"refused", "throttled"}
    /\ TrueOf(x.event, ask[x.by].headers, principal[x.by].member)

Evidence ==
    /\ \A r \in Requests : Judged(r) /\ Denials(r)
    /\ \A x \in log : Logged(x)
    /\ RefusalsAreRecorded

IndInv == Shapes /\ Quotas /\ Openings /\ Evidence

-----------------------------------------------------------------------------
(* Steps that leave a part of the invariant alone.                         *)

(* Nothing of another request changes.                                     *)
Alone(r) ==
    \A q \in Requests \ {r} :
        /\ pc'[q] = pc[q] /\ ask'[q] = ask[q] /\ principal'[q] = principal[q]
        /\ denial'[q] = denial[q] /\ trace'[q] = trace[q]
        /\ held'[q] = held[q] /\ within'[q] = within[q] /\ pending'[q] = pending[q]

(* Attempts that have committed a row, and those that have it open.        *)
Spenders(row) == {x \in spent : x.row = row}
Holders(row) == {r \in Requests : row \in held[r]}
LetIn(row) == {x \in spent : x.row = row /\ pc[x.by] # "throttled"}

(* There are finitely many of them.                                        *)
LEMMA AttemptsFinite ==
    ASSUME NEW A, A \subseteq [by : Requests, row : Rows], NEW row, \A x \in A : x.row = row
    PROVE  IsFiniteSet(A)
<1> DEFINE f == [r \in Requests |-> [by |-> r, row |-> row]]
           T == {[by |-> r, row |-> row] : r \in Requests}
<1>1. f \in Surjection(Requests, T)
  BY DEF Surjection
<1> HIDE DEF f
<1>2. IsFiniteSet(T)
  BY <1>1, FS_Surjection, RequestAssumption
<1>3. A \subseteq T
  OBVIOUS
<1> HIDE DEF T
<1> QED BY <1>2, <1>3, FS_Subset

(* What is counted of a row is finite.                                     *)
LEMMA CountsFinite ==
    ASSUME SpentLate, NEW row
    PROVE  /\ IsFiniteSet(Spenders(row)) /\ Cardinality(Spenders(row)) \in Nat
           /\ IsFiniteSet(LetIn(row)) /\ Cardinality(LetIn(row)) \in Nat
           /\ Cardinality(LetIn(row)) <= Cardinality(Spenders(row))
           /\ IsFiniteSet(Holders(row)) /\ Cardinality(Holders(row)) \in Nat
<1>1. IsFiniteSet(Spenders(row))
  <2>1. PICK A : A = Spenders(row)
    OBVIOUS
  <2>2. A \subseteq [by : Requests, row : Rows] /\ \A x \in A : x.row = row
    BY <2>1 DEF SpentLate, Spenders
  <2>3. IsFiniteSet(A)
    BY <2>2, AttemptsFinite
  <2> QED BY <2>1, <2>3
<1>2. LetIn(row) \subseteq Spenders(row) /\ Holders(row) \subseteq Requests
  BY DEF LetIn, Spenders, Holders
<1> QED BY <1>1, <1>2, FS_Subset, FS_CardinalityType, RequestAssumption

(* A request that counts no quota moves.                                   *)
LEMMA QuotasStay ==
    ASSUME IndInv, NEW r \in Requests, Alone(r), UNCHANGED <<bucket, held, within, spent>>,
           held[r] = {}, pc[r] # "throttled", pc'[r] # "throttled",
           pc[r] \in Late => pc'[r] \in Late
    PROVE  Quotas'
<1>1. Quotas
  BY DEF IndInv
<1>2. \A q \in Requests : RowsInOrder(q)' /\ WithinMeans(q)'
  BY <1>1 DEF Quotas, RowsInOrder, WithinMeans, Alone
<1>3. HeldApart' /\ EveryAttemptCounts'
  BY <1>1 DEF Quotas, HeldApart, EveryAttemptCounts
<1>4. SpentLate'
  BY <1>1 DEF Quotas, SpentLate, Alone
<1>5. WindowLimit'
  <2>1. ASSUME NEW row \in Rows
        PROVE  {x \in spent' : x.row = row /\ pc'[x.by] # "throttled"}
                 = {x \in spent : x.row = row /\ pc[x.by] # "throttled"}
    <3>1. \A x \in spent : x.by \in Requests
      BY <1>1 DEF Quotas, SpentLate
    <3>2. \A x \in spent : pc'[x.by] # "throttled" <=> pc[x.by] # "throttled"
      BY <3>1 DEF Alone
    <3> QED BY <3>2
  <2> QED BY <1>1, <2>1 DEF Quotas, WindowLimit
<1> QED BY <1>2, <1>3, <1>4, <1>5 DEF Quotas

(* A request that opens no state moves.                                    *)
LEMMA OpeningsStay ==
    ASSUME IndInv, NEW r \in Requests, Alone(r), UNCHANGED <<preauth, holder, entered>>,
           pc[r] # "consuming", pc'[r] # "consuming"
    PROVE  Openings'
BY DEF IndInv, Openings, OpenToOne, LetsOneIn, Alone

(* What one request leaves of its denial.                                  *)
Left(r) ==
    /\ pc[r] = "refused" => \/ trace[r] = "event" /\ denial[r] \subseteq Recorded(r)
                            \/ trace[r] = "diagnostic"
    /\ pc[r] = "throttled" => \E e \in Recorded(r) : e.type = "throttling_triggered"

(* A request that is not yet refused moves.                                *)
LEMMA EvidenceMoves ==
    ASSUME IndInv, NEW r \in Requests, Alone(r), pc[r] \notin {"refused", "throttled"},
           log \subseteq log', \A x \in log' \ log : x.by = r /\ Logged(x)',
           Judged(r)', Denials(r)', Left(r)'
    PROVE  Evidence'
<1>1. Evidence
  BY DEF IndInv
<1>2. ASSUME NEW q \in Requests \ {r} PROVE Judged(q)' /\ Denials(q)' /\ Left(q)'
  <2>1. Judged(q) /\ Denials(q) /\ Left(q)
    BY <1>1 DEF Evidence, RefusalsAreRecorded, Left
  <2>2. Judged(q)' /\ Denials(q)'
    BY <2>1 DEF Judged, Denials, Alone
  <2>3. Recorded(q) \subseteq Recorded(q)'
    BY DEF Recorded
  <2>4. Left(q)'
    BY <2>1, <2>3 DEF Left, Alone
  <2> QED BY <2>2, <2>4
<1>3. ASSUME NEW x \in log PROVE Logged(x)'
  <2>1. Logged(x)
    BY <1>1 DEF Evidence
  <2>2. x.by \in Requests \ {r}
    BY <2>1 DEF Logged
  <2> QED BY <2>1, <2>2 DEF Logged, Alone
<1>4. \A x \in log' : Logged(x)'
  BY <1>3
<1>5. RefusalsAreRecorded'
  <2>1. \A q \in Requests : Left(q)'
    BY <1>2
  <2> QED BY <2>1 DEF RefusalsAreRecorded, Left
<1> QED BY <1>2, <1>4, <1>5 DEF Evidence

Judgements == {"denied", "refused", "throttled", "authorizing", "allowed"}

(* A request that is neither denied nor authorised moves.                  *)
LEMMA EvidenceStays ==
    ASSUME IndInv, NEW r \in Requests, Alone(r), log' = log, denial'[r] = denial[r],
           pc[r] \notin Judgements, pc'[r] \notin Judgements, Judged(r)'
    PROVE  Evidence'
<1>1. denial[r] = {}
  BY DEF IndInv, Evidence, Denials, Judgements
<1>2. Denials(r)' /\ Left(r)'
  BY <1>1 DEF Denials, Left, Judgements
<1> QED BY <1>2, EvidenceMoves DEF Judgements

(* A request that counts no quota keeps its judgement.                     *)
LEMMA JudgedStays ==
    ASSUME IndInv, NEW r \in Requests, UNCHANGED <<within, pending>>,
           pc'[r] \in Fresh \cup Scopes \cup {"counted"} => pc[r] \in Fresh
    PROVE  Judged(r)'
BY DEF IndInv, Evidence, Judged

(* The requests, and what they have counted and opened, stay as they are.  *)
LEMMA AllStays ==
    ASSUME IndInv, UNCHANGED <<pc, ask, principal, denial, trace, log, gateVars>>
    PROVE  Quotas' /\ Openings' /\ Evidence'
<1>1. UNCHANGED <<bucket, held, within, pending, preauth, holder, spent, entered>>
  BY DEF gateVars
<1>2. Quotas'
  BY <1>1 DEF IndInv, Quotas, RowsInOrder, WithinMeans, HeldApart, SpentLate,
     EveryAttemptCounts, WindowLimit
<1>3. Openings'
  BY <1>1 DEF IndInv, Openings, OpenToOne, LetsOneIn
<1>4. Evidence'
  <2>1. \A r \in Requests : Judged(r)' /\ Denials(r)'
    BY <1>1 DEF IndInv, Evidence, Judged, Denials
  <2>2. \A x \in log' : Logged(x)'
    BY DEF IndInv, Evidence, Logged
  <2>3. RefusalsAreRecorded'
    BY DEF IndInv, Evidence, RefusalsAreRecorded, Recorded
  <2> QED BY <2>1, <2>2, <2>3 DEF Evidence
<1> QED BY <1>2, <1>3, <1>4

-----------------------------------------------------------------------------
(* Requests to a route that requires a permission.                         *)

(* The events of rejected requests.                                        *)
LEMMA EventForm ==
    ASSUME NEW type, NEW reason
    PROVE  /\ Denied(type, reason).type = type /\ Denied(type, reason).reason = {reason}
           /\ Denied(type, reason).membership = {}
           /\ OfSession(Denied(type, reason)).type = type
           /\ OfSession(Denied(type, reason)).reason = {reason}
           /\ OfSession(Denied(type, reason)).membership = {}
BY DEF Denied, OfSession, SecurityAuditEvent, Null

(* The event of a denied permission names the principal's membership.      *)
LEMMA AuthorizationForm ==
    ASSUME NEW p
    PROVE  /\ AuthorizationDenial(p).type = "authorization_denied"
           /\ AuthorizationDenial(p).reason = {"permission_denied"}
           /\ AuthorizationDenial(p).membership = {p.member}
BY DEF AuthorizationDenial, Denied, OfSession, SecurityAuditEvent, Null

(* What requests present is of its type.                                   *)
LEMMA AskedForm ==
    ASSUME IndInv, NEW a \in Asked
    PROVE  a \in Asks
<1>1. session.bearer \in Nat
  BY DEF IndInv, Shapes, Sessions
<1>2. PICK n \in Names, s \in States : Nothing =
        [kind |-> "none", bearer |-> 0, headers |-> NoHeaders, at |-> 0, name |-> n, state |-> s]
  <2>1. (CHOOSE n \in Names : TRUE) \in Names /\ (CHOOSE s \in States : TRUE) \in States
    BY PolicyAssumption
  <2> QED BY <2>1 DEF Nothing
<1>3. NoHeaders \in HeaderForms
  BY DEF NoHeaders, HeaderForms
<1>4. Headers \subseteq HeaderForms
  BY RequestAssumption DEF HeaderForms
<1>5. ASSUME NEW h \in Headers, a = CallOf(h) PROVE a \in Asks
  <2>1. a = [kind |-> "call", bearer |-> session.bearer, headers |-> h, at |-> 0,
             name |-> n, state |-> s]
    BY <1>2, <1>5 DEF CallOf
  <2> QED BY <1>1, <1>4, <2>1 DEF Asks
<1>6. ASSUME NEW kind \in {"preauth", "csrf"}, NEW origin \in BOOLEAN,
             a = BootstrapOf(kind, origin)
      PROVE  a \in Asks
  <2>1. PICK h \in HeaderForms : h = [NoHeaders EXCEPT !.origin = origin]
    BY <1>3 DEF HeaderForms
  <2>2. a = [kind |-> kind, bearer |-> session.bearer, headers |-> h, at |-> 0,
             name |-> n, state |-> s]
    BY <1>2, <1>6, <2>1 DEF BootstrapOf
  <2> QED BY <1>1, <2>2 DEF Asks
<1>7. ASSUME NEW x \in Names, NEW t \in States, NEW h \in Headers, a = LoginOf(x, t, h)
      PROVE  a \in Asks
  <2>1. PICK g \in HeaderForms : g = [h EXCEPT !.expected = None]
    BY <1>4 DEF HeaderForms
  <2>2. a = [kind |-> "login", bearer |-> 0, headers |-> g, at |-> 0, name |-> x, state |-> t]
    BY <1>2, <1>7, <2>1 DEF LoginOf
  <2> QED BY <2>2 DEF Asks
<1> QED BY <1>5, <1>6, <1>7 DEF Asked

(* A request is sent.                                                      *)
LEMMA SendKeeps ==
    ASSUME IndInv, NEW r \in Requests, Send(r)
    PROVE  IndInv'
<1>1. PICK a \in Asks : ask' = [ask EXCEPT ![r] = a]
  BY AskedForm DEF Send
<1>2. /\ pc[r] = "idle" /\ pc' = [pc EXCEPT ![r] = "sent"]
      /\ UNCHANGED <<session, members, principal, denial, trace, log, now, bucket, held,
                     within, pending, preauth, holder, spent, entered>>
  BY DEF Send, Goes, callVars, gateVars
<1>3. Shapes'
  BY <1>1, <1>2 DEF IndInv, Shapes, Places
<1>4. Alone(r) /\ pc'[r] = "sent" /\ held[r] = {}
  BY <1>1, <1>2 DEF IndInv, Shapes, Quotas, RowsInOrder, Alone
<1>5. Quotas'
  BY <1>2, <1>4, QuotasStay DEF Late
<1>6. Openings'
  BY <1>2, <1>4, OpeningsStay
<1>7. Judged(r)'
  BY <1>2, <1>4, JudgedStays DEF Fresh
<1>8. Evidence'
  BY <1>2, <1>4, <1>7, EvidenceStays DEF Judgements
<1> QED BY <1>3, <1>5, <1>6, <1>8 DEF IndInv

Calls == {"sent", "checking", "authorizing", "denied"}

(* A request that goes on to a permission, or is denied, holds nothing.    *)
LEMMA CallMoves ==
    ASSUME IndInv, NEW r \in Requests, pc[r] \in Calls, NEW place \in Places,
           place \in {"rejected", "denied", "checking", "authorizing", "allowed", "refused"},
           Goes(r, place), UNCHANGED <<callVars, gateVars, now, ask>>,
           principal' \in [Requests -> [member : Memberships \cup {None}, version : Nat]],
           trace' \in [Requests -> {"none", "event", "diagnostic"}],
           denial' = [q \in Requests |-> denial'[q]],
           \A q \in Requests \ {r} : /\ principal'[q] = principal[q] /\ trace'[q] = trace[q]
                                     /\ denial'[q] = denial[q],
           log \subseteq log', \A x \in log' \ log : x.by = r /\ Logged(x)',
           Denials(r)', Left(r)'
    PROVE  IndInv'
<1>1. UNCHANGED <<session, members, now, bucket, held, within, pending, preauth, holder,
                  spent, entered>>
  BY DEF callVars, gateVars
<1>2. pc' = [pc EXCEPT ![r] = place]
  BY DEF Goes
<1>3. Shapes'
  BY <1>1, <1>2 DEF IndInv, Shapes
<1>4. Alone(r) /\ pc'[r] = place /\ held[r] = {}
  BY <1>1, <1>2 DEF IndInv, Shapes, Quotas, RowsInOrder, Alone, Calls
<1>5. Quotas'
  BY <1>1, <1>4, QuotasStay DEF Late, Calls
<1>6. Openings'
  BY <1>1, <1>4, OpeningsStay DEF Calls
<1>7. Judged(r)'
  BY <1>1, <1>4, JudgedStays DEF Fresh, Scopes
<1>8. Evidence'
  BY <1>4, <1>7, EvidenceMoves DEF Calls
<1> QED BY <1>3, <1>5, <1>6, <1>8 DEF IndInv

(* A request is denied, with an event that is true of it.                  *)
LEMMA DenyKeeps ==
    ASSUME IndInv, NEW r \in Requests, pc[r] \in Calls, NEW e, Deny(r, e),
           UNCHANGED <<callVars, gateVars, now, ask, principal, trace, log>>,
           TrueOf(e, ask[r].headers, principal[r].member)
    PROVE  IndInv'
<1>1. denial' = [denial EXCEPT ![r] = {e}] /\ Goes(r, "denied")
  BY DEF Deny
<1>2. PICK place \in Places : place = "denied"
  BY DEF Places
<1>3. /\ denial' = [q \in Requests |-> denial'[q]] /\ denial'[r] = {e}
      /\ \A q \in Requests \ {r} : denial'[q] = denial[q]
  BY <1>1 DEF IndInv, Shapes
<1>4. pc'[r] = "denied"
  BY <1>1 DEF Goes, IndInv, Shapes
<1>5. Denials(r)' /\ Left(r)'
  BY <1>3, <1>4 DEF Denials, Left
<1>6. Goes(r, place)
  BY <1>1, <1>2
<1> QED BY <1>2, <1>3, <1>5, <1>6, CallMoves DEF IndInv, Shapes

(* A request goes on, or is turned away, without a denial.                 *)
LEMMA PassKeeps ==
    ASSUME IndInv, NEW r \in Requests, pc[r] \in Calls \ {"denied"},
           NEW place \in {"rejected", "checking", "authorizing", "allowed"}, Goes(r, place),
           UNCHANGED <<callVars, gateVars, now, ask, denial, trace, log>>,
           principal' \in [Requests -> [member : Memberships \cup {None}, version : Nat]],
           \A q \in Requests \ {r} : principal'[q] = principal[q],
           Denials(r)'
    PROVE  IndInv'
<1>1. place \in Places
  BY DEF Places, Answers
<1>2. pc'[r] = place
  BY DEF Goes, IndInv, Shapes
<1>3. Left(r)'
  BY <1>2 DEF Left
<1>4. trace' \in [Requests -> {"none", "event", "diagnostic"}] /\ denial' = [q \in Requests |-> denial'[q]]
  BY DEF IndInv, Shapes
<1> QED BY <1>1, <1>3, <1>4, CallMoves

(* trusted_access_from_bearer                                              *)
LEMMA AuthenticateKeeps ==
    ASSUME IndInv, NEW r \in Requests, Authenticate(r), UNCHANGED <<gateVars, now>>
    PROVE  IndInv'
<1>1. pc[r] = "sent" /\ UNCHANGED <<callVars, ask, trace, log>>
  BY DEF Authenticate
<1>2. denial[r] = {} /\ pc[r] \in Calls \ {"denied"}
  BY <1>1 DEF IndInv, Evidence, Denials, Calls
<1>3. CASE Goes(r, "rejected") /\ UNCHANGED <<principal, denial>>
  <2>1. pc'[r] = "rejected"
    BY <1>3 DEF Goes, IndInv, Shapes
  <2>2. Denials(r)'
    BY <1>2, <1>3, <2>1 DEF Denials
  <2>3. PICK place \in {"rejected", "checking", "authorizing", "allowed"} : place = "rejected"
    OBVIOUS
  <2>4. Goes(r, place)
    BY <1>3, <2>3
  <2> QED BY <1>1, <1>2, <1>3, <2>2, <2>4, PassKeeps DEF IndInv, Shapes
<1>4. CASE Deny(r, OfSession(MembershipDenial)) /\ UNCHANGED principal
  <2>1. PICK e : e = OfSession(MembershipDenial)
    OBVIOUS
  <2>2. e.type = "membership_denied" /\ e.reason = {"membership_unavailable"} /\ e.membership = {}
    BY <2>1, EventForm DEF MembershipDenial
  <2>3. TrueOf(e, ask[r].headers, principal[r].member)
    BY <2>2 DEF TrueOf, Given, Null
  <2>4. Deny(r, e)
    BY <1>4, <2>1
  <2> QED BY <1>1, <1>2, <1>4, <2>3, <2>4, DenyKeeps
<1>5. CASE /\ Goes(r, "checking")
           /\ principal' = [principal EXCEPT ![r] = Principal]
           /\ UNCHANGED denial
  <2>1. Principal \in [member : Memberships \cup {None}, version : Nat]
    BY DEF Principal, IndInv, Shapes, Sessions
  <2>2. /\ principal' \in [Requests -> [member : Memberships \cup {None}, version : Nat]]
        /\ \A q \in Requests \ {r} : principal'[q] = principal[q]
    BY <1>5, <2>1 DEF IndInv, Shapes
  <2>3. pc'[r] = "checking"
    BY <1>5 DEF Goes, IndInv, Shapes
  <2>4. Denials(r)'
    BY <1>2, <1>5, <2>3 DEF Denials
  <2>5. PICK place \in {"rejected", "checking", "authorizing", "allowed"} : place = "checking"
    OBVIOUS
  <2>6. Goes(r, place)
    BY <1>5, <2>5
  <2> QED BY <1>1, <1>2, <1>5, <2>2, <2>4, <2>6, PassKeeps
<1> QED BY <1>3, <1>4, <1>5 DEF Authenticate

(* What a rejected token records is what was presented.                    *)
LEMMA CsrfDenialTrue ==
    ASSUME NEW h \in HeaderForms, NEW m, h.expected = None \/ ~SessionCsrf(h)
    PROVE  TrueOf(OfSession(CsrfDenial(h)), h, m)
<1>1. CASE ~h.origin
  <2>1. PICK e : e = OfSession(Denied("origin_rejected", "origin_denied"))
    OBVIOUS
  <2>2. e.type = "origin_rejected" /\ e.reason = {"origin_denied"} /\ e.membership = {}
    BY <2>1, EventForm
  <2>3. TrueOf(e, h, m)
    BY <1>1, <2>2 DEF TrueOf, Given, Null
  <2> QED BY <1>1, <2>1, <2>3 DEF CsrfDenial
<1>2. CASE h.origin /\ h.csrf = "missing"
  <2>1. PICK e : e = OfSession(Denied("csrf_rejected", "csrf_missing"))
    OBVIOUS
  <2>2. e.type = "csrf_rejected" /\ e.reason = {"csrf_missing"} /\ e.membership = {}
    BY <2>1, EventForm
  <2>3. TrueOf(e, h, m)
    BY <1>2, <2>2 DEF TrueOf, Given, Null
  <2> QED BY <1>2, <2>1, <2>3 DEF CsrfDenial
<1>3. CASE h.origin /\ h.csrf # "missing"
  <2>1. PICK e : e = OfSession(Denied("csrf_rejected", "csrf_invalid"))
    OBVIOUS
  <2>2. e.type = "csrf_rejected" /\ e.reason = {"csrf_invalid"} /\ e.membership = {}
    BY <2>1, EventForm
  <2>3. h.csrf = "wrong" \/ h.expected = None
    BY <1>3 DEF SessionCsrf, HeaderForms
  <2>4. TrueOf(e, h, m)
    BY <1>3, <2>2, <2>3 DEF TrueOf, Given, Null
  <2> QED BY <1>3, <2>1, <2>4 DEF CsrfDenial
<1> QED BY <1>1, <1>2, <1>3 DEF HeaderForms

(* require_authenticated_access                                            *)
LEMMA CheckKeeps ==
    ASSUME IndInv, NEW r \in Requests, Check(r), UNCHANGED <<gateVars, now>>
    PROVE  IndInv'
<1>1. pc[r] = "checking" /\ UNCHANGED <<callVars, ask, principal, trace, log>>
  BY DEF Check
<1>2. denial[r] = {} /\ pc[r] \in Calls \ {"denied"}
  BY <1>1 DEF IndInv, Evidence, Denials, Calls
<1>3. PICK h \in HeaderForms : h = ask[r].headers
  BY DEF IndInv, Shapes, Asks
<1>4. CASE Deny(r, OfSession(MembershipDenial))
  <2>1. PICK e : e = OfSession(MembershipDenial)
    OBVIOUS
  <2>2. e.type = "membership_denied" /\ e.reason = {"membership_unavailable"} /\ e.membership = {}
    BY <2>1, EventForm DEF MembershipDenial
  <2>3. TrueOf(e, ask[r].headers, principal[r].member)
    BY <2>2 DEF TrueOf, Given, Null
  <2>4. Deny(r, e)
    BY <1>4, <2>1
  <2> QED BY <1>1, <1>2, <2>3, <2>4, DenyKeeps
<1>5. CASE (h.expected = None \/ ~SessionCsrf(h)) /\ Deny(r, OfSession(CsrfDenial(h)))
  <2>1. PICK e : e = OfSession(CsrfDenial(h))
    OBVIOUS
  <2>2. TrueOf(e, ask[r].headers, principal[r].member)
    BY <1>3, <1>5, <2>1, CsrfDenialTrue
  <2>3. Deny(r, e)
    BY <1>5, <2>1
  <2> QED BY <1>1, <1>2, <2>2, <2>3, DenyKeeps
<1>6. CASE /\ ExpectedMembership(h, principal[r].member) /\ SessionCsrf(h)
           /\ Goes(r, "authorizing") /\ UNCHANGED denial
  <2>1. Denials(r)'
    BY <1>1, <1>2, <1>3, <1>6 DEF Denials, ExpectedMembership, SessionCsrf
  <2>2. PICK place \in {"rejected", "checking", "authorizing", "allowed"} : place = "authorizing"
    OBVIOUS
  <2>3. Goes(r, place)
    BY <1>6, <2>2
  <2> QED BY <1>1, <1>2, <1>6, <2>1, <2>3, PassKeeps DEF IndInv, Shapes
<1> QED BY <1>3, <1>4, <1>5, <1>6 DEF Check

(* require_permission                                                      *)
LEMMA AuthorizeKeeps ==
    ASSUME IndInv, NEW r \in Requests, Authorize(r), UNCHANGED <<gateVars, now>>
    PROVE  IndInv'
<1>1. pc[r] = "authorizing" /\ UNCHANGED <<callVars, ask, principal, trace, log>>
  BY DEF Authorize
<1>2. denial[r] = {} /\ pc[r] \in Calls \ {"denied"}
  BY <1>1 DEF IndInv, Evidence, Denials, Calls
<1>3. CASE Goes(r, "allowed") /\ UNCHANGED denial
  <2>1. Denials(r)'
    BY <1>1, <1>2, <1>3 DEF IndInv, Evidence, Denials
  <2>2. PICK place \in {"rejected", "checking", "authorizing", "allowed"} : place = "allowed"
    OBVIOUS
  <2>3. Goes(r, place)
    BY <1>3, <2>2
  <2> QED BY <1>1, <1>2, <1>3, <2>1, <2>3, PassKeeps DEF IndInv, Shapes
<1>4. CASE Deny(r, AuthorizationDenial(principal[r]))
  <2>1. PICK p : p = principal[r]
    OBVIOUS
  <2>2. PICK e : e = AuthorizationDenial(p)
    OBVIOUS
  <2>3. e.type = "authorization_denied" /\ e.reason = {"permission_denied"} /\ e.membership = {p.member}
    BY <2>2, AuthorizationForm
  <2>4. TrueOf(e, ask[r].headers, principal[r].member)
    BY <2>1, <2>3 DEF TrueOf, Given, Null
  <2>5. Deny(r, e)
    BY <1>4, <2>1, <2>2
  <2> QED BY <1>1, <1>2, <2>4, <2>5, DenyKeeps
<1> QED BY <1>3, <1>4 DEF Authorize

(* SecurityDenialAuditor: the event is written, or its loss is reported.   *)
LEMMA RefusalKeeps ==
    ASSUME IndInv, NEW r \in Requests, RecordDenial(r) \/ LoseDenial(r), UNCHANGED <<gateVars, now>>
    PROVE  IndInv'
<1>1. /\ pc[r] = "denied" /\ Goes(r, "refused") /\ UNCHANGED <<callVars, ask, principal, denial>>
      /\ pc'[r] = "refused"
  BY DEF RecordDenial, LoseDenial, Goes, IndInv, Shapes
<1>2. pc[r] \in Calls
  BY <1>1 DEF Calls
<1>3. Denials(r)'
  BY <1>1 DEF IndInv, Evidence, Denials
<1>4. /\ trace' \in [Requests -> {"none", "event", "diagnostic"}]
      /\ \A q \in Requests \ {r} : trace'[q] = trace[q]
  BY DEF RecordDenial, LoseDenial, IndInv, Shapes
<1>5. log \subseteq log' /\ \A x \in log' \ log : x.by = r /\ x.event \in denial[r]
  BY DEF RecordDenial, LoseDenial, Entries
<1>6. ASSUME NEW x \in log' \ log PROVE Logged(x)'
  BY <1>1, <1>3, <1>5 DEF Logged, Denials
<1>7. Left(r)'
  <2>1. CASE RecordDenial(r)
    <3>1. trace'[r] = "event" /\ log' = log \cup Entries(r, denial[r])
      BY <2>1 DEF RecordDenial, IndInv, Shapes
    <3>2. ASSUME NEW e \in denial[r] PROVE e \in Recorded(r)'
      <4>1. PICK x : x = [by |-> r, event |-> e]
        OBVIOUS
      <4>2. x \in log' /\ x.by = r /\ x.event = e
        BY <3>1, <4>1 DEF Entries
      <4> QED BY <4>2 DEF Recorded
    <3> QED BY <1>1, <3>1, <3>2 DEF Left
  <2>2. CASE LoseDenial(r)
    BY <1>1, <2>2 DEF LoseDenial, Left, IndInv, Shapes
  <2> QED BY <2>1, <2>2
<1>8. PICK place \in Places : place = "refused"
  BY DEF Places, Answers
<1>9. Goes(r, place)
  BY <1>1, <1>8
<1>10. \A x \in log' \ log : x.by = r /\ Logged(x)'
  BY <1>5, <1>6
<1> QED BY <1>1, <1>2, <1>3, <1>4, <1>5, <1>7, <1>8, <1>9, <1>10, CallMoves DEF IndInv, Shapes

(* A step of a request to a route that requires a permission.              *)
LEMMA CallKeeps ==
    ASSUME IndInv, NEW r \in Requests, Call(r)
    PROVE  IndInv'
BY AuthenticateKeeps, CheckKeeps, AuthorizeKeeps, RefusalKeeps DEF Call, CallStep

-----------------------------------------------------------------------------
(* Requests without a session.                                             *)

(* A request moves between transactions, and holds nothing.                *)
LEMMA GateMoves ==
    ASSUME IndInv, NEW r \in Requests, pc[r] \in {"sent", "preauth", "issuing"},
           NEW place \in {"rejected", "preauth", "csrf_ip", "done"}, Goes(r, place),
           place \in {"preauth", "csrf_ip"} => pc[r] = "sent",
           UNCHANGED <<callVars, gateVars, now, principal, denial, trace, log>>,
           ask' \in [Requests -> Asks], \A q \in Requests \ {r} : ask'[q] = ask[q]
    PROVE  IndInv'
<1>1. UNCHANGED <<session, members, now, bucket, held, within, pending, preauth, holder,
                  spent, entered>>
  BY DEF callVars, gateVars
<1>2. pc' = [pc EXCEPT ![r] = place] /\ place \in Places
  BY DEF Goes, Places, Answers, Scopes
<1>3. Shapes'
  BY <1>1, <1>2 DEF IndInv, Shapes
<1>4. Alone(r) /\ pc'[r] = place /\ held[r] = {}
  BY <1>1, <1>2 DEF IndInv, Shapes, Quotas, RowsInOrder, Alone
<1>5. Quotas'
  BY <1>1, <1>4, QuotasStay DEF Late
<1>6. Openings'
  BY <1>1, <1>4, OpeningsStay
<1>7. Judged(r)'
  BY <1>1, <1>4, JudgedStays DEF Fresh, Scopes
<1>8. Evidence'
  BY <1>4, <1>7, EvidenceStays DEF Judgements
<1> QED BY <1>3, <1>5, <1>6, <1>8 DEF IndInv

(* A request notes the time its next statement begins.                     *)
LEMMA ClockRead ==
    ASSUME IndInv, NEW r \in Requests, ask' = [ask EXCEPT ![r].at = now]
    PROVE  ask' \in [Requests -> Asks] /\ \A q \in Requests \ {r} : ask'[q] = ask[q]
<1>1. now \in Nat /\ ask \in [Requests -> Asks]
  BY DEF IndInv, Shapes
<1>2. PICK a \in Asks : a = [ask[r] EXCEPT !.at = now]
  BY <1>1 DEF Asks
<1> QED BY <1>1, <1>2

(* The checks before any transaction.                                      *)
LEMMA EnterKeeps ==
    ASSUME IndInv, NEW r \in Requests, Enter(r)
    PROVE  IndInv'
<1>1. pc[r] = "sent" /\ UNCHANGED <<callVars, gateVars, now, principal, trace, log>>
  BY DEF Enter
<1>2. CASE /\ ~ask[r].headers.origin /\ UNCHANGED ask
           /\ Deny(r, Denied("origin_rejected", "origin_denied"))
  <2>1. PICK e : e = Denied("origin_rejected", "origin_denied")
    OBVIOUS
  <2>2. e.type = "origin_rejected" /\ e.reason = {"origin_denied"} /\ e.membership = {}
    BY <2>1, EventForm
  <2>3. TrueOf(e, ask[r].headers, principal[r].member)
    BY <1>2, <2>2 DEF TrueOf, Given, Null
  <2>4. Deny(r, e) /\ pc[r] \in Calls
    BY <1>1, <1>2, <2>1 DEF Calls
  <2> QED BY <1>1, <1>2, <2>3, <2>4, DenyKeeps
<1>3. CASE Goes(r, "rejected") /\ UNCHANGED <<ask, denial>>
  <2>1. PICK place \in {"rejected", "preauth", "csrf_ip", "done"} : place = "rejected"
    OBVIOUS
  <2>2. Goes(r, place) /\ (place \in {"preauth", "csrf_ip"} => pc[r] = "sent")
    BY <1>3, <2>1
  <2> QED BY <1>1, <1>3, <2>2, GateMoves DEF IndInv, Shapes
<1>4. CASE /\ Goes(r, IF ask[r].kind = "login" THEN "preauth" ELSE "csrf_ip")
           /\ ask' = [ask EXCEPT ![r].at = now]
           /\ UNCHANGED denial
  <2>1. PICK place \in {"rejected", "preauth", "csrf_ip", "done"} :
          place = IF ask[r].kind = "login" THEN "preauth" ELSE "csrf_ip"
    OBVIOUS
  <2>2. Goes(r, place)
    BY <1>4, <2>1
  <2>3. ask' \in [Requests -> Asks] /\ \A q \in Requests \ {r} : ask'[q] = ask[q]
    BY <1>4, ClockRead
  <2> QED BY <1>1, <1>4, <2>2, <2>3, GateMoves
<1> QED BY <1>2, <1>3, <1>4 DEF Enter

(* SessionService.consume_preauth locks and reads the row of the state.    *)
LEMMA OpenKeeps ==
    ASSUME IndInv, NEW r \in Requests, OpenState(r)
    PROVE  IndInv'
<1>1. /\ pc[r] = "preauth" /\ holder[ask[r].state] = {}
      /\ UNCHANGED <<callVars, bucket, held, within, pending, preauth, spent, entered,
                     now, ask, principal, denial, trace, log>>
  BY DEF OpenState
<1>2. CASE Goes(r, "rejected") /\ UNCHANGED holder
  <2>1. PICK place \in {"rejected", "preauth", "csrf_ip", "done"} : place = "rejected"
    OBVIOUS
  <2>2. Goes(r, place) /\ (place \in {"preauth", "csrf_ip"} => pc[r] = "sent")
    BY <1>2, <2>1
  <2>3. UNCHANGED <<callVars, gateVars, now, principal, denial, trace, log>>
    BY <1>1, <1>2 DEF gateVars
  <2>4. ask' \in [Requests -> Asks] /\ \A q \in Requests \ {r} : ask'[q] = ask[q]
    BY <1>1 DEF IndInv, Shapes
  <2> QED BY <1>1, <2>2, <2>3, <2>4, GateMoves
<1>3. CASE /\ preauth[ask[r].state].state = "issued" /\ Goes(r, "consuming")
           /\ holder' = [holder EXCEPT ![ask[r].state] = {r}]
  <2>1. PICK s \in States : s = ask[r].state
    BY DEF IndInv, Shapes, Asks
  <2>2. /\ pc' = [pc EXCEPT ![r] = "consuming"]
        /\ UNCHANGED <<session, members>>
    BY <1>1, <1>3 DEF Goes, callVars
  <2>3. Shapes'
    BY <1>1, <1>3, <2>1, <2>2 DEF IndInv, Shapes, Places
  <2>4. /\ Alone(r) /\ pc'[r] = "consuming" /\ held[r] = {}
        /\ holder'[s] = {r} /\ \A t \in States \ {s} : holder'[t] = holder[t]
    BY <1>1, <1>3, <2>1, <2>2 DEF IndInv, Shapes, Quotas, RowsInOrder, Alone
  <2>5. Quotas'
    BY <1>1, <2>4, QuotasStay DEF Late
  <2>6. Openings'
    <3>1. ASSUME NEW q \in Requests PROVE OpenToOne(q)'
      <4>1. OpenToOne(q)
        BY DEF IndInv, Openings
      <4>2. CASE q = r
        BY <1>1, <1>3, <2>1, <2>4, <4>1, <4>2 DEF OpenToOne
      <4>3. CASE q # r
        <5>1. pc[q] = "consuming" => ask[q].state # s /\ ask[q].state \in States
          BY <1>1, <2>1, <4>1 DEF OpenToOne, IndInv, Shapes, Asks
        <5> QED BY <1>1, <2>4, <4>1, <4>3, <5>1 DEF OpenToOne, Alone
      <4> QED BY <4>2, <4>3
    <3>2. \A t \in States : LetsOneIn(t)'
      BY <1>1 DEF IndInv, Openings, LetsOneIn
    <3> QED BY <3>1, <3>2 DEF Openings
  <2>7. Judged(r)'
    BY <1>1, <2>4, JudgedStays DEF Fresh, Scopes
  <2>8. Evidence'
    BY <1>1, <2>4, <2>7, EvidenceStays DEF Judgements
  <2> QED BY <2>3, <2>5, <2>6, <2>8 DEF IndInv
<1> QED BY <1>2, <1>3 DEF OpenState

(* The state is used up.                                                   *)
LEMMA ConsumeStateKeeps ==
    ASSUME IndInv, NEW r \in Requests, ConsumeState(r)
    PROVE  IndInv'
<1>1. /\ pc[r] = "consuming" /\ pc' = [pc EXCEPT ![r] = "login_username"]
      /\ UNCHANGED <<session, members, bucket, held, within, pending, spent,
                     now, principal, denial, trace, log>>
      /\ ask' \in [Requests -> Asks] /\ \A q \in Requests \ {r} : ask'[q] = ask[q]
  BY ClockRead DEF ConsumeState, Goes, callVars
<1>2. PICK s \in States : s = ask[r].state
  BY DEF IndInv, Shapes, Asks
<1>3. /\ preauth' = [preauth EXCEPT ![s].state = "used"]
      /\ holder' = [holder EXCEPT ![s] = {}]
      /\ entered' = [entered EXCEPT ![s] = entered[s] \cup {r}]
  BY <1>2 DEF ConsumeState
<1>4. holder[s] = {r} /\ preauth[s].state = "issued" /\ entered[s] = {}
  BY <1>1, <1>2 DEF IndInv, Openings, OpenToOne, LetsOneIn
<1>5. PICK p \in Preauths : p = [preauth[s] EXCEPT !.state = "used"] /\ p.state = "used"
  <2>1. preauth[s] \in Preauths
    BY DEF IndInv, Shapes
  <2>2. [preauth[s] EXCEPT !.state = "used"] \in Preauths
    BY <2>1 DEF Preauths
  <2>3. [preauth[s] EXCEPT !.state = "used"].state = "used"
    BY <2>1 DEF Preauths
  <2> QED BY <2>2, <2>3
<1>6. preauth' = [preauth EXCEPT ![s] = p] /\ entered' = [entered EXCEPT ![s] = {r}]
  <2>1. preauth' = [preauth EXCEPT ![s] = p]
    BY <1>3, <1>5
  <2>2. entered[s] \cup {r} = {r}
    BY <1>4
  <2> QED BY <1>3, <2>1, <2>2
<1>7. Shapes'
  <2>1. /\ preauth' \in [States -> Preauths] /\ holder' \in [States -> SUBSET Requests]
        /\ entered' \in [States -> SUBSET Requests]
    <3>1. /\ preauth \in [States -> Preauths] /\ holder \in [States -> SUBSET Requests]
          /\ entered \in [States -> SUBSET Requests]
      BY DEF IndInv, Shapes
    <3> QED BY <1>3, <1>6, <3>1
  <2>2. pc' \in [Requests -> Places]
    BY <1>1 DEF IndInv, Shapes, Places, Scopes
  <2> QED BY <1>1, <2>1, <2>2 DEF IndInv, Shapes
<1>8. /\ Alone(r) /\ pc'[r] = "login_username" /\ held[r] = {}
      /\ holder'[s] = {} /\ preauth'[s].state = "used" /\ entered'[s] = {r}
      /\ \A t \in States \ {s} : /\ holder'[t] = holder[t] /\ preauth'[t] = preauth[t]
                                 /\ entered'[t] = entered[t]
  <2>1. Alone(r) /\ pc'[r] = "login_username" /\ held[r] = {}
    BY <1>1 DEF IndInv, Shapes, Quotas, RowsInOrder, Alone
  <2>2. /\ holder'[s] = {} /\ entered'[s] = {r}
        /\ \A t \in States \ {s} : holder'[t] = holder[t] /\ entered'[t] = entered[t]
    BY <1>3, <1>6 DEF IndInv, Shapes
  <2>3. preauth'[s] = p /\ \A t \in States \ {s} : preauth'[t] = preauth[t]
    BY <1>6 DEF IndInv, Shapes
  <2> QED BY <1>5, <2>1, <2>2, <2>3
<1>9. Quotas'
  BY <1>1, <1>8, QuotasStay DEF Late
<1>10. Openings'
  <2>1. ASSUME NEW q \in Requests PROVE OpenToOne(q)'
    <3>1. OpenToOne(q)
      BY DEF IndInv, Openings
    <3>2. CASE q = r
      BY <1>1, <1>2, <1>8, <3>1, <3>2 DEF OpenToOne
    <3>3. CASE q # r
      <4>1. pc[q] = "consuming" => ask[q].state # s /\ ask[q].state \in States
        BY <1>4, <3>1, <3>3 DEF OpenToOne, IndInv, Shapes, Asks
      <4> QED BY <1>1, <1>8, <3>1, <3>3, <4>1 DEF OpenToOne, Alone
    <3> QED BY <3>2, <3>3
  <2>2. \A t \in States : LetsOneIn(t)'
    BY <1>8 DEF IndInv, Openings, LetsOneIn
  <2> QED BY <2>1, <2>2 DEF Openings
<1>11. Judged(r)'
  BY <1>1, <1>8, JudgedStays DEF Fresh
<1>12. Evidence'
  BY <1>1, <1>8, <1>11, EvidenceStays DEF Judgements
<1> QED BY <1>7, <1>9, <1>10, <1>12 DEF IndInv

(* The second transaction of the bootstrap routes.                         *)
LEMMA IssueKeeps ==
    ASSUME IndInv, NEW r \in Requests, IssuePreauth(r) \/ RenewCsrf(r)
    PROVE  IndInv'
<1>1. CASE RenewCsrf(r)
  <2>1. PICK place \in {"rejected", "preauth", "csrf_ip", "done"} :
          place = IF Known(r) THEN "done" ELSE "rejected"
    OBVIOUS
  <2>2. Goes(r, place) /\ pc[r] = "issuing" /\ place \notin {"preauth", "csrf_ip"}
    BY <1>1, <2>1 DEF RenewCsrf
  <2>3. ask' \in [Requests -> Asks] /\ \A q \in Requests \ {r} : ask'[q] = ask[q]
    BY <1>1 DEF RenewCsrf, IndInv, Shapes
  <2> QED BY <1>1, <2>2, <2>3, GateMoves DEF RenewCsrf
<1>2. CASE IssuePreauth(r)
  <2>1. /\ pc[r] = "issuing" /\ pc' = [pc EXCEPT ![r] = "done"]
        /\ UNCHANGED <<session, members, bucket, held, within, pending, holder, spent, entered,
                       now, ask, principal, denial, trace, log>>
    BY <1>2 DEF IssuePreauth, Goes, callVars
  <2>2. PICK s \in States :
          /\ preauth[s].state = "absent"
          /\ preauth' = [preauth EXCEPT ![s] = [state |-> "issued", expires |-> now + Lifetime]]
    <3> DEFINE t == CHOOSE t \in States : preauth[t].state = "absent"
    <3>1. \E u \in States : preauth[u].state = "absent"
      BY <1>2 DEF IssuePreauth
    <3>2. t \in States /\ preauth[t].state = "absent"
      BY <3>1
    <3>3. preauth' = [preauth EXCEPT ![t] = [state |-> "issued", expires |-> now + Lifetime]]
      BY <1>2 DEF IssuePreauth
    <3> HIDE DEF t
    <3> QED BY <3>2, <3>3
  <2>3. PICK p \in Preauths : p = [state |-> "issued", expires |-> now + Lifetime] /\ p.state = "issued"
    <3>1. PICK n \in Nat : n = now + Lifetime
      BY PolicyAssumption DEF IndInv, Shapes
    <3>2. [state |-> "issued", expires |-> n] \in Preauths
      BY DEF Preauths
    <3> QED BY <3>1, <3>2
  <2>4. preauth' = [preauth EXCEPT ![s] = p]
    BY <2>2, <2>3
  <2>5. Shapes'
    BY <2>1, <2>4 DEF IndInv, Shapes, Places, Answers
  <2>6. /\ Alone(r) /\ pc'[r] = "done" /\ held[r] = {} /\ preauth'[s].state = "issued"
        /\ \A t \in States \ {s} : preauth'[t] = preauth[t]
    BY <2>1, <2>3, <2>4 DEF IndInv, Shapes, Quotas, RowsInOrder, Alone
  <2>7. Quotas'
    BY <2>1, <2>6, QuotasStay DEF Late
  <2>8. Openings'
    <3>1. \A q \in Requests : OpenToOne(q)'
      BY <2>1, <2>2, <2>6 DEF IndInv, Openings, OpenToOne, Alone
    <3>2. \A t \in States : LetsOneIn(t)'
      BY <2>1, <2>2, <2>6 DEF IndInv, Openings, LetsOneIn
    <3> QED BY <3>1, <3>2 DEF Openings
  <2>9. Judged(r)'
    BY <2>1, <2>6, JudgedStays DEF Fresh, Scopes
  <2>10. Evidence'
    BY <2>1, <2>6, <2>9, EvidenceStays DEF Judgements
  <2> QED BY <2>5, <2>7, <2>8, <2>10 DEF IndInv
<1> QED BY <1>1, <1>2

-----------------------------------------------------------------------------
(* Quotas.                                                                 *)

(* The row a request counts in is one of the table.                        *)
LEMMA RowForm ==
    ASSUME IndInv, NEW r \in Requests, NEW scope \in Scopes, NEW i \in ask[r].at..now
    PROVE  <<scope, Key(r, scope), Started(scope, i)>> \in Rows
<1>1. Key(r, scope) \in Keys(scope)
  BY DEF Key, Keys, IndInv, Shapes, Asks
<1>2. Started(scope, i) \in 0..MaxTime
  <2>0. ask[r].at \in Nat /\ now \in 0..MaxTime
    BY DEF IndInv, Shapes, Asks
  <2>1. PICK t \in Nat, w \in Nat \ {0} : t = i /\ w = Window[scope] /\ t <= MaxTime
    BY <2>0, PolicyAssumption
  <2>2. t \div w \in Nat /\ t \div w <= t
    BY <2>1
  <2> QED BY <2>1, <2>2, PolicyAssumption DEF Started
<1> QED BY <1>1, <1>2 DEF Rows

(* What a request over its quota has to record.                            *)
LEMMA ThrottlingForm ==
    ASSUME NEW scope \in Scopes
    PROVE  Throttling(Denied("throttling_triggered", Reason(scope)))
<1>1. PICK reason : reason = Reason(scope)
  OBVIOUS
<1>2. reason # "csrf_missing" /\ reason # "csrf_invalid"
  BY <1>1 DEF Reason, Scopes
<1>3. PICK e : e = Denied("throttling_triggered", reason)
  OBVIOUS
<1>4. e.type = "throttling_triggered" /\ e.reason = {reason} /\ e.membership = {}
  BY <1>3, EventForm
<1>5. Throttling(e)
  BY <1>2, <1>4 DEF Throttling, Given, Null
<1> QED BY <1>1, <1>3, <1>5

(* auth.consume_throttle                                                   *)
LEMMA ConsumeKeeps ==
    ASSUME IndInv, NEW r \in Requests, NEW scope \in Scopes, Consume(r, scope)
    PROVE  IndInv'
<1>0. PICK t \in ask[r].at..now :
        /\ pc[r] = scope
        /\ LET row == <<scope, Key(r, scope), Started(scope, t)>>
               ok  == Allowed(scope, bucket[row] + 1)
           IN /\ Unlocked(r, row)
              /\ bucket' = [bucket EXCEPT ![row] = @ + 1]
              /\ held' = [held EXCEPT ![r] = @ \cup {row}]
              /\ within' = [within EXCEPT ![r] = @ /\ ok]
              /\ pending' = IF ok THEN pending
                            ELSE [pending EXCEPT ![r] = @ \cup
                                    {Denied("throttling_triggered", Reason(scope))}]
        /\ ask' = [ask EXCEPT ![r].at = now]
        /\ Goes(r, After(scope))
        /\ UNCHANGED <<callVars, preauth, holder, spent, entered,
                       now, principal, denial, trace, log>>
  BY DEF Consume
<1>1. PICK row \in Rows : row = <<scope, Key(r, scope), Started(scope, t)>>
  BY RowForm
<1> DEFINE ok == Allowed(scope, bucket[row] + 1)
           event == Denied("throttling_triggered", Reason(scope))
<1>2. /\ pc[r] = scope /\ Unlocked(r, row)
      /\ bucket' = [bucket EXCEPT ![row] = bucket[row] + 1]
      /\ held' = [held EXCEPT ![r] = held[r] \cup {row}]
      /\ within' = [within EXCEPT ![r] = within[r] /\ ok]
      /\ pending' = IF ok THEN pending ELSE [pending EXCEPT ![r] = pending[r] \cup {event}]
      /\ pc' = [pc EXCEPT ![r] = After(scope)]
      /\ UNCHANGED <<session, members, preauth, holder, spent, entered,
                     now, principal, denial, trace, log>>
      /\ ask' \in [Requests -> Asks] /\ \A q \in Requests \ {r} : ask'[q] = ask[q]
  BY <1>0, <1>1, ClockRead DEF Goes, callVars
<1>3. After(scope) \in {"login_ip", "login_ip_username", "counted"} /\ row[1] = scope
  BY <1>1 DEF After
<1>4. ok \in BOOLEAN /\ (ok => bucket[row] + 1 <= Limit[scope]) /\ bucket[row] \in Nat
  BY DEF Allowed, IndInv, Shapes
<1>5. Throttling(event)
  BY ThrottlingForm
<1> HIDE DEF ok, event
<1>6. Shapes'
  <2>1. pc' \in [Requests -> Places]
    BY <1>2, <1>3 DEF IndInv, Shapes, Places, Scopes
  <2>2. bucket' \in [Rows -> Nat]
    BY <1>2, <1>4 DEF IndInv, Shapes
  <2>3. held' \in [Requests -> SUBSET Rows]
    BY <1>2 DEF IndInv, Shapes
  <2>4. within' \in [Requests -> BOOLEAN]
    <3>1. PICK b \in BOOLEAN : b = (within[r] /\ ok)
      OBVIOUS
    <3> QED BY <1>2, <3>1 DEF IndInv, Shapes
  <2>5. pending' = [q \in Requests |-> pending'[q]]
    BY <1>2 DEF IndInv, Shapes
  <2> QED BY <1>2, <2>1, <2>2, <2>3, <2>4, <2>5 DEF IndInv, Shapes
<1>7. /\ \A q \in Requests \ {r} : /\ pc'[q] = pc[q] /\ held'[q] = held[q]
                                   /\ pending'[q] = pending[q]
      /\ pc'[r] = After(scope) /\ held'[r] = held[r] \cup {row}
      /\ ok => pending'[r] = pending[r]
      /\ ~ok => pending'[r] = pending[r] \cup {event}
      /\ bucket'[row] = bucket[row] + 1 /\ \A x \in Rows \ {row} : bucket'[x] = bucket[x]
  BY <1>2, <1>4 DEF IndInv, Shapes
<1>8. \A q \in Requests \ {r} : within'[q] = within[q]
  BY <1>2 DEF IndInv, Shapes
<1>9. within'[r] <=> within[r] /\ ok
  <2>1. PICK b \in BOOLEAN : b = (within[r] /\ ok)
    OBVIOUS
  <2>2. within'[r] = b
    BY <1>2, <2>1 DEF IndInv, Shapes
  <2> QED BY <2>1, <2>2
<1>10. Alone(r)
  BY <1>2, <1>7, <1>8 DEF Alone
<1>11. row \notin held[r] /\ \A q \in Requests \ {r} : row \notin held[q]
  <2>1. RowsInOrder(r)
    BY DEF IndInv, Quotas
  <2>2. scope # "counted"
    BY DEF Scopes
  <2> QED BY <1>2, <1>3, <2>1, <2>2 DEF RowsInOrder, Unlocked
<1>12. Quotas'
  <2>1. Quotas /\ held \in [Requests -> SUBSET Rows]
    BY DEF IndInv, Shapes
  <2>2. RowsInOrder(r)'
    BY <1>2, <1>3, <1>7, <2>1 DEF Quotas, RowsInOrder, After, Scopes
  <2>3. WithinMeans(r)'
    BY <1>3, <1>4, <1>7, <1>9, <1>11, <2>1 DEF Quotas, WithinMeans
  <2>4. ASSUME NEW q \in Requests \ {r} PROVE RowsInOrder(q)' /\ WithinMeans(q)'
    <3>1. RowsInOrder(q)'
      BY <1>7, <2>1 DEF Quotas, RowsInOrder
    <3>2. \A x \in held[q] : bucket'[x] = bucket[x]
      BY <1>7, <1>11, <2>1
    <3> QED BY <1>7, <1>8, <2>1, <3>1, <3>2 DEF Quotas, WithinMeans
  <2>5. HeldApart'
    BY <1>7, <1>11, <2>1 DEF Quotas, HeldApart
  <2>6. SpentLate' /\ \A x \in spent : x.by \in Requests \ {r}
    <3>1. \A x \in spent : x.by \in Requests \ {r}
      BY <1>2, <2>1 DEF Quotas, SpentLate, Late, Scopes
    <3> QED BY <1>2, <1>7, <2>1, <3>1 DEF Quotas, SpentLate
  <2>7. EveryAttemptCounts'
    <3> SUFFICES ASSUME NEW x \in Rows
                 PROVE  bucket'[x] = Cardinality(Spenders(x)') + Cardinality(Holders(x)')
      BY DEF EveryAttemptCounts, Spenders, Holders
    <3>1. bucket[x] = Cardinality(Spenders(x)) + Cardinality(Holders(x))
      BY <2>1 DEF Quotas, EveryAttemptCounts, Spenders, Holders
    <3>2. Spenders(x)' = Spenders(x)
      BY <1>2 DEF Spenders
    <3>3. /\ Cardinality(Spenders(x)) \in Nat /\ Cardinality(Holders(x)) \in Nat
          /\ IsFiniteSet(Holders(x))
      BY <2>1, CountsFinite DEF Quotas
    <3>4. CASE x = row
      <4>1. Holders(x)' = Holders(x) \cup {r} /\ r \notin Holders(x)
        BY <1>7, <1>11, <3>4 DEF Holders
      <4>2. Cardinality(Holders(x)') = Cardinality(Holders(x)) + 1
        BY <3>3, <4>1, FS_AddElement
      <4> QED BY <1>7, <3>1, <3>2, <3>3, <3>4, <4>2
    <3>5. CASE x # row
      <4>1. Holders(x)' = Holders(x)
        BY <1>7, <3>5 DEF Holders
      <4> QED BY <1>7, <3>1, <3>2, <3>5, <4>1
    <3> QED BY <3>4, <3>5
  <2>8. WindowLimit'
    <3>1. ASSUME NEW x \in Rows
          PROVE  {y \in spent' : y.row = x /\ pc'[y.by] # "throttled"}
                   = {y \in spent : y.row = x /\ pc[y.by] # "throttled"}
      BY <1>2, <1>7, <2>6
    <3> QED BY <2>1, <3>1 DEF Quotas, WindowLimit
  <2> QED BY <2>2, <2>3, <2>4, <2>5, <2>6, <2>7, <2>8 DEF Quotas
<1>13. Openings'
  BY <1>2, <1>3, <1>7, <1>10, OpeningsStay DEF Scopes
<1>14. Judged(r)'
  <2>1. Judged(r)
    BY DEF IndInv, Evidence
  <2>2. pc'[r] \notin Fresh
    BY <1>3, <1>7 DEF Fresh
  <2>3. within'[r] => pending'[r] = {}
    BY <1>7, <1>9, <2>1 DEF Judged
  <2>4. ~within'[r] => pending'[r] # {}
    BY <1>2, <1>7, <1>9, <2>1 DEF Judged
  <2>5. \A e \in pending'[r] : Throttling(e)
    BY <1>4, <1>5, <1>7, <2>1 DEF Judged
  <2>6. \A e \in pending'[r] : Throttling(e)'
    BY <2>5 DEF Throttling
  <2> QED BY <2>2, <2>3, <2>4, <2>6 DEF Judged
<1>15. Evidence'
  BY <1>2, <1>3, <1>7, <1>10, <1>14, EvidenceStays DEF Judgements, Scopes
<1> QED BY <1>6, <1>12, <1>13, <1>15 DEF IndInv

(* What the commit of a request's quotas records.                          *)
LEMMA OutcomesTrue ==
    ASSUME IndInv, NEW r \in Requests, pc[r] = "counted"
    PROVE  /\ within[r] => Outcomes(r) = {}
           /\ ~within[r] => \E e \in Outcomes(r) : e.type = "throttling_triggered"
           /\ \A e \in Outcomes(r) : TrueOf(e, ask[r].headers, principal[r].member)
<1>1. Judged(r)
  BY DEF IndInv, Evidence
<1>2. ~within[r] => \E e \in Outcomes(r) : e.type = "throttling_triggered"
  BY <1>1 DEF Judged, Throttling, Outcomes
<1>3. \A e \in pending[r] : TrueOf(e, ask[r].headers, principal[r].member)
  BY <1>1 DEF Judged, Throttling, TrueOf
<1>4. TrueOf(LoginFailure, ask[r].headers, principal[r].member)
  <2>1. PICK e : e = LoginFailure
    OBVIOUS
  <2>2. e.type = "login_failure" /\ e.reason = {"invalid_credentials"} /\ e.membership = {}
    BY <2>1 DEF LoginFailure, SecurityAuditEvent, Null
  <2>3. TrueOf(e, ask[r].headers, principal[r].member)
    BY <2>2 DEF TrueOf, Given, Null
  <2> QED BY <2>1, <2>3
<1>5. \A e \in Outcomes(r) : TrueOf(e, ask[r].headers, principal[r].member)
  BY <1>3, <1>4 DEF Outcomes
<1>6. within[r] => Outcomes(r) = {}
  BY <1>1 DEF Judged, Outcomes
<1> QED BY <1>2, <1>5, <1>6

(* The quotas are committed, whatever the decision.                        *)
LEMMA CommitKeeps ==
    ASSUME IndInv, NEW r \in Requests, CommitQuota(r)
    PROVE  IndInv'
<1>1. PICK place \in {"throttled", "admitted", "issuing"} :
        /\ pc' = [pc EXCEPT ![r] = place]
        /\ place = "throttled" <=> ~within[r]
  BY DEF CommitQuota, Goes
<1>2. /\ pc[r] = "counted"
      /\ spent' = spent \cup {[by |-> r, row |-> row] : row \in held[r]}
      /\ held' = [held EXCEPT ![r] = {}]
      /\ pending' = [pending EXCEPT ![r] = {}]
      /\ log' = log \cup Entries(r, Outcomes(r))
      /\ UNCHANGED <<session, members, bucket, within, preauth, holder, entered,
                     now, ask, principal, denial, trace>>
  BY DEF CommitQuota, callVars
<1>3. Shapes'
  <2>1. pc' \in [Requests -> Places]
    BY <1>1 DEF IndInv, Shapes, Places, Answers
  <2>2. held' \in [Requests -> SUBSET Rows] /\ pending' = [q \in Requests |-> pending'[q]]
    BY <1>2 DEF IndInv, Shapes
  <2> QED BY <1>2, <2>1, <2>2 DEF IndInv, Shapes
<1>4. /\ \A q \in Requests \ {r} : /\ pc'[q] = pc[q] /\ held'[q] = held[q]
                                   /\ pending'[q] = pending[q]
      /\ pc'[r] = place /\ held'[r] = {} /\ pending'[r] = {}
  BY <1>1, <1>2 DEF IndInv, Shapes
<1>5. Alone(r)
  BY <1>2, <1>4 DEF Alone
<1>6. Quotas'
  <2>1. Quotas /\ held \in [Requests -> SUBSET Rows] /\ bucket \in [Rows -> Nat]
    BY DEF IndInv, Shapes
  <2>2. \A q \in Requests : RowsInOrder(q)' /\ WithinMeans(q)'
    BY <1>2, <1>4, <2>1 DEF Quotas, RowsInOrder, WithinMeans
  <2>3. HeldApart'
    BY <1>4, <2>1 DEF Quotas, HeldApart
  <2>4. \A x \in spent : x.by \in Requests \ {r}
    BY <1>2, <2>1 DEF Quotas, SpentLate, Late
  <2>5. SpentLate'
    <3> SUFFICES ASSUME NEW x \in spent'
                 PROVE  x \in [by : Requests, row : Rows] /\ pc'[x.by] \in Late
      BY DEF SpentLate
    <3>1. CASE x \in spent
      BY <1>4, <2>1, <2>4, <3>1 DEF Quotas, SpentLate
    <3>2. CASE x \notin spent
      <4>1. PICK row \in held[r] : x = [by |-> r, row |-> row]
        BY <1>2, <3>2
      <4> QED BY <1>4, <2>1, <4>1 DEF Late
    <3> QED BY <3>1, <3>2
  <2>6. ASSUME NEW x \in Rows, x \in held[r]
        PROVE  /\ Cardinality(Spenders(x)') = Cardinality(Spenders(x)) + 1
               /\ Cardinality(Holders(x)') = Cardinality(Holders(x)) - 1
    <3>1. PICK y : y = [by |-> r, row |-> x]
      OBVIOUS
    <3>2. y.by = r /\ y.row = x
      BY <3>1
    <3>3. y \notin Spenders(x)
      BY <2>4, <3>2 DEF Spenders
    <3>4. Spenders(x)' = Spenders(x) \cup {y}
      BY <1>2, <2>6, <3>1 DEF Spenders
    <3>5. Holders(x)' = Holders(x) \ {r} /\ r \in Holders(x)
      BY <1>4, <2>6 DEF Holders
    <3>6. IsFiniteSet(Spenders(x)) /\ IsFiniteSet(Holders(x))
      BY <2>1, CountsFinite DEF Quotas
    <3>7. Cardinality(Spenders(x)') = Cardinality(Spenders(x)) + 1
      <4>1. Cardinality(Spenders(x) \cup {y}) = Cardinality(Spenders(x)) + 1
        BY <3>3, <3>6, FS_AddElement
      <4> QED BY <3>4, <4>1
    <3>8. Cardinality(Holders(x)') = Cardinality(Holders(x)) - 1
      BY <3>5, <3>6, FS_RemoveElement
    <3> QED BY <3>7, <3>8
  <2>7. ASSUME NEW x \in Rows, x \notin held[r]
        PROVE  Spenders(x)' = Spenders(x) /\ Holders(x)' = Holders(x) /\ LetIn(x)' = LetIn(x)
    <3>1. Spenders(x)' = Spenders(x)
      BY <1>2, <2>7 DEF Spenders
    <3>2. Holders(x)' = Holders(x)
      BY <1>4, <2>7 DEF Holders
    <3>3. LetIn(x)' = LetIn(x)
      <4>1. \A y \in Spenders(x) : pc'[y.by] = pc[y.by]
        BY <1>4, <2>4 DEF Spenders
      <4>2. LetIn(x) = {y \in Spenders(x) : pc[y.by] # "throttled"}
        BY DEF LetIn, Spenders
      <4>3. LetIn(x)' = {y \in Spenders(x)' : pc'[y.by] # "throttled"}
        BY DEF LetIn, Spenders
      <4> QED BY <3>1, <4>1, <4>2, <4>3
    <3> QED BY <3>1, <3>2, <3>3
  <2>8. ASSUME NEW x \in Rows
        PROVE  bucket'[x] = Cardinality(Spenders(x)') + Cardinality(Holders(x)')
    <3>1. bucket[x] = Cardinality(Spenders(x)) + Cardinality(Holders(x))
      BY <2>1 DEF Quotas, EveryAttemptCounts, Spenders, Holders
    <3>2. Cardinality(Spenders(x)) \in Nat /\ Cardinality(Holders(x)) \in Nat
      BY <2>1, CountsFinite DEF Quotas
    <3> QED BY <1>2, <2>6, <2>7, <3>1, <3>2
  <2>9. EveryAttemptCounts'
    BY <2>8 DEF EveryAttemptCounts, Spenders, Holders
  <2>10. ASSUME NEW x \in Rows PROVE Cardinality(LetIn(x)') <= Limit[x[1]]
    <3>1. Cardinality(LetIn(x)) <= Limit[x[1]]
      BY <2>1 DEF Quotas, WindowLimit, LetIn
    <3>2. CASE x \notin held[r]
      BY <2>7, <3>1, <3>2
    <3>3. CASE x \in held[r] /\ ~within[r]
      <4>1. LetIn(x)' = LetIn(x)
        <5>1. \A y \in LetIn(x)' : y \in spent
          <6> SUFFICES ASSUME NEW y \in LetIn(x)', y \notin spent PROVE FALSE
            OBVIOUS
          <6>1. y \in spent' /\ pc'[y.by] # "throttled"
            BY DEF LetIn
          <6>2. PICK row \in held[r] : y = [by |-> r, row |-> row]
            BY <1>2, <6>1
          <6> QED BY <1>1, <1>4, <3>3, <6>1, <6>2
        <5>2. \A y \in spent : y \in spent' /\ pc'[y.by] = pc[y.by]
          BY <1>2, <1>4, <2>4
        <5> QED BY <5>1, <5>2 DEF LetIn
      <4> QED BY <3>1, <4>1
    <3>4. CASE x \in held[r] /\ within[r]
      <4>1. bucket[x] <= Limit[x[1]] /\ bucket[x] \in Nat
        BY <2>1, <3>4 DEF Quotas, WithinMeans
      <4>2. /\ Cardinality(LetIn(x)') <= Cardinality(Spenders(x)')
            /\ Cardinality(LetIn(x)') \in Nat /\ Cardinality(Spenders(x)') \in Nat
            /\ Cardinality(Holders(x)') \in Nat
        <5>1. PICK A : A = Spenders(x)'
          OBVIOUS
        <5>2. A \subseteq [by : Requests, row : Rows] /\ \A y \in A : y.row = x
          BY <2>5, <5>1 DEF SpentLate, Spenders
        <5>3. IsFiniteSet(A)
          BY <5>2, AttemptsFinite
        <5>4. LetIn(x)' \subseteq A /\ Holders(x)' \subseteq Requests
          BY <5>1 DEF LetIn, Spenders, Holders
        <5> QED BY <5>1, <5>3, <5>4, FS_Subset, FS_CardinalityType, RequestAssumption
      <4>3. x[1] \in Scopes /\ Limit[x[1]] \in Nat
        BY PolicyAssumption DEF Rows
      <4> QED BY <1>2, <2>8, <4>1, <4>2, <4>3
    <3> QED BY <3>2, <3>3, <3>4
  <2>11. WindowLimit'
    BY <2>10 DEF WindowLimit, LetIn
  <2> QED BY <2>2, <2>3, <2>5, <2>9, <2>11 DEF Quotas
<1>7. Openings'
  BY <1>1, <1>2, <1>4, <1>5, OpeningsStay
<1>8. Judged(r)'
  BY <1>4 DEF Judged, Fresh, Scopes
<1>9. denial[r] = {}
  BY <1>2 DEF IndInv, Evidence, Denials
<1>10. Denials(r)'
  BY <1>2, <1>4, <1>9 DEF Denials
<1>11. \A x \in log' \ log : x.by = r /\ Logged(x)'
  <2> SUFFICES ASSUME NEW x \in log' \ log PROVE x.by = r /\ Logged(x)'
    OBVIOUS
  <2>1. x.by = r /\ x.event \in Outcomes(r)
    BY <1>2 DEF Entries
  <2>2. ~within[r] /\ TrueOf(x.event, ask[r].headers, principal[r].member)
    BY <1>2, <2>1, OutcomesTrue
  <2> QED BY <1>1, <1>2, <1>4, <2>1, <2>2 DEF Logged
<1>12. Left(r)'
  <2> SUFFICES ASSUME place = "throttled"
               PROVE  \E e \in Recorded(r)' : e.type = "throttling_triggered"
    BY <1>4 DEF Left
  <2>1. PICK e \in Outcomes(r) : e.type = "throttling_triggered"
    BY <1>1, <1>2, OutcomesTrue
  <2>2. PICK x : x = [by |-> r, event |-> e]
    OBVIOUS
  <2>3. x \in log' /\ x.by = r /\ x.event = e
    BY <1>2, <2>2 DEF Entries
  <2> QED BY <2>1, <2>3 DEF Recorded
<1>13. Evidence'
  BY <1>2, <1>5, <1>8, <1>10, <1>11, <1>12, EvidenceMoves
<1> QED BY <1>3, <1>6, <1>7, <1>13 DEF IndInv

(* A transaction is rolled back.                                           *)
LEMMA AbortKeeps ==
    ASSUME IndInv, NEW r \in Requests, Abort(r)
    PROVE  IndInv'
<1>1. /\ bucket' = [row \in Rows |-> IF row \in held[r] THEN bucket[row] - 1 ELSE bucket[row]]
      /\ held' = [held EXCEPT ![r] = {}]
      /\ pending' = [pending EXCEPT ![r] = {}]
      /\ holder' = [s \in States |-> holder[s] \ {r}]
      /\ pc' = [pc EXCEPT ![r] = "failed"]
      /\ UNCHANGED <<session, members, within, preauth, spent, entered,
                     now, ask, principal, denial, trace, log>>
  BY DEF Abort, Goes, callVars
<1>2. pc[r] \in {"sent", "preauth", "consuming", "counted", "issuing"} \cup Scopes
  BY DEF Abort, AtDatabase
<1>3. Quotas /\ held \in [Requests -> SUBSET Rows] /\ bucket \in [Rows -> Nat]
  BY DEF IndInv, Shapes
<1>4. /\ \A q \in Requests \ {r} : /\ pc'[q] = pc[q] /\ held'[q] = held[q]
                                   /\ pending'[q] = pending[q]
      /\ pc'[r] = "failed" /\ held'[r] = {} /\ pending'[r] = {}
      /\ \A s \in States : holder'[s] = holder[s] \ {r}
      /\ \A row \in Rows : /\ row \in held[r] => bucket'[row] = bucket[row] - 1
                           /\ row \notin held[r] => bucket'[row] = bucket[row]
  BY <1>1 DEF IndInv, Shapes
<1>5. Alone(r)
  BY <1>1, <1>4 DEF Alone
<1>6. ASSUME NEW x \in Rows
      PROVE  bucket'[x] \in Nat /\ bucket'[x] = Cardinality(Spenders(x)') + Cardinality(Holders(x)')
  <2>1. bucket[x] = Cardinality(Spenders(x)) + Cardinality(Holders(x))
    BY <1>3 DEF Quotas, EveryAttemptCounts, Spenders, Holders
  <2>2. /\ Cardinality(Spenders(x)) \in Nat /\ Cardinality(Holders(x)) \in Nat
        /\ IsFiniteSet(Holders(x))
    BY <1>3, CountsFinite DEF Quotas
  <2>3. Spenders(x)' = Spenders(x)
    BY <1>1 DEF Spenders
  <2>4. CASE x \in held[r]
    <3>1. Holders(x)' = Holders(x) \ {r} /\ r \in Holders(x)
      BY <1>4, <2>4 DEF Holders
    <3>2. /\ Cardinality(Holders(x)') = Cardinality(Holders(x)) - 1
          /\ Cardinality(Holders(x)') \in Nat
      BY <2>2, <3>1, FS_RemoveElement, FS_CardinalityType
    <3> QED BY <1>4, <2>1, <2>2, <2>3, <2>4, <3>2
  <2>5. CASE x \notin held[r]
    <3>1. Holders(x)' = Holders(x)
      BY <1>4, <2>5 DEF Holders
    <3> QED BY <1>3, <1>4, <2>1, <2>3, <2>5, <3>1
  <2> QED BY <2>4, <2>5
<1>7. Shapes'
  <2>1. pc' \in [Requests -> Places]
    BY <1>1 DEF IndInv, Shapes, Places, Answers
  <2>2. bucket' \in [Rows -> Nat]
    BY <1>1, <1>6
  <2>3. held' \in [Requests -> SUBSET Rows] /\ pending' = [q \in Requests |-> pending'[q]]
    BY <1>1 DEF IndInv, Shapes
  <2>4. holder' \in [States -> SUBSET Requests]
    BY <1>1 DEF IndInv, Shapes
  <2> QED BY <1>1, <2>1, <2>2, <2>3, <2>4 DEF IndInv, Shapes
<1>8. Quotas'
  <2>1. \A q \in Requests : RowsInOrder(q)'
    BY <1>3, <1>4 DEF Quotas, RowsInOrder
  <2>2. ASSUME NEW q \in Requests PROVE WithinMeans(q)'
    <3>1. CASE q = r
      BY <1>4, <3>1 DEF WithinMeans
    <3>2. CASE q # r
      <4>1. \A x \in held[q] : x \in Rows /\ x \notin held[r]
        BY <1>3, <3>2 DEF Quotas, HeldApart
      <4>2. \A x \in held[q] : bucket'[x] = bucket[x]
        BY <1>4, <4>1
      <4> QED BY <1>1, <1>3, <1>4, <3>2, <4>2 DEF Quotas, WithinMeans
    <3> QED BY <3>1, <3>2
  <2>3. HeldApart'
    BY <1>3, <1>4 DEF Quotas, HeldApart
  <2>4. SpentLate'
    BY <1>1, <1>3, <1>4 DEF Quotas, SpentLate, Late
  <2>5. EveryAttemptCounts'
    BY <1>6 DEF EveryAttemptCounts, Spenders, Holders
  <2>6. WindowLimit'
    <3>1. \A x \in spent : x.by \in Requests
      BY <1>3 DEF Quotas, SpentLate
    <3>2. pc[r] # "throttled"
      BY <1>2 DEF Scopes
    <3>3. ASSUME NEW x \in Rows
          PROVE  {y \in spent' : y.row = x /\ pc'[y.by] # "throttled"}
                   = {y \in spent : y.row = x /\ pc[y.by] # "throttled"}
      BY <1>1, <1>4, <3>1, <3>2
    <3> QED BY <1>3, <3>3 DEF Quotas, WindowLimit
  <2> QED BY <2>1, <2>2, <2>3, <2>4, <2>5, <2>6 DEF Quotas
<1>9. Openings'
  <2>1. ASSUME NEW q \in Requests PROVE OpenToOne(q)'
    <3>1. OpenToOne(q)
      BY DEF IndInv, Openings
    <3>2. CASE q = r
      BY <1>4, <3>2 DEF OpenToOne
    <3>3. CASE q # r
      <4>1. pc[q] = "consuming" => ask[q].state \in States
        BY DEF IndInv, Shapes, Asks
      <4> QED BY <1>1, <1>4, <3>1, <3>3, <4>1 DEF OpenToOne
    <3> QED BY <3>2, <3>3
  <2>2. \A s \in States : LetsOneIn(s)'
    BY <1>1 DEF IndInv, Openings, LetsOneIn
  <2> QED BY <2>1, <2>2 DEF Openings
<1>10. Judged(r)'
  BY <1>4 DEF Judged, Fresh, Scopes
<1>11. Evidence'
  BY <1>1, <1>2, <1>4, <1>5, <1>10, EvidenceStays DEF Judgements, Scopes
<1> QED BY <1>7, <1>8, <1>9, <1>11 DEF IndInv

-----------------------------------------------------------------------------
(* The specification.                                                      *)

(* What others do to the session, and the clock, leave the requests alone. *)
LEMMA SurroundingsKeep ==
    ASSUME IndInv, ChangeRights \/ Tick \/ UNCHANGED vars
    PROVE  IndInv'
<1>1. UNCHANGED <<pc, ask, principal, denial, trace, log, gateVars>>
  BY DEF ChangeRights, Change, Tick, vars, gateVars
<1>2. UNCHANGED <<bucket, held, within, pending, preauth, holder, spent, entered>>
  BY <1>1 DEF gateVars
<1>3. now' \in 0..MaxTime
  BY PolicyAssumption DEF ChangeRights, Tick, vars, IndInv, Shapes
<1>4. session' \in Sessions
  <2>1. session \in Sessions /\ members \in [Memberships -> [active : BOOLEAN, version : Nat]]
    BY DEF IndInv, Shapes
  <2>2. CASE \E m \in Memberships :
               session' = [session EXCEPT !.bearer = @ + 1, !.member = m,
                                          !.version = members[m].version]
    <3>1. PICK m \in Memberships :
            session' = [session EXCEPT !.bearer = @ + 1, !.member = m, !.version = members[m].version]
      BY <2>2
    <3>2. PICK n \in Nat : n = session.bearer + 1
      BY <2>1 DEF Sessions
    <3>3. PICK v \in Nat : v = members[m].version
      BY <2>1
    <3>4. session' = [bearer |-> n, open |-> session.open, version |-> v, member |-> m]
      BY <2>1, <3>1, <3>2, <3>3 DEF Sessions
    <3> QED BY <2>1, <3>4 DEF Sessions
  <2>3. CASE session' = [session EXCEPT !.open = FALSE]
    BY <2>1, <2>3 DEF Sessions
  <2>4. CASE UNCHANGED session
    BY <2>1, <2>4
  <2> QED BY <2>2, <2>3, <2>4 DEF ChangeRights, Change, Tick, callVars, vars
<1>5. members' \in [Memberships -> [active : BOOLEAN, version : Nat]]
  <2>1. members \in [Memberships -> [active : BOOLEAN, version : Nat]]
    BY DEF IndInv, Shapes
  <2>2. CASE \E m \in Memberships :
               members' = [members EXCEPT ![m] = [active |-> ~@.active, version |-> @.version + 1]]
    <3>1. PICK m \in Memberships :
            members' = [members EXCEPT ![m] = [active |-> ~@.active, version |-> @.version + 1]]
      BY <2>2
    <3>2. PICK n \in Nat : n = members[m].version + 1
      BY <2>1
    <3>3. PICK b \in BOOLEAN : b = ~members[m].active
      BY <2>1
    <3>4. members' = [members EXCEPT ![m] = [active |-> b, version |-> n]]
      BY <3>1, <3>2, <3>3
    <3> QED BY <2>1, <3>4
  <2>3. CASE UNCHANGED members
    BY <2>1, <2>3
  <2> QED BY <2>2, <2>3 DEF ChangeRights, Change, Tick, callVars, vars
<1>6. Shapes'
  BY <1>1, <1>2, <1>3, <1>4, <1>5 DEF IndInv, Shapes
<1> QED BY <1>1, <1>6, AllStays DEF IndInv

(* Every step keeps the invariant.                                         *)
LEMMA StepKeeps == IndInv /\ [Next]_vars => IndInv'
<1> SUFFICES ASSUME IndInv, [Next]_vars PROVE IndInv'
  OBVIOUS
<1>1. ASSUME NEW r \in Requests, GateStep(r) PROVE IndInv'
  BY <1>1, EnterKeeps, OpenKeeps, ConsumeStateKeeps, ConsumeKeeps, CommitKeeps, IssueKeeps
     DEF GateStep
<1>2. ASSUME NEW r \in Requests, Send(r) \/ Call(r) \/ Abort(r) PROVE IndInv'
  BY <1>2, SendKeeps, CallKeeps, AbortKeeps
<1> QED BY <1>1, <1>2, SurroundingsKeep DEF Next

(* Nobody has asked for anything, and one state has been issued.           *)
LEMMA InitHolds == Init => IndInv
<1> SUFFICES ASSUME Init PROVE IndInv
  OBVIOUS
<1>1. PICK n \in Names, s \in States : Nothing =
        [kind |-> "none", bearer |-> 0, headers |-> NoHeaders, at |-> 0, name |-> n, state |-> s]
  <2>1. (CHOOSE n \in Names : TRUE) \in Names /\ (CHOOSE s \in States : TRUE) \in States
    BY PolicyAssumption
  <2> QED BY <2>1 DEF Nothing
<1>2. Nothing \in Asks
  BY <1>1 DEF Asks, HeaderForms, NoHeaders
<1>3. session \in Sessions
  <2>1. PICK m \in Memberships : m = CHOOSE x \in Memberships : TRUE
    BY RequestAssumption
  <2>2. session = [bearer |-> 1, open |-> TRUE, version |-> 1, member |-> m]
    BY <2>1 DEF Init
  <2> QED BY <2>2 DEF Sessions
<1>4. preauth \in [States -> Preauths] /\ \A t \in States : preauth[t].state # "used"
  <2>1. PICK life \in Nat : life = Lifetime
    BY PolicyAssumption
  <2>2. preauth = [t \in States |-> [state |-> IF t = Nothing.state THEN "issued" ELSE "absent",
                                     expires |-> life]]
    BY <2>1 DEF Init
  <2> QED BY <2>2 DEF Preauths
<1>5. /\ pc = [r \in Requests |-> "idle"] /\ ask = [r \in Requests |-> Nothing]
      /\ principal = [r \in Requests |-> NoPrincipal]
      /\ denial = [r \in Requests |-> {}] /\ trace = [r \in Requests |-> "none"]
      /\ log = {} /\ now = 0 /\ bucket = [row \in Rows |-> 0]
      /\ held = [r \in Requests |-> {}] /\ within = [r \in Requests |-> TRUE]
      /\ pending = [r \in Requests |-> {}] /\ holder = [t \in States |-> {}]
      /\ spent = {} /\ entered = [t \in States |-> {}]
      /\ members = [m \in Memberships |-> [active |-> TRUE, version |-> 1]]
  BY DEF Init
<1>6. Shapes
  <2>1. NoPrincipal \in [member : Memberships \cup {None}, version : Nat]
    BY DEF NoPrincipal
  <2>2. /\ pc \in [Requests -> Places] /\ now \in 0..MaxTime
        /\ trace \in [Requests -> {"none", "event", "diagnostic"}]
    BY <1>5, PolicyAssumption DEF Places
  <2>3. /\ ask \in [Requests -> Asks]
        /\ principal \in [Requests -> [member : Memberships \cup {None}, version : Nat]]
    BY <1>2, <1>5, <2>1
  <2>4. members \in [Memberships -> [active : BOOLEAN, version : Nat]]
    BY <1>5
  <2>5. /\ bucket \in [Rows -> Nat] /\ held \in [Requests -> SUBSET Rows]
        /\ within \in [Requests -> BOOLEAN]
        /\ holder \in [States -> SUBSET Requests] /\ entered \in [States -> SUBSET Requests]
    BY <1>5
  <2>6. denial = [r \in Requests |-> denial[r]] /\ pending = [r \in Requests |-> pending[r]]
    BY <1>5
  <2> QED BY <1>3, <1>4, <2>2, <2>3, <2>4, <2>5, <2>6 DEF Shapes
<1>7. Quotas
  <2>1. /\ \A r \in Requests : RowsInOrder(r) /\ WithinMeans(r)
        /\ HeldApart /\ SpentLate
    BY <1>5 DEF RowsInOrder, WithinMeans, HeldApart, SpentLate
  <2>2. ASSUME NEW row \in Rows
        PROVE  /\ Cardinality(Spenders(row)) = 0 /\ Cardinality(Holders(row)) = 0
               /\ Cardinality(LetIn(row)) = 0
    <3>1. Spenders(row) = {} /\ Holders(row) = {} /\ LetIn(row) = {}
      BY <1>5 DEF Spenders, Holders, LetIn
    <3> QED BY <3>1, FS_EmptySet
  <2>3. EveryAttemptCounts
    <3>1. \A row \in Rows : bucket[row] = Cardinality(Spenders(row)) + Cardinality(Holders(row))
      BY <1>5, <2>2
    <3> QED BY <3>1 DEF EveryAttemptCounts, Spenders, Holders
  <2>4. WindowLimit
    <3>1. \A row \in Rows : Limit[row[1]] \in Nat
      BY PolicyAssumption DEF Rows
    <3>2. \A row \in Rows : Cardinality(LetIn(row)) <= Limit[row[1]]
      BY <2>2, <3>1
    <3> QED BY <3>2 DEF WindowLimit, LetIn
  <2> QED BY <2>1, <2>3, <2>4 DEF Quotas
<1>8. Openings
  BY <1>4, <1>5 DEF Openings, OpenToOne, LetsOneIn
<1>9. Evidence
  BY <1>5 DEF Evidence, Judged, Denials, RefusalsAreRecorded
<1> QED BY <1>6, <1>7, <1>8, <1>9 DEF IndInv

(* The invariant holds in every reachable state.                           *)
LEMMA IndInvAlways == Spec => []IndInv
BY InitHolds, StepKeeps, PTL DEF Spec

(* Types; a request holds quota rows only inside its quota transaction and *)
(* a pre-authentication row, at most one, only while it consumes it.       *)
THEOREM TypeCorrect == Spec => []TypeOK
<1>1. IndInv => TypeOK
  <2> SUFFICES ASSUME IndInv PROVE TypeOK
    OBVIOUS
  <2>1. ASSUME NEW r \in Requests
        PROVE  /\ denial[r] # {} => pc[r] \in {"denied", "refused"}
               /\ held[r] # {} => pc[r] \in Scopes \cup {"counted"}
    BY DEF IndInv, Evidence, Denials, Quotas, RowsInOrder, Scopes
  <2>2. ASSUME NEW r \in Requests
        PROVE  (\E s \in States : r \in holder[s]) <=> pc[r] = "consuming"
    <3>1. ask[r].state \in States
      BY DEF IndInv, Shapes, Asks
    <3> QED BY <3>1 DEF IndInv, Openings, OpenToOne
  <2>3. ASSUME NEW r \in Requests
        PROVE  Cardinality({s \in States : r \in holder[s]}) <= 1
    <3> DEFINE S == {s \in States : r \in holder[s]}
    <3>1. S = {} \/ S = {ask[r].state}
      BY DEF IndInv, Openings, OpenToOne
    <3> HIDE DEF S
    <3>2. Cardinality(S) = 0 \/ Cardinality(S) = 1
      BY <3>1, FS_EmptySet, FS_Singleton
    <3> QED BY <3>2 DEF S
  <2> QED BY <2>1, <2>2, <2>3 DEF IndInv, Shapes, Sessions, TypeOK
<1> QED BY <1>1, IndInvAlways, PTL

(* One pre-authentication state lets at most one login in: the row is read *)
(* FOR UPDATE and used up in the same transaction (consume_preauth).       *)
THEOREM StatesLetOneIn == Spec => []StateLetsOneIn
<1>1. IndInv => StateLetsOneIn
  <2> SUFFICES ASSUME IndInv, NEW s \in States PROVE Cardinality(entered[s]) <= 1
    BY DEF StateLetsOneIn
  <2>1. entered[s] = {} \/ \E r \in Requests : entered[s] = {r}
    BY DEF IndInv, Openings, LetsOneIn
  <2>2. Cardinality(entered[s]) = 0 \/ Cardinality(entered[s]) = 1
    BY <2>1, FS_EmptySet, FS_Singleton
  <2> QED BY <2>2
<1> QED BY <1>1, IndInvAlways, PTL

(* A throttle bucket holds exactly the attempts that committed it and      *)
(* those that have it open: no interleaving and no rollback loses one or   *)
(* counts one twice (auth.consume_throttle).                               *)
THEOREM AttemptsAreCounted == Spec => []EveryAttemptCounts
<1>1. IndInv => EveryAttemptCounts
  BY DEF IndInv, Quotas
<1> QED BY <1>1, IndInvAlways, PTL

(* No window of any scope lets in more requests than its policy allows,    *)
(* for any limits and windows and any number of concurrent requests.       *)
THEOREM WindowsAreLimited == Spec => []WindowLimit
<1>1. IndInv => WindowLimit
  BY DEF IndInv, Quotas
<1> QED BY <1>1, IndInvAlways, PTL

(* What is recorded of a request is true of what it presented, a refusal   *)
(* by a route with an auditor, or by a quota, is recorded or its loss is   *)
(* reported, and an allowed request acts in the context its tab showed,    *)
(* although its checks are spread over three transactions                  *)
(* (require_authenticated_access).                                         *)
THEOREM AnswersAreTrue == Spec => []AnswersMatchRequests
<1>1. IndInv => AnswersMatchRequests
  <2> SUFFICES ASSUME IndInv
               PROVE  EvidenceIsTrue /\ RefusalsAreRecorded /\ AllowedInItsOwnContext
    BY DEF AnswersMatchRequests
  <2>1. EvidenceIsTrue
    <3>1. \A x \in log : Logged(x)
      BY DEF IndInv, Evidence
    <3> QED BY <3>1 DEF EvidenceIsTrue, Logged, TrueOf
  <2>2. AllowedInItsOwnContext
    BY DEF IndInv, Evidence, Denials, AllowedInItsOwnContext
  <2>3. RefusalsAreRecorded
    BY DEF IndInv, Evidence
  <2> QED BY <2>1, <2>2, <2>3
<1> QED BY <1>1, IndInvAlways, PTL

(* A request comes to be allowed by the lookup of its permission only.     *)
LEMMA NewlyAllowed ==
    ASSUME IndInv, [Next]_vars, NEW r \in Requests, pc[r] # "allowed", pc'[r] = "allowed"
    PROVE  Authorize(r) /\ HasPermission(principal[r])
<1>1. ASSUME NEW q \in Requests, NEW place, Goes(q, place)
      PROVE  q = r /\ place = "allowed"
  BY <1>1 DEF Goes, IndInv, Shapes
<1>2. ~UNCHANGED pc
  OBVIOUS
<1>3. ~(ChangeRights \/ Tick \/ UNCHANGED vars)
  BY <1>2 DEF ChangeRights, Change, Tick, vars
<1>4. ASSUME NEW q \in Requests, Send(q) \/ Abort(q) PROVE FALSE
  BY <1>1, <1>4 DEF Send, Abort
<1>5. ASSUME NEW q \in Requests, GateStep(q) PROVE FALSE
  <2>1. PICK place \in {"denied", "rejected", "preauth", "csrf_ip", "consuming", "login_username",
                        "login_ip", "login_ip_username", "counted", "throttled", "admitted",
                        "issuing", "done"} : Goes(q, place)
    <3>1. CASE Enter(q)
      BY <3>1 DEF Enter, Deny
    <3>2. CASE OpenState(q) \/ ConsumeState(q)
      BY <3>2 DEF OpenState, ConsumeState
    <3>3. ASSUME NEW scope \in Scopes, Consume(q, scope)
          PROVE  Goes(q, "login_ip") \/ Goes(q, "login_ip_username") \/ Goes(q, "counted")
      BY <3>3 DEF Consume, After
    <3>4. CASE CommitQuota(q)
      BY <3>4 DEF CommitQuota
    <3>5. CASE IssuePreauth(q) \/ RenewCsrf(q)
      BY <3>5 DEF IssuePreauth, RenewCsrf
    <3> QED BY <1>5, <3>1, <3>2, <3>3, <3>4, <3>5 DEF GateStep
  <2> QED BY <1>1, <2>1
<1>6. ASSUME NEW q \in Requests, Call(q) PROVE q = r /\ Authorize(q) /\ HasPermission(principal[q])
  <2>1. CASE Authenticate(q)
    BY <1>1, <2>1 DEF Authenticate, Deny
  <2>2. CASE Check(q)
    BY <1>1, <2>2 DEF Check, Deny
  <2>3. CASE RecordDenial(q) \/ LoseDenial(q)
    BY <1>1, <2>3 DEF RecordDenial, LoseDenial
  <2>4. CASE Authorize(q)
    BY <1>1, <2>4 DEF Authorize, Deny
  <2> QED BY <1>6, <2>1, <2>2, <2>3, <2>4 DEF Call, CallStep
<1> QED BY <1>3, <1>4, <1>5, <1>6 DEF Next

(* Whoever is let in is let in for what the session is at that moment, not *)
(* for the copy of it that his headers were compared with: the lookup      *)
(* compares the copy with the row, and the comparison of the headers with  *)
(* the copy still stands (require_permission, has_permission).             *)
THEOREM AllowedAsTheSessionIs == Spec => AllowedInTheSessionsContext
<1> DEFINE Justified(r) ==
        /\ session.open
        /\ ActiveMembership(session.member, session.version)
        /\ session.member \in grants
        /\ ask[r].headers.unsafe => ask[r].headers.expected = session.member
<1>1. IndInv /\ [Next]_vars =>
          \A r \in Requests : pc[r] # "allowed" /\ pc'[r] = "allowed" => Justified(r)
  <2> SUFFICES ASSUME IndInv, [Next]_vars, NEW r \in Requests,
                      pc[r] # "allowed", pc'[r] = "allowed"
               PROVE  Justified(r)
    OBVIOUS
  <2>1. pc[r] = "authorizing" /\ HasPermission(principal[r])
    BY NewlyAllowed DEF Authorize
  <2>2. ask[r].headers.unsafe => ask[r].headers.expected = principal[r].member
    BY <2>1 DEF IndInv, Evidence, Denials
  <2>3. PICK p : p = principal[r]
    OBVIOUS
  <2>4. p.member = session.member /\ p.version = session.version
    BY <2>1, <2>3 DEF HasPermission, Principal
  <2> QED BY <2>1, <2>2, <2>3, <2>4 DEF HasPermission
<1>2. Spec => [][\A r \in Requests : pc[r] # "allowed" /\ pc'[r] = "allowed" => Justified(r)]_vars
  BY <1>1, IndInvAlways, PTL DEF Spec
<1> QED BY <1>2 DEF AllowedInTheSessionsContext

-----------------------------------------------------------------------------
(* What the answer to every request rests on: locks are taken in one       *)
(* order, no commit is refused by its own evidence, and a request only     *)
(* moves forward.                                                          *)

(* A request stands in the way of another one: it has locked the state, or *)
(* counted the row, that the other one asks for next, in any window that   *)
(* its statement may have fixed.                                           *)
WaitsFor(r, q) ==
    \/ pc[r] = "preauth" /\ q \in holder[ask[r].state]
    \/ \E scope \in Scopes :
          /\ pc[r] = scope
          /\ \E t \in ask[r].at..now : <<scope, Key(r, scope), Started(scope, t)>> \in held[q]

(* Where locks are asked for, in the order in which a login asks for them; *)
(* the last two ask for none.                                              *)
LockOrder == [preauth |-> 0, login_username |-> 1, login_ip |-> 2, login_ip_username |-> 3,
              csrf_ip |-> 3, consuming |-> 4, counted |-> 4]

(* Whoever is waited for is further on, so that no circle of requests      *)
(* waits and the last of every chain does not.                             *)
NobodyWaitsInACircle ==
    \A r, q \in Requests :
        WaitsFor(r, q) => /\ {pc[r], pc[q]} \subseteq DOMAIN LockOrder
                          /\ LockOrder[pc[r]] < LockOrder[pc[q]]

(* However logins and bootstrap requests interleave, no circle of them     *)
(* waits for pre-authentication rows and throttle buckets: each waits only *)
(* for requests that are further on in the order in which consume_preauth  *)
(* and consume_throttle take their locks.                                  *)
THEOREM NoDeadlockOfLocks == Spec => []NobodyWaitsInACircle
<1>1. IndInv => NobodyWaitsInACircle
  <2> SUFFICES ASSUME IndInv, NEW r \in Requests, NEW q \in Requests, WaitsFor(r, q)
               PROVE  /\ {pc[r], pc[q]} \subseteq DOMAIN LockOrder
                      /\ LockOrder[pc[r]] < LockOrder[pc[q]]
    BY DEF NobodyWaitsInACircle
  <2>1. CASE pc[r] = "preauth" /\ q \in holder[ask[r].state]
    <3>1. ask[r].state \in States
      BY DEF IndInv, Shapes, Asks
    <3>2. pc[q] = "consuming"
      BY <2>1, <3>1 DEF IndInv, Openings, OpenToOne
    <3> QED BY <2>1, <3>2 DEF LockOrder
  <2>2. ASSUME NEW scope \in Scopes, pc[r] = scope, NEW t \in ask[r].at..now,
               <<scope, Key(r, scope), Started(scope, t)>> \in held[q]
        PROVE  /\ {pc[r], pc[q]} \subseteq DOMAIN LockOrder
               /\ LockOrder[pc[r]] < LockOrder[pc[q]]
    <3>1. \/ pc[q] = "login_ip" /\ scope = "login_username"
          \/ pc[q] = "login_ip_username" /\ scope \in {"login_username", "login_ip"}
          \/ pc[q] = "counted"
      <4>1. PICK row : row = <<scope, Key(r, scope), Started(scope, t)>>
        OBVIOUS
      <4>2. row[1] = scope /\ row \in held[q]
        BY <2>2, <4>1
      <4> QED BY <4>2 DEF IndInv, Quotas, RowsInOrder
    <3>2. LockOrder[scope] < LockOrder[pc[q]]
      BY <3>1 DEF LockOrder, Scopes
    <3>3. {scope, pc[q]} \subseteq DOMAIN LockOrder
      BY <3>1 DEF LockOrder, Scopes
    <3> QED BY <2>2, <3>2, <3>3
  <2> QED BY <2>1, <2>2 DEF WaitsFor
<1> QED BY <1>1, IndInvAlways, PTL

-----------------------------------------------------------------------------
(* The events of a quota transaction.                                      *)

ThrottlingEvents == {Denied("throttling_triggered", Reason(scope)) : scope \in Scopes}

PendingIsThrottling == \A r \in Requests : pending[r] \subseteq ThrottlingEvents

EvidenceIsAppendable == \A r \in Requests : \A e \in Outcomes(r) : Appendable(e)

(* What the writer and the trigger require, for an event that names nobody *)
(* and has no subject, permission or count.                                *)
LEMMA AnonymousAppendable ==
    ASSUME NEW e,
           {e.user, e.session, e.membership, e.role, e.target, e.permission} = {{}},
           {e.digest, e.kind, e.key, e.count} = {{}},
           e.type \in {"throttling_triggered", "login_failure"},
           ValidPolicy(e), event_contract(e)
    PROVE  Appendable(e)
<1>1. /\ e.user = {} /\ e.session = {} /\ e.membership = {} /\ e.role = {} /\ e.target = {}
      /\ e.permission = {} /\ e.digest = {} /\ e.kind = {} /\ e.key = {} /\ e.count = {}
  OBVIOUS
<1>2. /\ e.type \notin ROLE_EVENT_TYPES \cup {"tenant_switch", "security_events_pruned"}
      /\ e.type \notin MEMBERSHIP_ROLE_EVENT_TYPES \cup ROLE_PERMISSION_EVENT_TYPES
  BY DEF ROLE_EVENT_TYPES, MEMBERSHIP_ROLE_EVENT_TYPES, ROLE_PERMISSION_EVENT_TYPES
<1>3. ValidIdentity(e) /\ ValidRole(e) /\ ValidPermission(e)
  BY <1>1, <1>2 DEF ValidIdentity, ValidRole, ValidPermission, Given, Null
<1>4. ValidSubject(e) /\ ValidCount(e)
  BY <1>1, <1>2 DEF ValidSubject, ValidCount, HasSubject, Given, Null
<1>5. Castable(e)
  BY <1>1 DEF Castable
<1>6. identity_shape(e) /\ role_shape(e) /\ target_membership_shape(e)
  <2>1. CASE e.type = "throttling_triggered"
    BY <1>1, <2>1 DEF identity_shape, role_shape, target_membership_shape, Given, Null
  <2>2. CASE e.type = "login_failure"
    BY <1>1, <2>2 DEF identity_shape, role_shape, target_membership_shape, Given, Null
  <2> QED BY <2>1, <2>2
<1>7. permission_catalog(e) /\ permission_shape(e)
  BY <1>1 DEF permission_catalog, permission_shape, Given, Null
<1>8. subject_shape(e) /\ affected_count_shape(e)
  BY <1>1 DEF subject_shape, affected_count_shape, Given, Null
<1>9. LinksHold(e)
  BY <1>1 DEF LinksHold, Given, Null
<1>10. Validate(e)
  BY <1>3, <1>4 DEF Validate
<1>11. EventShape(e)
  BY <1>5, <1>6, <1>7, <1>8 DEF EventShape
<1> QED BY <1>9, <1>10, <1>11 DEF Appendable

(* Each scope's throttling event, and the failure of a throttled login.    *)
LEMMA QuotaEventsAppendable ==
    ASSUME NEW e \in ThrottlingEvents \cup {LoginFailure}
    PROVE  Appendable(e)
<1>1. /\ SECURITY_EVENT_POLICIES["throttling_triggered"] =
            Policy("denied", {"csrf_bootstrap", "login_username", "login_ip",
                              "login_ip_username", "reset_username", "reset_ip"})
      /\ SECURITY_EVENT_POLICIES["login_failure"] =
            Policy("failure", {"invalid_credentials", "dependency_unavailable"})
      /\ {"throttling_triggered", "login_failure"} \subseteq EventTypes
  BY DEF SECURITY_EVENT_POLICIES, EventTypes
<1>2. ASSUME NEW scope \in Scopes, e = Denied("throttling_triggered", Reason(scope))
      PROVE  Appendable(e)
  <2>1. PICK reason \in {"login_username", "login_ip", "login_ip_username", "csrf_bootstrap"} :
          reason = Reason(scope)
    BY DEF Scopes, Reason
  <2>2. /\ e.type = "throttling_triggered" /\ e.result = "denied" /\ e.reason = {reason}
        /\ {e.user, e.session, e.membership, e.role, e.target, e.permission} = {{}}
        /\ {e.digest, e.kind, e.key, e.count} = {{}}
    BY <1>2, <2>1 DEF Denied, SecurityAuditEvent, Null
  <2>3. ValidPolicy(e)
    BY <1>1, <2>2 DEF ValidPolicy, Policy, Maybe
  <2>4. event_contract(e)
    BY <2>2 DEF event_contract
  <2> QED BY <2>2, <2>3, <2>4, AnonymousAppendable
<1>3. CASE e = LoginFailure
  <2>1. /\ e.type = "login_failure" /\ e.result = "failure" /\ e.reason = {"invalid_credentials"}
        /\ {e.user, e.session, e.membership, e.role, e.target, e.permission} = {{}}
        /\ {e.digest, e.kind, e.key, e.count} = {{}}
    BY <1>3 DEF LoginFailure, SecurityAuditEvent, Null
  <2>2. ValidPolicy(e)
    BY <1>1, <2>1 DEF ValidPolicy, Policy, Maybe
  <2>3. event_contract(e)
    BY <2>1 DEF event_contract
  <2> QED BY <2>1, <2>2, <2>3, AnonymousAppendable
<1> QED BY <1>2, <1>3 DEF ThrottlingEvents

(* A quota transaction is never rolled back by the evidence it has to      *)
(* leave: the writer's contract, the migration's constraints and the       *)
(* links of the insert trigger admit every event it writes, so that a      *)
(* refused attempt is committed and counts (PostgresThrottleStore.consume).*)
THEOREM QuotaEvidenceIsAdmitted == Spec => []EvidenceIsAppendable
<1>1. Init => PendingIsThrottling
  BY DEF Init, PendingIsThrottling
<1>2. IndInv /\ PendingIsThrottling /\ [Next]_vars => PendingIsThrottling'
  <2> SUFFICES ASSUME IndInv, PendingIsThrottling, [Next]_vars PROVE PendingIsThrottling'
    OBVIOUS
  <2>0. pending = [r \in Requests |-> pending[r]]
    BY DEF IndInv, Shapes
  <2>1. ASSUME NEW r \in Requests, NEW scope \in Scopes, Consume(r, scope)
        PROVE  PendingIsThrottling'
    <3>1. PICK event : event = Denied("throttling_triggered", Reason(scope))
      OBVIOUS
    <3>2. event \in ThrottlingEvents
      BY <3>1 DEF ThrottlingEvents
    <3>3. pending' = pending \/ pending' = [pending EXCEPT ![r] = @ \cup {event}]
      BY <2>1, <3>1 DEF Consume
    <3> QED BY <2>0, <3>2, <3>3 DEF PendingIsThrottling
  <2>2. ASSUME NEW r \in Requests, CommitQuota(r) \/ Abort(r) PROVE PendingIsThrottling'
    <3>1. pending' = [pending EXCEPT ![r] = {}]
      BY <2>2 DEF CommitQuota, Abort
    <3> QED BY <2>0, <3>1 DEF PendingIsThrottling
  <2>3. CASE UNCHANGED pending
    BY <2>3 DEF PendingIsThrottling
  <2>4. ASSUME NEW r \in Requests,
               Send(r) \/ Call(r) \/ Enter(r) \/ OpenState(r) \/ ConsumeState(r)
                 \/ IssuePreauth(r) \/ RenewCsrf(r)
        PROVE  UNCHANGED pending
    BY <2>4 DEF Send, Call, Enter, OpenState, ConsumeState, IssuePreauth, RenewCsrf, gateVars
  <2>5. ChangeRights \/ Tick \/ UNCHANGED vars => UNCHANGED pending
    BY DEF ChangeRights, Tick, vars, gateVars
  <2> QED BY <2>1, <2>2, <2>3, <2>4, <2>5 DEF Next, GateStep
<1>3. PendingIsThrottling => EvidenceIsAppendable
  <2> SUFFICES ASSUME PendingIsThrottling, NEW r \in Requests, NEW e \in Outcomes(r)
               PROVE  Appendable(e)
    BY DEF EvidenceIsAppendable
  <2>1. e \in ThrottlingEvents \cup {LoginFailure}
    BY DEF Outcomes, PendingIsThrottling
  <2> QED BY <2>1, QuotaEventsAppendable
<1> QED BY <1>1, <1>2, <1>3, IndInvAlways, PTL DEF Spec

-----------------------------------------------------------------------------
(* Progress.                                                               *)

(* How far a request is.  An answer is the end.                            *)
Progress(place) ==
    CASE place = "idle"                                 -> 0
      [] place = "sent"                                 -> 1
      [] place \in {"checking", "preauth"}              -> 2
      [] place \in {"authorizing", "consuming"}         -> 3
      [] place \in {"denied", "login_username"}         -> 4
      [] place = "login_ip"                             -> 5
      [] place \in {"login_ip_username", "csrf_ip"}     -> 6
      [] place = "counted"                              -> 7
      [] place = "issuing"                              -> 8
      [] OTHER                                          -> 9

RequestsGoForward ==
    \A r \in Requests : pc'[r] # pc[r] => Progress(pc[r]) < Progress(pc'[r])

(* Of a step of one request, it is enough to know where it goes.           *)
LEMMA OneGoes ==
    ASSUME IndInv, NEW r \in Requests, NEW place, Goes(r, place),
           Progress(pc[r]) < Progress(place)
    PROVE  RequestsGoForward
BY DEF Goes, IndInv, Shapes, RequestsGoForward

(* A request takes at most nine steps to its answer and never one back:    *)
(* no handler repeats a transaction, so a rejected, failed or throttled    *)
(* request is not taken up again.  With NoDeadlockOfLocks and              *)
(* QuotaEvidenceIsAdmitted this is what EveryRequestIsAnswered needs       *)
(* besides fairness.                                                       *)
THEOREM RequestsAdvance == Spec => [][RequestsGoForward]_vars
<1>1. IndInv /\ [Next]_vars => RequestsGoForward
  <2> SUFFICES ASSUME IndInv, [Next]_vars PROVE RequestsGoForward
    OBVIOUS
  <2>1. CASE UNCHANGED pc
    BY <2>1 DEF RequestsGoForward
  <2>2. ChangeRights \/ Tick \/ UNCHANGED vars => UNCHANGED pc
    BY DEF ChangeRights, Change, Tick, vars
  <2>3. ASSUME NEW r \in Requests, Send(r) PROVE RequestsGoForward
    <3>1. Goes(r, "sent") /\ Progress(pc[r]) < Progress("sent")
      BY <2>3 DEF Send, Progress
    <3> QED BY <3>1, OneGoes
  <2>4. ASSUME NEW r \in Requests, Call(r) PROVE RequestsGoForward
    <3>1. PICK place \in {"rejected", "denied", "checking", "authorizing", "allowed", "refused"} :
            Goes(r, place) /\ Progress(pc[r]) < Progress(place)
      <4>1. CASE Authenticate(r)
        BY <4>1 DEF Authenticate, Deny, Progress
      <4>2. CASE Check(r)
        BY <4>2 DEF Check, Deny, Progress
      <4>3. CASE Authorize(r)
        BY <4>3 DEF Authorize, Deny, Progress
      <4>4. CASE RecordDenial(r) \/ LoseDenial(r)
        BY <4>4 DEF RecordDenial, LoseDenial, Progress
      <4> QED BY <2>4, <4>1, <4>2, <4>3, <4>4 DEF Call, CallStep
    <3> QED BY <3>1, OneGoes
  <2>5. ASSUME NEW r \in Requests, Enter(r) PROVE RequestsGoForward
    <3>1. PICK place \in {"denied", "rejected", "preauth", "csrf_ip"} : Goes(r, place)
      BY <2>5 DEF Enter, Deny
    <3>2. Progress(pc[r]) < Progress(place)
      BY <2>5 DEF Enter, Progress
    <3> QED BY <3>1, <3>2, OneGoes
  <2>6. ASSUME NEW r \in Requests, OpenState(r) \/ ConsumeState(r) PROVE RequestsGoForward
    <3>1. PICK place : Goes(r, place) /\ Progress(pc[r]) < Progress(place)
      BY <2>6 DEF OpenState, ConsumeState, Progress
    <3> QED BY <3>1, OneGoes
  <2>7. ASSUME NEW r \in Requests, NEW scope \in Scopes, Consume(r, scope)
        PROVE  RequestsGoForward
    <3>1. PICK place : Goes(r, place) /\ place = After(scope) /\ pc[r] = scope
      BY <2>7 DEF Consume
    <3>2. Progress(scope) < Progress(place)
      BY <3>1 DEF After, Scopes, Progress
    <3> QED BY <3>1, <3>2, OneGoes
  <2>8. ASSUME NEW r \in Requests, CommitQuota(r) PROVE RequestsGoForward
    <3>1. PICK place \in {"throttled", "admitted", "issuing"} : Goes(r, place) /\ pc[r] = "counted"
      BY <2>8 DEF CommitQuota
    <3>2. Progress("counted") < Progress(place)
      BY DEF Progress
    <3> QED BY <3>1, <3>2, OneGoes
  <2>9. ASSUME NEW r \in Requests, IssuePreauth(r) \/ RenewCsrf(r) PROVE RequestsGoForward
    <3>1. PICK place \in {"done", "rejected"} : Goes(r, place) /\ pc[r] = "issuing"
      BY <2>9 DEF IssuePreauth, RenewCsrf
    <3>2. Progress("issuing") < Progress(place)
      BY DEF Progress
    <3> QED BY <3>1, <3>2, OneGoes
  <2>10. ASSUME NEW r \in Requests, Abort(r) PROVE RequestsGoForward
    <3>1. Goes(r, "failed") /\ pc[r] \in Scopes \cup {"sent", "preauth", "consuming", "counted",
                                                       "issuing"}
      BY <2>10 DEF Abort, AtDatabase
    <3>2. Progress(pc[r]) < Progress("failed")
      BY <3>1 DEF Progress, Scopes
    <3> QED BY <3>1, <3>2, OneGoes
  <2> QED BY <2>1, <2>2, <2>3, <2>4, <2>5, <2>6, <2>7, <2>8, <2>9, <2>10 DEF Next, GateStep
<1> QED BY <1>1, IndInvAlways, PTL DEF Spec
=============================================================================
