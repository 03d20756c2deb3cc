-------------------------- MODULE AuthClient_proofs --------------------------
(***************************************************************************)
(* Safety of AuthClient for every number of tabs, users, memberships and   *)
(* calls.                                                                  *)
(*                                                                         *)
(* The argument is the generation.  Whatever a tab learns to be over it    *)
(* learns in a step that raises its generation, and from then on every     *)
(* answer to an earlier request is stale.  So an answer that still counts  *)
(* was asked for when the tab knew all it knows now; the server gave it    *)
(* from a live session, and what a tab knows to be over is not live.       *)
(***************************************************************************)
EXTENDS AuthClient, SequenceTheorems, TLAPS

Secrets == [kind : {"session", "preauth"}, user : Users \cup {None},
            member : Memberships \cup {None}, live : BOOLEAN]
TabStates == [generation : Nat, csrf : Nat, user : Users \cup {None},
              selected : Memberships \cup {None}, from : Nat]
Sents == [generation : Nat, cookie : Nat, csrf : Nat,
          expected : Memberships \cup {None}, user : Users \cup {None}]
Replies == [status : Nat, token : Nat]
Paths == {"preauth", "login", "csrf", "me", "switch", "logout", "write"}
Steps == {"idle", "sent", "served", "arrived", "body", "done"}
CallStates == [step : Steps, tab : Tabs \cup {None}, does : Methods \cup {"none"},
               arg : Users \cup Memberships \cup {None}, path : Paths \cup {"none"},
               sent : Sents \cup {<<>>}, answer : Replies \cup {<<>>}]
Messages == [generation : Nat, ended : SUBSET Nat]

Shapes ==
    /\ secrets \in Seq(Secrets)
    /\ cookie \in 0..Len(secrets) /\ preauth \in 0..Len(secrets)
    /\ tab \in [Tabs -> TabStates]
    /\ call \in [Calls -> CallStates]
    /\ channel \in [Tabs -> SUBSET Messages]
    /\ told \in [Tabs -> SUBSET Nat]

(* The memberships that the server's sessions and the tabs name are their  *)
(* users'.                                                                 *)
Owned(m, u) == m # None => OwnerOf[m] = u
SessionsOwned == \A n \in 1..Len(secrets) : Owned(secrets[n].member, secrets[n].user)
TabsOwned == \A t \in Tabs : /\ tab[t].csrf \in 0..Len(secrets)
                             /\ Owned(tab[t].selected, tab[t].user)

(* What a tab knows to be over, or will be told, is over.                  *)
Over(n) == n \in 1..Len(secrets) /\ secrets[n].kind = "session" /\ ~secrets[n].live
ToldIsOver ==
    \A t \in Tabs : /\ \A n \in told[t] : Over(n)
                    /\ \A message \in channel[t] : \A n \in message.ended : Over(n)

(* A request under way carries what its tab showed when it was sent.       *)
Pending(c) == call[c].step \in {"sent", "served", "arrived", "body"}
RequestsMade(c) ==
    Pending(c) =>
        /\ call[c].tab \in Tabs /\ call[c].path \in Paths /\ call[c].sent \in Sents
        /\ call[c].sent.generation <= tab[call[c].tab].generation
        /\ call[c].sent.cookie \in 0..Len(secrets)
        /\ Owned(call[c].sent.expected, call[c].sent.user)
        /\ call[c].path \in {"preauth", "login"} => call[c].arg \in Users
        /\ call[c].path = "switch" => call[c].arg \in Memberships

(* What an answer says was so when it was given, and the sessions it ended *)
(* are over; one that still counts says nothing the tab knows to be over.  *)
Answered(c) == call[c].step \in {"served", "arrived", "body"}
AnswersGiven(c) ==
    Answered(c) =>
        /\ call[c].answer \in Replies /\ call[c].answer.token \in 0..Len(secrets)
        /\ call[c].step = "body" => call[c].path = "me" /\ call[c].answer.status = 200
        /\ call[c].step = "served" => call[c].answer.status = 200
        /\ call[c].answer.status = 200 =>
              LET b == call[c].sent.cookie IN
              /\ call[c].path \in {"me", "switch", "logout", "write"} => b \in 1..Len(secrets)
              /\ call[c].path \in {"switch", "logout", "write"} =>
                    call[c].sent.expected = secrets[b].member
              /\ call[c].path \in {"switch", "logout"} => Over(b)
              /\ call[c].path = "switch" => call[c].answer.token # b
              /\ ~Stale(c) => /\ call[c].answer.token \notin told[call[c].tab]
                              /\ call[c].path = "me" => b \notin told[call[c].tab]

IndInv ==
    /\ Shapes
    /\ SessionsOwned
    /\ TabsOwned
    /\ ToldIsOver
    /\ \A c \in Calls : RequestsMade(c) /\ AnswersGiven(c)
    /\ NoReturn

-----------------------------------------------------------------------------
(* Tabs and requests.                                                      *)

(* Calls that wait for nothing promise nothing.                            *)
LEMMA IdleCalls ==
    /\ NoCall \in CallStates /\ NoCall.step = "idle"
    /\ Finished \in CallStates /\ Finished.step = "done"
BY DEF NoCall, Finished, CallStates, Steps

(* The steps of a tab's fields are steps of fields, and raise the          *)
(* generation where the code does.                                         *)
LEMMA FieldsForm ==
    ASSUME NEW s \in TabStates
    PROVE  /\ \A g \in Nat : /\ Invalidated(s, g) \in TabStates
                              /\ Invalidated(s, g).generation = g
                              /\ Invalidated(s, g).csrf = 0
                              /\ Invalidated(s, g).selected = None
           /\ /\ Rotated(s) \in TabStates /\ Rotated(s).generation = s.generation + 1
              /\ Rotated(s).csrf = 0 /\ Rotated(s).selected = None
<1>1. ASSUME NEW g \in Nat
      PROVE  /\ Invalidated(s, g) \in TabStates /\ Invalidated(s, g).generation = g
             /\ Invalidated(s, g).csrf = 0 /\ Invalidated(s, g).selected = None
  BY DEF Invalidated, TabStates
<1>2. /\ Rotated(s) \in TabStates /\ Rotated(s).generation = s.generation + 1
      /\ Rotated(s).csrf = 0 /\ Rotated(s).selected = None
  <2>1. PICK g \in Nat : g = s.generation + 1
    BY DEF TabStates
  <2>2. Rotated(s) = [s EXCEPT !.generation = g, !.csrf = 0, !.selected = None]
    BY <2>1 DEF Rotated
  <2>3. Rotated(s) \in TabStates
    <3>1. \A h \in Nat : [s EXCEPT !.generation = h, !.csrf = 0, !.selected = None] \in TabStates
      BY DEF TabStates
    <3> QED BY <2>2, <3>1
  <2>4. /\ Rotated(s).generation = g /\ Rotated(s).csrf = 0 /\ Rotated(s).selected = None
    BY <2>2 DEF TabStates
  <2> QED BY <2>1, <2>3, <2>4
<1> QED BY <1>1, <1>2

(* A token that is accepted changes nothing else but the generation.       *)
LEMMA AcceptedForm ==
    ASSUME NEW f \in TabStates, NEW v \in Nat
    PROVE  /\ Accepted(f, v) \in TabStates /\ Accepted(f, v).csrf = v
           /\ f.generation <= Accepted(f, v).generation
           /\ Accepted(f, v).selected = f.selected
           /\ Accepted(f, v).user = f.user /\ Accepted(f, v).from = f.from
<1>1. PICK g \in Nat : /\ g = IF f.csrf \in {0, v} THEN f.generation ELSE f.generation + 1
                       /\ f.generation <= g
  BY DEF TabStates
<1>2. Accepted(f, v) = [f EXCEPT !.csrf = v, !.generation = g]
  BY <1>1 DEF Accepted
<1> QED BY <1>1, <1>2 DEF TabStates

(* #request sends what the tab shows and a cookie the browser has.         *)
LEMMA SendingForm ==
    ASSUME IndInv, NEW k \in CallStates, k.tab \in Tabs, NEW path \in Paths,
           NEW s \in TabStates, Owned(s.selected, s.user)
    PROVE  LET n == Sending(k, path, s) IN
           /\ n \in CallStates /\ n.step = "sent" /\ n.path = path
           /\ n.tab = k.tab /\ n.arg = k.arg
           /\ n.sent \in Sents /\ n.sent.generation = s.generation
           /\ n.sent.cookie \in 0..Len(secrets) /\ Owned(n.sent.expected, n.sent.user)
<1>1. Len(secrets) \in Nat /\ cookie \in 0..Len(secrets) /\ preauth \in 0..Len(secrets)
  BY LenProperties DEF IndInv, Shapes
<1>2. PICK b \in 0..Len(secrets) : b = CASE path = "preauth" -> 0
                                          [] path = "login"   -> preauth
                                          [] OTHER            -> cookie
  BY <1>1
<1>3. PICK v \in Nat, m \in Memberships \cup {None}, u \in Users \cup {None} :
        /\ v = (IF path \in UNSAFE THEN s.csrf ELSE 0)
        /\ m = (IF path \in UNSAFE THEN s.selected ELSE None)
        /\ u = (IF path \in UNSAFE THEN s.user ELSE None)
        /\ Owned(m, u)
  BY DEF TabStates, Owned
<1> DEFINE sent == [generation |-> s.generation, cookie |-> b, csrf |-> v,
                    expected |-> m, user |-> u]
<1>4. sent \in Sents
  BY <1>1 DEF Sents, TabStates
<1>5. Sending(k, path, s) = [k EXCEPT !.step = "sent", !.path = path, !.sent = sent]
  BY <1>2, <1>3 DEF Sending
<1>6. sent.generation = s.generation /\ sent.cookie = b /\ sent.expected = m /\ sent.user = u
  OBVIOUS
<1> HIDE DEF sent
<1>7. LET n == [k EXCEPT !.step = "sent", !.path = path, !.sent = sent] IN
      /\ n \in CallStates /\ n.step = "sent" /\ n.path = path
      /\ n.tab = k.tab /\ n.arg = k.arg /\ n.sent = sent
  BY <1>4 DEF CallStates, Steps
<1> QED BY <1>3, <1>4, <1>5, <1>6, <1>7

(* A step of one tab: its generation does not fall, and it learns that     *)
(* something is over only when its generation rises.                       *)
LEMMA TabStepKeeps ==
    ASSUME IndInv, UNCHANGED <<secrets, cookie, preauth>>,
           NEW t \in Tabs, NEW s \in TabStates, tab' = [tab EXCEPT ![t] = s],
           tab[t].generation <= s.generation,
           s.csrf \in 0..Len(secrets), Owned(s.selected, s.user),
           told' \in [Tabs -> SUBSET Nat], \A u \in Tabs \ {t} : told'[u] = told[u],
           told'[t] = told[t] \/ tab[t].generation # s.generation,
           \A n \in told'[t] : Over(n),
           s.csrf \notin told'[t], s.selected # None => s.from \notin told'[t],
           channel' \in [Tabs -> SUBSET Messages],
           \A u \in Tabs : \A message \in channel'[u] : \A n \in message.ended : Over(n),
           call' \in [Calls -> CallStates],
           \A c \in Calls : call'[c] = call[c] \/ (RequestsMade(c)' /\ AnswersGiven(c)')
    PROVE  IndInv'
<1>1. tab'[t] = s /\ \A u \in Tabs \ {t} : tab'[u] = tab[u]
  BY DEF IndInv, Shapes
<1>2. Shapes'
  BY DEF IndInv, Shapes
<1>3. SessionsOwned'
  BY DEF IndInv, SessionsOwned
<1>4. TabsOwned'
  BY <1>1 DEF IndInv, TabsOwned
<1>5. ToldIsOver'
  <2>1. \A n : Over(n)' <=> Over(n)
    BY DEF Over
  <2> QED BY <2>1 DEF IndInv, ToldIsOver
<1>6. NoReturn'
  BY <1>1 DEF IndInv, NoReturn
<1>7. ASSUME NEW c \in Calls, call'[c] = call[c]
      PROVE  RequestsMade(c)' /\ AnswersGiven(c)'
  <2> DEFINE u == call[c].tab
  <2>1. ASSUME Pending(c)
        PROVE  /\ u \in Tabs /\ call[c].sent.generation \in Nat
               /\ call[c].sent.generation <= tab[u].generation
               /\ tab[u].generation \in Nat /\ tab'[u].generation \in Nat
               /\ tab[u].generation <= tab'[u].generation
    <3>1. /\ u \in Tabs /\ call[c].sent.generation \in Nat
          /\ call[c].sent.generation <= tab[u].generation
      BY <2>1 DEF IndInv, RequestsMade, Sents
    <3>2. tab[u].generation \in Nat /\ s.generation \in Nat /\ tab[u].generation <= tab[u].generation
      BY <3>1 DEF IndInv, Shapes, TabStates
    <3> QED BY <3>1, <3>2, <1>1
  <2>2. RequestsMade(c)'
    <3> SUFFICES ASSUME Pending(c) PROVE RequestsMade(c)'
      BY <1>7 DEF RequestsMade, Pending
    <3>1. RequestsMade(c)
      BY DEF IndInv
    <3>2. call[c].sent.generation <= tab'[u].generation
      BY <2>1
    <3> QED BY <1>7, <3>1, <3>2 DEF RequestsMade, Pending
  <2>3. AnswersGiven(c)'
    <3> SUFFICES ASSUME Answered(c) PROVE AnswersGiven(c)'
      BY <1>7 DEF AnswersGiven, Answered
    <3>1. AnswersGiven(c)
      BY DEF IndInv
    <3>2. Pending(c)
      BY DEF Answered, Pending
    <3>3. ~Stale(c)' => ~Stale(c) /\ told'[u] = told[u]
      <4> SUFFICES ASSUME call[c].sent.generation = tab'[u].generation
                   PROVE  call[c].sent.generation = tab[u].generation /\ told'[u] = told[u]
        BY <1>7 DEF Stale
      <4>1. tab[u].generation = tab'[u].generation
        BY <2>1, <3>2
      <4> QED BY <1>1, <2>1, <3>2, <4>1
    <3>4. \A n : Over(n)' <=> Over(n)
      BY DEF Over
    <3> QED BY <1>7, <3>1, <3>3, <3>4 DEF AnswersGiven, Answered
  <2> QED BY <2>2, <2>3
<1> QED BY <1>2, <1>3, <1>4, <1>5, <1>6, <1>7 DEF IndInv

(* Zero is no secret, and the lengths are numbers.                         *)
LEMMA Numbers ==
    ASSUME IndInv
    PROVE  /\ Len(secrets) \in Nat /\ 0 \in 0..Len(secrets) /\ ~Over(0)
           /\ \A t \in Tabs : tab[t] \in TabStates /\ tab[t].generation \in Nat
           /\ \A c \in Calls : call[c] \in CallStates
<1>1. Len(secrets) \in Nat
  BY LenProperties DEF IndInv, Shapes
<1> QED BY <1>1 DEF IndInv, Shapes, TabStates, Over

(* A message tells the other tabs what is over, and its sender knows.      *)
LEMMA PostForm ==
    ASSUME IndInv, NEW t \in Tabs, NEW s \in TabStates, NEW ended \in SUBSET Nat,
           \A n \in ended : Over(n), Post(t, s, ended)
    PROVE  /\ channel' \in [Tabs -> SUBSET Messages]
           /\ \A u \in Tabs : \A message \in channel'[u] : \A n \in message.ended : Over(n)
           /\ told' \in [Tabs -> SUBSET Nat] /\ told'[t] = told[t] \cup ended
           /\ \A u \in Tabs \ {t} : told'[u] = told[u]
           /\ \A n \in told'[t] : Over(n)
<1> DEFINE new == [generation |-> s.generation, ended |-> ended]
<1>1. new \in Messages /\ new.ended = ended
  BY DEF Messages, TabStates
<1>2. channel' = [u \in Tabs |-> IF u = t THEN channel[u] ELSE channel[u] \cup {new}]
  BY DEF Post
<1> HIDE DEF new
<1>3. /\ channel' \in [Tabs -> SUBSET Messages]
      /\ \A u \in Tabs : \A message \in channel'[u] : message \in channel[u] \/ message = new
  BY <1>1, <1>2 DEF IndInv, Shapes
<1>4. \A u \in Tabs : \A message \in channel'[u] : \A n \in message.ended : Over(n)
  BY <1>1, <1>3 DEF IndInv, ToldIsOver
<1>5. /\ told' \in [Tabs -> SUBSET Nat] /\ told'[t] = told[t] \cup ended
      /\ \A u \in Tabs \ {t} : told'[u] = told[u]
  BY DEF Post, IndInv, Shapes
<1>6. \A n \in told'[t] : Over(n)
  BY <1>5 DEF IndInv, ToldIsOver
<1> QED BY <1>3, <1>4, <1>5, <1>6

(* Where nothing is posted and nothing received nothing is learned.        *)
LEMMA NothingTold ==
    ASSUME IndInv, UNCHANGED <<channel, told>>
    PROVE  /\ channel' \in [Tabs -> SUBSET Messages] /\ told' \in [Tabs -> SUBSET Nat]
           /\ \A u \in Tabs : told'[u] = told[u] /\ \A n \in told'[u] : Over(n)
           /\ \A u \in Tabs : \A message \in channel'[u] : \A n \in message.ended : Over(n)
BY DEF IndInv, Shapes, ToldIsOver

(* What a tab holds is none of what it knows to be over.                   *)
LEMMA HeldIsFree ==
    ASSUME IndInv, NEW t \in Tabs
    PROVE  /\ tab[t].csrf \in 0..Len(secrets) /\ Owned(tab[t].selected, tab[t].user)
           /\ tab[t].csrf \notin told[t]
           /\ tab[t].selected # None => tab[t].from \notin told[t]
           /\ 0 \notin told[t]
BY Numbers DEF IndInv, TabsOwned, NoReturn, ToldIsOver

(* A step of one tab that neither posts nor receives.                      *)
LEMMA QuietStepKeeps ==
    ASSUME IndInv, UNCHANGED <<secrets, cookie, preauth, channel, told>>,
           NEW t \in Tabs, NEW s \in TabStates, tab' = [tab EXCEPT ![t] = s],
           tab[t].generation <= s.generation,
           s.csrf \in 0..Len(secrets), Owned(s.selected, s.user),
           s.csrf \notin told[t], s.selected # None => s.from \notin told[t],
           call' \in [Calls -> CallStates],
           \A c \in Calls : call'[c] = call[c] \/ (RequestsMade(c)' /\ AnswersGiven(c)')
    PROVE  IndInv'
<1>1. /\ channel' \in [Tabs -> SUBSET Messages] /\ told' \in [Tabs -> SUBSET Nat]
      /\ \A u \in Tabs : told'[u] = told[u] /\ \A n \in told'[u] : Over(n)
      /\ \A u \in Tabs : \A message \in channel'[u] : \A n \in message.ended : Over(n)
  BY NothingTold
<1>2. s.csrf \notin told'[t] /\ (s.selected # None => s.from \notin told'[t])
  BY <1>1
<1> QED BY <1>1, <1>2, TabStepKeeps

(* The next generation is a later one.                                     *)
LEMMA Successor == \A g \in Nat : g + 1 \in Nat /\ g <= g + 1 /\ g # g + 1 /\ g <= g
OBVIOUS

(* A request just sent has its own part of the invariant.                  *)
LEMMA SentKeeps ==
    ASSUME NEW c \in Calls, Len(secrets)' \in Nat, call'[c].step = "sent", call'[c].tab \in Tabs,
           call'[c].path \in Paths, call'[c].sent \in Sents,
           call'[c].sent.generation = tab'[call'[c].tab].generation,
           call'[c].sent.cookie \in 0..Len(secrets'),
           Owned(call'[c].sent.expected, call'[c].sent.user),
           call'[c].path \in {"preauth", "login"} => call'[c].arg \in Users,
           call'[c].path = "switch" => call'[c].arg \in Memberships
    PROVE  RequestsMade(c)' /\ AnswersGiven(c)'
<1>1. call'[c].sent.generation \in Nat
  BY DEF Sents
<1>2. call'[c].sent.generation <= tab'[call'[c].tab].generation
  BY <1>1
<1>3. RequestsMade(c)'
  BY <1>2 DEF RequestsMade
<1> QED BY <1>3 DEF AnswersGiven, Answered

(* A call that is over has none to keep.                                   *)
LEMMA FinishedKeeps ==
    ASSUME IndInv, NEW c \in Calls, Finish(c)
    PROVE  /\ call' \in [Calls -> CallStates]
           /\ \A d \in Calls : call'[d] = call[d] \/ (RequestsMade(d)' /\ AnswersGiven(d)')
<1>1. call' \in [Calls -> CallStates] /\ call'[c] = Finished
      /\ \A d \in Calls \ {c} : call'[d] = call[d]
  BY IdleCalls DEF Finish, IndInv, Shapes
<1>2. RequestsMade(c)' /\ AnswersGiven(c)'
  BY <1>1, IdleCalls DEF RequestsMade, Pending, AnswersGiven, Answered
<1> QED BY <1>1, <1>2

-----------------------------------------------------------------------------
(* Every action of a tab keeps the invariant.                              *)

(* A method is called.                                                     *)
LEMMA BeginKeeps ==
    ASSUME IndInv, NEW c \in Calls, NEW t \in Tabs, NEW does \in Methods,
           NEW arg \in Arguments(does), Begin(c, t, does, arg)
    PROVE  IndInv'
<1> DEFINE new == [NoCall EXCEPT !.tab = t, !.does = does, !.arg = arg]
<1>1. /\ arg \in Users \cup Memberships \cup {None}
      /\ does = "login" => arg \in Users
      /\ does = "switch" => arg \in Memberships
  BY DEF Arguments
<1>2. new \in CallStates /\ new.tab = t /\ new.arg = arg
  <2>1. NoCall \in CallStates
    BY IdleCalls
  <2> QED BY <1>1, <2>1 DEF CallStates
<1> HIDE DEF new
<1>3. UNCHANGED <<secrets, cookie, preauth>>
  BY DEF Begin
<1>4. ASSUME NEW path \in Paths, NEW s \in TabStates, Owned(s.selected, s.user),
             call' = [call EXCEPT ![c] = Sending(new, path, s)], tab'[t] = s,
             path \in {"preauth", "login"} => arg \in Users,
             path = "switch" => arg \in Memberships
      PROVE  /\ call' \in [Calls -> CallStates]
             /\ \A d \in Calls : call'[d] = call[d] \/ (RequestsMade(d)' /\ AnswersGiven(d)')
  <2> DEFINE n == Sending(new, path, s)
  <2>1. /\ n \in CallStates /\ n.step = "sent" /\ n.path = path
        /\ n.tab = t /\ n.arg = arg
        /\ n.sent \in Sents /\ n.sent.generation = s.generation
        /\ n.sent.cookie \in 0..Len(secrets) /\ Owned(n.sent.expected, n.sent.user)
    BY <1>2, <1>4, SendingForm
  <2> HIDE DEF n
  <2>2. call' \in [Calls -> CallStates] /\ call'[c] = n
        /\ \A d \in Calls \ {c} : call'[d] = call[d]
    BY <1>4, <2>1 DEF n, IndInv, Shapes
  <2>3. Len(secrets') \in Nat
    BY <1>3, Numbers
  <2>4. RequestsMade(c)' /\ AnswersGiven(c)'
    BY <1>3, <1>4, <2>1, <2>2, <2>3, SentKeeps
  <2> QED BY <2>2, <2>4
<1>5. tab[t] \in TabStates /\ tab[t].generation \in Nat
  BY Numbers
<1>6. CASE does = "login"
  <2> DEFINE s == Rotated(tab[t])
  <2>1. /\ tab' = [tab EXCEPT ![t] = s] /\ Post(t, s, {})
        /\ call' = [call EXCEPT ![c] = Sending(new, "preauth", s)]
    BY <1>6 DEF Begin, Becomes, new
  <2>2. /\ s \in TabStates /\ s.generation = tab[t].generation + 1 /\ s.csrf = 0
        /\ s.selected = None /\ Owned(s.selected, s.user)
    BY <1>5, FieldsForm DEF Owned
  <2> HIDE DEF s
  <2>3. tab'[t] = s
    BY <2>1 DEF IndInv, Shapes
  <2>4. tab[t].generation <= s.generation
    BY <1>5, <2>2
  <2>5. /\ call' \in [Calls -> CallStates]
        /\ \A d \in Calls : call'[d] = call[d] \/ (RequestsMade(d)' /\ AnswersGiven(d)')
    BY <1>1, <1>4, <1>6, <2>1, <2>2, <2>3 DEF Paths
  <2>6. /\ channel' \in [Tabs -> SUBSET Messages]
        /\ \A u \in Tabs : \A message \in channel'[u] : \A n \in message.ended : Over(n)
        /\ told' \in [Tabs -> SUBSET Nat] /\ told'[t] = told[t]
        /\ \A u \in Tabs \ {t} : told'[u] = told[u]
        /\ \A n \in told'[t] : Over(n)
    <3>1. PICK nothing \in SUBSET Nat : nothing = {}
      OBVIOUS
    <3>2. told[t] \cup nothing = told[t] /\ \A n \in nothing : Over(n)
      BY <3>1
    <3> QED BY <2>1, <2>2, <3>1, <3>2, PostForm
  <2>7. s.csrf \in 0..Len(secrets) /\ s.csrf \notin told'[t]
    BY <2>2, <2>6, Numbers, HeldIsFree
  <2> QED BY <1>3, <2>1, <2>2, <2>4, <2>5, <2>6, <2>7, TabStepKeeps
<1>7. CASE does # "login"
  <2>1. /\ call' = [call EXCEPT ![c] = Sending(new, does, tab[t])]
        /\ UNCHANGED <<tab, channel, told>>
    BY <1>7 DEF Begin, new
  <2>2. tab'[t] = tab[t] /\ tab' = [tab EXCEPT ![t] = tab[t]]
    BY <2>1 DEF IndInv, Shapes
  <2>3. does \in Paths /\ does \notin {"preauth", "login"}
    BY <1>7 DEF Methods, Paths
  <2>4. /\ call' \in [Calls -> CallStates]
        /\ \A d \in Calls : call'[d] = call[d] \/ (RequestsMade(d)' /\ AnswersGiven(d)')
    BY <1>1, <1>4, <1>5, <2>1, <2>2, <2>3, HeldIsFree
  <2>5. tab[t].generation <= tab[t].generation
    BY <1>5
  <2> QED BY <1>3, <1>5, <2>1, <2>2, <2>4, <2>5, HeldIsFree, QuietStepKeeps
<1> QED BY <1>6, <1>7

(* A message is handled.                                                   *)
LEMMA ReceiveKeeps ==
    ASSUME IndInv, NEW t \in Tabs, Receive(t)
    PROVE  IndInv'
<1>1. PICK message \in channel[t] :
        /\ Becomes(t, Invalidated(tab[t], IF message.generation > tab[t].generation
                                          THEN message.generation
                                          ELSE tab[t].generation + 1))
        /\ channel' = [channel EXCEPT ![t] = @ \ {message}]
        /\ told' = [told EXCEPT ![t] = @ \cup message.ended]
        /\ UNCHANGED <<secrets, cookie, preauth, call>>
  BY DEF Receive
<1>2. /\ message.generation \in Nat /\ message.ended \in SUBSET Nat
      /\ tab[t] \in TabStates /\ tab[t].generation \in Nat
  BY Numbers DEF IndInv, Shapes, Messages
<1>3. PICK g \in Nat : /\ g = IF message.generation > tab[t].generation
                              THEN message.generation ELSE tab[t].generation + 1
                       /\ tab[t].generation <= g /\ tab[t].generation # g
  BY <1>2
<1> DEFINE s == Invalidated(tab[t], g)
<1>4. /\ s \in TabStates /\ s.generation = g /\ s.csrf = 0 /\ s.selected = None
      /\ Owned(s.selected, s.user)
  BY <1>2, FieldsForm DEF Owned
<1>5. tab' = [tab EXCEPT ![t] = s]
  BY <1>1, <1>3 DEF Becomes
<1> HIDE DEF s
<1>6. /\ told' \in [Tabs -> SUBSET Nat] /\ \A u \in Tabs \ {t} : told'[u] = told[u]
      /\ told'[t] = told[t] \cup message.ended
  BY <1>1, <1>2 DEF IndInv, Shapes
<1>7. \A n \in told'[t] : Over(n)
  BY <1>1, <1>6 DEF IndInv, ToldIsOver
<1>8. /\ channel' \in [Tabs -> SUBSET Messages]
      /\ \A u \in Tabs : channel'[u] \subseteq channel[u]
  BY <1>1 DEF IndInv, Shapes
<1>9. \A u \in Tabs : \A m \in channel'[u] : \A n \in m.ended : Over(n)
  BY <1>8 DEF IndInv, ToldIsOver
<1>10. s.csrf \in 0..Len(secrets) /\ s.csrf \notin told'[t]
  BY <1>4, <1>7, Numbers
<1>11. call' \in [Calls -> CallStates] /\ call' = call
  BY <1>1 DEF IndInv, Shapes
<1> QED BY <1>1, <1>3, <1>4, <1>5, <1>6, <1>7, <1>8, <1>9, <1>10, <1>11, TabStepKeeps

(* An answer is refused: the tab forgets its context, or nothing happens.  *)
LEMMA ThrowKeeps ==
    ASSUME IndInv, NEW c \in Calls, call[c].step = "arrived", Throw(c),
           UNCHANGED <<secrets, cookie, preauth>>
    PROVE  IndInv'
<1> DEFINE t == call[c].tab
<1>1. t \in Tabs /\ tab[t] \in TabStates /\ tab[t].generation \in Nat
  <2>1. t \in Tabs
    BY DEF IndInv, RequestsMade, Pending
  <2> QED BY <2>1, Numbers
<1>2. /\ call' \in [Calls -> CallStates]
      /\ \A d \in Calls : call'[d] = call[d] \/ (RequestsMade(d)' /\ AnswersGiven(d)')
  BY FinishedKeeps DEF Throw
<1>3. UNCHANGED <<channel, told>>
  BY DEF Throw
<1>4. CASE UNCHANGED tab
  <2>1. tab' = [tab EXCEPT ![t] = tab[t]] /\ tab[t].generation <= tab[t].generation
    BY <1>1, <1>4 DEF IndInv, Shapes
  <2> QED BY <1>1, <1>2, <1>3, <2>1, HeldIsFree, QuietStepKeeps
<1>5. CASE Becomes(t, Invalidated(tab[t], tab[t].generation + 1))
  <2>1. PICK g \in Nat : g = tab[t].generation + 1 /\ tab[t].generation <= g
    BY <1>1, Successor
  <2> DEFINE s == Invalidated(tab[t], g)
  <2>2. /\ s \in TabStates /\ s.generation = g /\ s.csrf = 0 /\ s.selected = None
        /\ Owned(s.selected, s.user)
    BY <1>1, FieldsForm DEF Owned
  <2>3. tab' = [tab EXCEPT ![t] = s]
    BY <1>5, <2>1 DEF Becomes
  <2> HIDE DEF s
  <2>4. s.csrf \in 0..Len(secrets) /\ s.csrf \notin told[t]
    BY <1>1, <2>2, Numbers, HeldIsFree
  <2> QED BY <1>1, <1>2, <1>3, <2>1, <2>2, <2>3, <2>4, QuietStepKeeps
<1> QED BY <1>4, <1>5 DEF Throw

(* The next request of a method: the tab's fields are s by then.           *)
LEMMA NextRequest ==
    ASSUME IndInv, NEW c \in Calls, Pending(c), UNCHANGED <<secrets, cookie, preauth>>,
           NEW path \in Paths, path # "switch", path \in {"preauth", "login"} => call[c].arg \in Users,
           NEW s \in TabStates, Owned(s.selected, s.user), tab'[call[c].tab] = s,
           call' = [call EXCEPT ![c] = Sending(@, path, s)]
    PROVE  /\ call' \in [Calls -> CallStates]
           /\ \A d \in Calls : call'[d] = call[d] \/ (RequestsMade(d)' /\ AnswersGiven(d)')
<1> DEFINE n == Sending(call[c], path, s)
<1>1. call[c] \in CallStates /\ call[c].tab \in Tabs
  BY Numbers DEF IndInv, RequestsMade
<1>2. /\ n \in CallStates /\ n.step = "sent" /\ n.path = path
      /\ n.tab = call[c].tab /\ n.arg = call[c].arg
      /\ n.sent \in Sents /\ n.sent.generation = s.generation
      /\ n.sent.cookie \in 0..Len(secrets) /\ Owned(n.sent.expected, n.sent.user)
  BY <1>1, SendingForm
<1>3. call' = [call EXCEPT ![c] = n]
  OBVIOUS
<1> HIDE DEF n
<1>4. call' \in [Calls -> CallStates] /\ call'[c] = n
      /\ \A d \in Calls \ {c} : call'[d] = call[d]
  BY <1>2, <1>3 DEF IndInv, Shapes
<1>5. Len(secrets') \in Nat
  BY Numbers
<1>6. RequestsMade(c)' /\ AnswersGiven(c)'
  BY <1>1, <1>2, <1>4, <1>5, SentKeeps
<1> QED BY <1>4, <1>6

(* An answer is accepted.                                                  *)
LEMMA ContinueKeeps ==
    ASSUME IndInv, NEW c \in Calls, call[c].step = "arrived", ~Stale(c),
           call[c].answer.status = 200, Continue(c), UNCHANGED <<secrets, cookie, preauth>>
    PROVE  IndInv'
<1> DEFINE t == call[c].tab
           s == tab[t]
           token == call[c].answer.token
           path == call[c].path
           b == call[c].sent.cookie
<1>1. Pending(c) /\ Answered(c) /\ RequestsMade(c) /\ AnswersGiven(c)
  BY DEF Pending, Answered, IndInv
<1>2. t \in Tabs /\ token \in 0..Len(secrets) /\ token \notin told[t] /\ call[c].sent \in Sents
  BY <1>1 DEF RequestsMade, AnswersGiven
<1>3. /\ s \in TabStates /\ s.generation \in Nat /\ token \in Nat
      /\ Owned(s.selected, s.user) /\ 0 \in 0..Len(secrets) /\ 0 \notin told[t]
      /\ s.selected # None => s.from \notin told[t]
  BY <1>2, Numbers, HeldIsFree
<1>0. s = tab[t] /\ tab[t].generation = s.generation
  OBVIOUS
<1> DEFINE a == Accepted(s, token)
<1> HIDE DEF s, token, t
<1>4. /\ a \in TabStates /\ a.csrf = token /\ s.generation <= a.generation
      /\ a.selected = s.selected /\ a.user = s.user /\ a.from = s.from
      /\ Owned(a.selected, a.user)
  <2>1. /\ a \in TabStates /\ a.csrf = token /\ s.generation <= a.generation
        /\ a.selected = s.selected /\ a.user = s.user /\ a.from = s.from
    <3>1. PICK f \in TabStates, v \in Nat : f = s /\ v = token
      BY <1>3
    <3>2. /\ Accepted(f, v) \in TabStates /\ Accepted(f, v).csrf = v
          /\ f.generation <= Accepted(f, v).generation
          /\ Accepted(f, v).selected = f.selected
          /\ Accepted(f, v).user = f.user /\ Accepted(f, v).from = f.from
      BY AcceptedForm
    <3> QED BY <3>1, <3>2
  <2> QED BY <1>3, <2>1
<1> HIDE DEF a
<1>5. ASSUME tab' = [tab EXCEPT ![t] = a], UNCHANGED <<channel, told>>,
             call' \in [Calls -> CallStates],
             \A d \in Calls : call'[d] = call[d] \/ (RequestsMade(d)' /\ AnswersGiven(d)')
      PROVE  IndInv'
  <2>1. a.csrf \in 0..Len(secrets) /\ a.csrf \notin told[t]
    BY <1>2, <1>4
  <2>2. a.selected # None => a.from \notin told[t]
    BY <1>3, <1>4
  <2> QED BY <1>0, <1>2, <1>4, <1>5, <2>1, <2>2, QuietStepKeeps
<1>6. CASE path = "preauth" \/ path = "csrf"
  <2>1. tab' = [tab EXCEPT ![t] = a] /\ UNCHANGED <<channel, told>>
    BY <1>6 DEF Continue, Becomes, a, s, t, token
  <2>2. tab'[t] = a
    BY <1>2, <2>1 DEF IndInv, Shapes
  <2>3. CASE path = "preauth"
    <3>1. call' = [call EXCEPT ![c] = Sending(@, "login", a)]
      BY <2>3 DEF Continue, a, s, t, token
    <3>2. call[c].arg \in Users
      BY <1>1, <2>3 DEF RequestsMade
    <3>3. "login" \in Paths /\ "login" # "switch"
      BY DEF Paths
    <3> QED BY <1>1, <1>4, <1>5, <2>1, <2>2, <3>1, <3>2, <3>3, NextRequest DEF t
  <2>4. CASE path = "csrf"
    <3>1. Finish(c)
      BY <2>4 DEF Continue
    <3> QED BY <1>5, <2>1, <3>1, FinishedKeeps
  <2> QED BY <1>6, <2>3, <2>4
<1>7. ASSUME NEW n \in TabStates, NEW r \in TabStates, NEW ended \in SUBSET {b},
             tab' = [tab EXCEPT ![t] = n], Post(t, r, ended), n.selected = None,
             ended # {} => path \in {"switch", "logout"},
             n.csrf \in 0..Len(secrets), n.csrf \notin told[t] \cup ended,
             s.generation <= n.generation, s.generation # n.generation,
             call' \in [Calls -> CallStates],
             \A d \in Calls : call'[d] = call[d] \/ (RequestsMade(d)' /\ AnswersGiven(d)')
      PROVE  IndInv'
  <2>1. \A i \in ended : Over(i)
    BY <1>1, <1>7 DEF AnswersGiven
  <2>2. ended \in SUBSET Nat
    BY <1>2, <1>7 DEF Sents
  <2>3. /\ channel' \in [Tabs -> SUBSET Messages]
        /\ \A u \in Tabs : \A message \in channel'[u] : \A i \in message.ended : Over(i)
        /\ told' \in [Tabs -> SUBSET Nat] /\ told'[t] = told[t] \cup ended
        /\ \A u \in Tabs \ {t} : told'[u] = told[u]
        /\ \A i \in told'[t] : Over(i)
    BY <1>2, <1>7, <2>1, <2>2, PostForm
  <2>4. Owned(n.selected, n.user)
    BY <1>7 DEF Owned
  <2>5. n.csrf \notin told'[t] /\ tab[t].generation <= n.generation /\ tab[t].generation # n.generation
    BY <1>0, <1>7, <2>3
  <2> QED BY <1>2, <1>7, <2>3, <2>4, <2>5, TabStepKeeps
<1>8. CASE path \in {"login", "switch"}
  <2> DEFINE r == Rotated(a)
             n == [r EXCEPT !.csrf = token]
             ended == IF path = "login" THEN {} ELSE {b}
  <2>1. r \in TabStates /\ r.generation = a.generation + 1 /\ r.selected = None
    BY <1>4, FieldsForm
  <2>2. /\ tab' = [tab EXCEPT ![t] = n] /\ Post(t, r, ended)
        /\ call' = [call EXCEPT ![c] = Sending(@, "me", n)]
    BY <1>8 DEF Continue, Becomes, a, s, t, token
  <2> HIDE DEF r
  <2>3. /\ n \in TabStates /\ n.csrf = token /\ n.generation = r.generation
        /\ n.selected = None
    BY <1>3, <2>1 DEF TabStates
  <2>4. s.generation <= n.generation /\ s.generation # n.generation
    <3>1. a.generation \in Nat
      BY <1>4 DEF TabStates
    <3> QED BY <1>3, <1>4, <2>1, <2>3, <3>1
  <2>5. ended \in SUBSET {b} /\ (ended # {} => path \in {"switch", "logout"})
        /\ token \notin told[t] \cup ended
    BY <1>1, <1>2, <1>8 DEF AnswersGiven, token
  <2>6. tab'[t] = n /\ Owned(n.selected, n.user)
    BY <1>2, <2>2, <2>3 DEF IndInv, Shapes, Owned
  <2> HIDE DEF n, ended
  <2>7. /\ call' \in [Calls -> CallStates]
        /\ \A d \in Calls : call'[d] = call[d] \/ (RequestsMade(d)' /\ AnswersGiven(d)')
    <3>1. "me" \in Paths /\ "me" # "switch" /\ "me" \notin {"preauth", "login"}
      BY DEF Paths
    <3> QED BY <1>1, <2>2, <2>3, <2>6, <3>1, NextRequest DEF t
  <2>8. n.csrf \in 0..Len(secrets) /\ n.csrf \notin told[t] \cup ended
    BY <1>2, <2>3, <2>5
  <2>9. PICK f \in TabStates, g \in TabStates, over \in SUBSET {b} : f = n /\ g = r /\ over = ended
    BY <2>1, <2>3, <2>5
  <2>10. /\ tab' = [tab EXCEPT ![t] = f] /\ Post(t, g, over) /\ f.selected = None
         /\ over # {} => path \in {"switch", "logout"}
         /\ f.csrf \in 0..Len(secrets) /\ f.csrf \notin told[t] \cup over
         /\ s.generation <= f.generation /\ s.generation # f.generation
    BY <2>2, <2>3, <2>4, <2>5, <2>8, <2>9
  <2> QED BY <1>7, <2>7, <2>10
<1>9. CASE path = "logout"
  <2> DEFINE r == Rotated(s)
  <2>1. r \in TabStates /\ r.generation = s.generation + 1 /\ r.csrf = 0 /\ r.selected = None
    BY <1>3, FieldsForm
  <2>2. tab' = [tab EXCEPT ![t] = r] /\ Post(t, r, {b}) /\ Finish(c)
    BY <1>9 DEF Continue, Becomes, s, t
  <2> HIDE DEF r
  <2>3. s.generation <= r.generation /\ s.generation # r.generation
    BY <1>3, <2>1
  <2>4. r.csrf \in 0..Len(secrets) /\ r.csrf \notin told[t] \cup {b} /\ {b} \in SUBSET {b}
    <3>1. Over(b)
      BY <1>1, <1>9 DEF AnswersGiven
    <3> QED BY <1>3, <2>1, <3>1, Numbers
  <2> QED BY <1>7, <1>9, <2>1, <2>2, <2>3, <2>4, FinishedKeeps
<1>10. CASE path \in {"me", "write"}
  <2>1. UNCHANGED <<tab, channel, told>>
    BY <1>10 DEF Continue
  <2>2. /\ call' \in [Calls -> CallStates]
        /\ \A d \in Calls : call'[d] = call[d] \/ (RequestsMade(d)' /\ AnswersGiven(d)')
    <3>1. CASE path = "write"
      BY <3>1, FinishedKeeps DEF Continue
    <3>2. CASE path = "me"
      <4>1. call' = [call EXCEPT ![c].step = "body"]
        BY <3>2 DEF Continue
      <4>2. call[c] \in CallStates
        BY Numbers
      <4> DEFINE n == [call[c] EXCEPT !.step = "body"]
      <4>3. /\ n \in CallStates /\ n.step = "body" /\ n.tab = call[c].tab /\ n.path = call[c].path
            /\ n.sent = call[c].sent /\ n.answer = call[c].answer /\ n.arg = call[c].arg
        BY <4>2 DEF CallStates, Steps
      <4>4. call' = [call EXCEPT ![c] = n]
        BY <4>1
      <4> HIDE DEF n
      <4>5. call' \in [Calls -> CallStates] /\ call'[c] = n
            /\ \A d \in Calls \ {c} : call'[d] = call[d]
        BY <4>3, <4>4 DEF IndInv, Shapes
      <4>6. RequestsMade(c)'
        BY <1>1, <2>1, <4>3, <4>5 DEF RequestsMade, Pending
      <4>7. AnswersGiven(c)'
        BY <1>1, <2>1, <3>2, <4>3, <4>5 DEF AnswersGiven, Answered, Stale
      <4> QED BY <4>5, <4>6, <4>7
    <3> QED BY <1>10, <3>1, <3>2
  <2>3. tab' = [tab EXCEPT ![t] = s] /\ s.generation <= s.generation
    BY <1>0, <1>2, <1>3, <2>1 DEF IndInv, Shapes
  <2>4. s.csrf \in 0..Len(secrets) /\ s.csrf \notin told[t]
    BY <1>0, <1>2, HeldIsFree
  <2>5. PICK f \in TabStates : f = s
    BY <1>3
  <2>6. /\ tab' = [tab EXCEPT ![t] = f] /\ tab[t].generation <= f.generation
        /\ f.csrf \in 0..Len(secrets) /\ f.csrf \notin told[t] /\ Owned(f.selected, f.user)
        /\ f.selected # None => f.from \notin told[t]
    BY <1>0, <1>3, <2>3, <2>4, <2>5
  <2> QED BY <1>2, <2>1, <2>2, <2>6, QuietStepKeeps
<1> QED BY <1>6, <1>8, <1>9, <1>10 DEF Continue

(* The body of me is read.                                                 *)
LEMMA ReadBodyKeeps ==
    ASSUME IndInv, NEW c \in Calls, ReadBody(c)
    PROVE  IndInv'
<1> DEFINE t == call[c].tab
           b == call[c].sent.cookie
<1>1. call[c].step = "body" /\ Finish(c) /\ UNCHANGED <<secrets, cookie, preauth, channel, told>>
  BY DEF ReadBody
<1>2. RequestsMade(c) /\ AnswersGiven(c) /\ Pending(c) /\ Answered(c)
  BY <1>1 DEF IndInv, Pending, Answered
<1>3. t \in Tabs /\ b \in 1..Len(secrets) /\ b \in Nat /\ (~Stale(c) => b \notin told[t])
  BY <1>1, <1>2 DEF RequestsMade, AnswersGiven, Sents
<1>4. tab[t] \in TabStates /\ tab[t].generation \in Nat /\ tab[t].generation <= tab[t].generation
  BY <1>3, Numbers
<1>5. /\ call' \in [Calls -> CallStates]
      /\ \A d \in Calls : call'[d] = call[d] \/ (RequestsMade(d)' /\ AnswersGiven(d)')
  BY <1>1, FinishedKeeps
<1>6. CASE Stale(c)
  <2>1. tab' = [tab EXCEPT ![t] = tab[t]]
    BY <1>6 DEF ReadBody, IndInv, Shapes
  <2> QED BY <1>1, <1>3, <1>4, <1>5, <2>1, HeldIsFree, QuietStepKeeps
<1>7. CASE ~Stale(c)
  <2> DEFINE u == secrets[b].user
             m == secrets[b].member
             s == [tab[t] EXCEPT !.user = u, !.selected = m, !.from = b]
  <2>1. u \in Users \cup {None} /\ m \in Memberships \cup {None} /\ Owned(m, u)
    <3>1. secrets[b] \in Secrets
      BY <1>3, ElementOfSeq DEF IndInv, Shapes
    <3> QED BY <1>3, <3>1 DEF Secrets, IndInv, SessionsOwned
  <2>2. tab' = [tab EXCEPT ![t] = s]
    BY <1>7 DEF ReadBody, Becomes
  <2> HIDE DEF u, m
  <2>3. /\ s \in TabStates /\ s.generation = tab[t].generation /\ s.csrf = tab[t].csrf
        /\ s.user = u /\ s.selected = m /\ s.from = b
    BY <1>3, <1>4, <2>1 DEF TabStates
  <2> HIDE DEF s
  <2>4. s.csrf \in 0..Len(secrets) /\ s.csrf \notin told[t]
    BY <1>3, <2>3, HeldIsFree
  <2> QED BY <1>1, <1>3, <1>4, <1>5, <1>7, <2>1, <2>2, <2>3, <2>4, QuietStepKeeps
<1> QED BY <1>6, <1>7

-----------------------------------------------------------------------------
(* The server keeps the invariant.                                         *)

(* The server adds secrets and closes them, and changes nothing else.      *)
Grown ==
    /\ secrets' \in Seq(Secrets) /\ Len(secrets) <= Len(secrets')
    /\ \A n \in 1..Len(secrets) :
          /\ secrets'[n].kind = secrets[n].kind /\ secrets'[n].user = secrets[n].user
          /\ secrets'[n].member = secrets[n].member
          /\ secrets'[n].live => secrets[n].live
    /\ SessionsOwned'

(* What is over stays over.                                                *)
LEMMA OverStays ==
    ASSUME IndInv, Grown, NEW n, Over(n)
    PROVE  Over(n)'
<1>1. Len(secrets) \in Nat /\ Len(secrets') \in Nat
  BY LenProperties DEF IndInv, Shapes, Grown
<1>2. n \in 1..Len(secrets) /\ n \in 1..Len(secrets')
  BY <1>1 DEF Over, Grown
<1> QED BY <1>2 DEF Over, Grown

(* An answer is given: the other calls see only secrets added and closed.  *)
LEMMA AnswerKeeps ==
    ASSUME IndInv, Grown, UNCHANGED <<cookie, preauth, tab, channel, told>>,
           NEW c \in Calls, call[c].step = "sent",
           NEW status \in Nat, NEW token \in 0..Len(secrets'), Answer(c, status, token),
           NEW b, b = call[c].sent.cookie,
           status = 200 =>
              /\ call[c].path \in {"me", "switch", "logout", "write"} => b \in 1..Len(secrets)
              /\ call[c].path \in {"switch", "logout", "write"} =>
                    call[c].sent.expected = secrets[b].member
              /\ call[c].path \in {"switch", "logout"} => Over(b)'
              /\ call[c].path = "switch" => token # b
              /\ token \notin told[call[c].tab]
              /\ call[c].path = "me" => b \notin told[call[c].tab]
    PROVE  IndInv'
<1>1. /\ Len(secrets) \in Nat /\ Len(secrets') \in Nat /\ Len(secrets) <= Len(secrets')
      /\ \A n : n \in 0..Len(secrets) => n \in 0..Len(secrets')
      /\ \A n : n \in 1..Len(secrets) => n \in 1..Len(secrets')
  BY LenProperties DEF IndInv, Shapes, Grown
<1>2. \A n \in 1..Len(secrets) : secrets'[n].member = secrets[n].member
  BY DEF Grown
<1>3. \A n : Over(n) => Over(n)'
  BY OverStays
<1>4. PICK r \in Replies : r = [status |-> status, token |-> token] /\ r.status = status /\ r.token = token
  <2>1. token \in Nat
    BY <1>1
  <2>2. [status |-> status, token |-> token] \in Replies
    BY <2>1 DEF Replies
  <2> QED BY <2>2
<1>5. PICK step \in {"served", "arrived"} :
        /\ step = IF status = 200 /\ call[c].path \in SetsCookie THEN "served" ELSE "arrived"
        /\ step = "served" => status = 200
  OBVIOUS
<1> DEFINE n == [call[c] EXCEPT !.step = step, !.answer = r]
<1>6. call' = [call EXCEPT ![c] = n]
  BY <1>4, <1>5 DEF Answer
<1>7. /\ n \in CallStates /\ n.step = step /\ n.answer = r /\ n.tab = call[c].tab
      /\ n.path = call[c].path /\ n.sent = call[c].sent /\ n.arg = call[c].arg
  <2>1. call[c] \in CallStates
    BY Numbers
  <2> QED BY <2>1 DEF CallStates, Steps
<1> HIDE DEF n
<1>8. /\ call' \in [Calls -> CallStates] /\ call'[c] = n
      /\ \A d \in Calls \ {c} : call'[d] = call[d]
  BY <1>6, <1>7 DEF IndInv, Shapes
<1>9. RequestsMade(c)'
  <2>1. RequestsMade(c) /\ Pending(c)
    BY DEF IndInv, Pending
  <2> QED BY <1>1, <1>7, <1>8, <2>1 DEF RequestsMade
<1>10. AnswersGiven(c)'
  <2>1. /\ call'[c].answer \in Replies /\ call'[c].answer.token = token
        /\ call'[c].answer.status = status /\ call'[c].step # "body"
        /\ call'[c].step = "served" => status = 200
    BY <1>4, <1>5, <1>7, <1>8
  <2>2. /\ call'[c].tab = call[c].tab /\ call'[c].path = call[c].path
        /\ call'[c].sent = call[c].sent /\ call'[c].sent.cookie = b /\ told' = told
    BY <1>7, <1>8
  <2>3. ASSUME status = 200
        PROVE  /\ call'[c].path \in {"me", "switch", "logout", "write"} => b \in 1..Len(secrets')
               /\ call'[c].path \in {"switch", "logout", "write"} =>
                     call'[c].sent.expected = secrets'[b].member
    BY <1>1, <1>2, <2>2, <2>3
  <2>4. ASSUME status = 200
        PROVE  /\ call'[c].path \in {"switch", "logout"} => Over(b)'
               /\ call'[c].path = "switch" => token # b
               /\ token \notin told'[call'[c].tab]
               /\ call'[c].path = "me" => b \notin told'[call'[c].tab]
    BY <2>2, <2>4
  <2> QED BY <2>1, <2>2, <2>3, <2>4 DEF AnswersGiven, Answered, Over
<1>11. ASSUME NEW d \in Calls \ {c} PROVE RequestsMade(d)' /\ AnswersGiven(d)'
  <2>1. RequestsMade(d) /\ AnswersGiven(d) /\ call'[d] = call[d]
    BY <1>8 DEF IndInv
  <2>2. RequestsMade(d)'
    BY <1>1, <2>1 DEF RequestsMade, Pending
  <2>3. AnswersGiven(d)'
    <3> SUFFICES ASSUME Answered(d) PROVE AnswersGiven(d)'
      BY <2>1 DEF AnswersGiven, Answered
    <3>1. Stale(d)' <=> Stale(d)
      BY <2>1 DEF Stale
    <3> QED BY <1>1, <1>2, <1>3, <2>1, <3>1 DEF AnswersGiven, Answered
  <2> QED BY <2>2, <2>3
<1>12. Shapes'
  BY <1>1, <1>8 DEF IndInv, Shapes, Grown
<1>13. TabsOwned' /\ NoReturn'
  BY <1>1 DEF IndInv, TabsOwned, NoReturn
<1>14. ToldIsOver'
  BY <1>3 DEF IndInv, ToldIsOver
<1> QED BY <1>9, <1>10, <1>11, <1>12, <1>13, <1>14 DEF IndInv, Grown

(* Nothing is issued or closed.                                            *)
LEMMA UnchangedGrows ==
    ASSUME IndInv, UNCHANGED secrets
    PROVE  Grown
<1>1. Len(secrets) \in Nat
  BY Numbers
<1>2. SessionsOwned'
  BY DEF IndInv, SessionsOwned
<1> QED BY <1>1, <1>2 DEF IndInv, Shapes, Grown

(* A secret is closed.                                                     *)
LEMMA ClosedForm ==
    ASSUME IndInv, NEW b \in 1..Len(secrets)
    PROVE  LET over == [secrets EXCEPT ![b].live = FALSE] IN
           /\ over \in Seq(Secrets) /\ Len(over) = Len(secrets)
           /\ ~over[b].live
           /\ \A n \in 1..Len(secrets) :
                 /\ over[n].kind = secrets[n].kind /\ over[n].user = secrets[n].user
                 /\ over[n].member = secrets[n].member
                 /\ over[n].live => secrets[n].live
<1> DEFINE e == [secrets[b] EXCEPT !.live = FALSE]
           over == [secrets EXCEPT ![b] = e]
<1>1. secrets \in Seq(Secrets) /\ Len(secrets) \in Nat
  BY Numbers DEF IndInv, Shapes
<1>2. secrets[b] \in Secrets
  BY <1>1, ElementOfSeq
<1>3. /\ e \in Secrets /\ e.kind = secrets[b].kind /\ e.user = secrets[b].user
      /\ e.member = secrets[b].member /\ ~e.live
  BY <1>2 DEF Secrets
<1>4. over = [secrets EXCEPT ![b].live = FALSE]
  OBVIOUS
<1> HIDE DEF e
<1>5. over \in Seq(Secrets) /\ Len(over) = Len(secrets)
  BY <1>1, <1>3, ExceptSeq
<1>6. over[b] = e /\ \A n \in 1..Len(secrets) : n # b => over[n] = secrets[n]
  BY <1>1, LenProperties
<1> HIDE DEF over
<1>7. \A n \in 1..Len(secrets) : /\ over[n].kind = secrets[n].kind /\ over[n].user = secrets[n].user
                                 /\ over[n].member = secrets[n].member
                                 /\ over[n].live => secrets[n].live
  <2> SUFFICES ASSUME NEW n \in 1..Len(secrets)
               PROVE  /\ over[n].kind = secrets[n].kind /\ over[n].user = secrets[n].user
                      /\ over[n].member = secrets[n].member
                      /\ over[n].live => secrets[n].live
    OBVIOUS
  <2>1. CASE n = b
    BY <1>3, <1>6, <2>1
  <2>2. CASE n # b
    BY <1>6, <2>2
  <2> QED BY <2>1, <2>2
<1>8. ~over[b].live
  BY <1>3, <1>6
<1> QED BY <1>4, <1>5, <1>7, <1>8

(* A secret is issued, perhaps as another one is closed.                   *)
LEMMA IssuedGrows ==
    ASSUME IndInv, NEW q \in Seq(Secrets), Len(q) = Len(secrets),
           \A n \in 1..Len(secrets) :
              /\ q[n].kind = secrets[n].kind /\ q[n].user = secrets[n].user
              /\ q[n].member = secrets[n].member
              /\ q[n].live => secrets[n].live,
           \/ secrets' = q
           \/ \E e \in Secrets : Owned(e.member, e.user) /\ secrets' = Append(q, e)
    PROVE  /\ Grown
           /\ \A n \in 1..Len(secrets) : secrets'[n] = q[n]
<1>1. Len(secrets) \in Nat /\ Len(q) \in Nat
  BY Numbers
<1>2. \A n \in 1..Len(secrets) : Owned(q[n].member, q[n].user)
  BY DEF IndInv, SessionsOwned
<1>3. CASE secrets' = q
  BY <1>1, <1>2, <1>3 DEF Grown, SessionsOwned
<1>4. ASSUME NEW e \in Secrets, Owned(e.member, e.user), secrets' = Append(q, e)
      PROVE  Grown /\ \A n \in 1..Len(secrets) : secrets'[n] = q[n]
  <2>1. /\ secrets' \in Seq(Secrets) /\ Len(secrets') = Len(secrets) + 1
        /\ \A n \in 1..Len(secrets) : secrets'[n] = q[n]
        /\ secrets'[Len(secrets) + 1] = e
    BY <1>4, AppendProperties
  <2>2. Len(secrets) <= Len(secrets')
    BY <1>1, <2>1
  <2>3. SessionsOwned'
    <3> SUFFICES ASSUME NEW n \in 1..(Len(secrets) + 1)
                 PROVE  Owned(secrets'[n].member, secrets'[n].user)
      BY <2>1 DEF SessionsOwned
    <3>1. CASE n = Len(secrets) + 1
      BY <1>4, <2>1, <3>1
    <3>2. CASE n \in 1..Len(secrets)
      BY <1>2, <2>1, <3>2
    <3> QED BY <1>1, <3>1, <3>2
  <2> QED BY <2>1, <2>2, <2>3 DEF Grown
<1> QED BY <1>3, <1>4

(* What the server issues, or finds live, no tab knows to be over.         *)
LEMMA FreshOrLive ==
    ASSUME IndInv, NEW t \in Tabs
    PROVE  /\ Len(secrets) + 1 \notin told[t] /\ 0 \notin told[t]
           /\ \A n \in 0..Len(secrets), kind \in {"session", "preauth"} :
                 Live(n, kind) => n \in 1..Len(secrets) /\ n \notin told[t]
<1>1. Len(secrets) \in Nat
  BY Numbers
<1>2. \A n \in told[t] : Over(n)
  BY DEF IndInv, ToldIsOver
<1> QED BY <1>1, <1>2 DEF Over, Live

(* A request that waits for its answer carries a cookie the browser had.   *)
LEMMA RequestForm ==
    ASSUME IndInv, NEW c \in Calls, call[c].step = "sent"
    PROVE  /\ call[c].tab \in Tabs /\ call[c].sent.cookie \in 0..Len(secrets)
           /\ call[c].path \in {"preauth", "login"} => call[c].arg \in Users
           /\ call[c].path = "switch" => call[c].arg \in Memberships
BY DEF IndInv, RequestsMade, Pending

(* A pre-authentication state is issued.                                   *)
LEMMA ServePreauthKeeps ==
    ASSUME IndInv, NEW c \in Calls, call[c].step = "sent", ServePreauth(c),
           UNCHANGED <<cookie, preauth, tab, channel, told>>
    PROVE  IndInv'
<1>1. PreAuthState \in Secrets /\ Owned(PreAuthState.member, PreAuthState.user)
  BY DEF PreAuthState, Secrets, Owned
<1>2. secrets \in Seq(Secrets) /\ Len(secrets) \in Nat
  BY Numbers DEF IndInv, Shapes
<1>3. secrets' = Append(secrets, PreAuthState) /\ Answer(c, 200, Len(secrets) + 1)
      /\ call[c].path = "preauth"
  BY DEF ServePreauth
<1>4. Grown
  BY <1>1, <1>2, <1>3, IssuedGrows
<1>5. Len(secrets) + 1 \in 0..Len(secrets')
  <2>1. Len(secrets') = Len(secrets) + 1
    BY <1>1, <1>2, <1>3, AppendProperties
  <2> QED BY <1>2, <2>1
<1>6. Len(secrets) + 1 \notin told[call[c].tab] /\ 200 \in Nat
  BY RequestForm, FreshOrLive
<1>7. PICK token \in 0..Len(secrets') : token = Len(secrets) + 1
  BY <1>5
<1> QED BY <1>3, <1>4, <1>6, <1>7, AnswerKeeps

(* An answer other than a success changes nothing but the secrets.         *)
LEMMA RefusedKeeps ==
    ASSUME IndInv, Grown, UNCHANGED <<cookie, preauth, tab, channel, told>>,
           NEW c \in Calls, call[c].step = "sent",
           NEW status \in Nat, status # 200, Answer(c, status, 0)
    PROVE  IndInv'
<1>1. Len(secrets') \in Nat
  BY LenProperties DEF Grown
<1>2. 0 \in 0..Len(secrets')
  BY <1>1
<1> QED BY <1>2, AnswerKeeps

(* A login is tried: the state is closed, a session perhaps issued.        *)
LEMMA ServeLoginKeeps ==
    ASSUME IndInv, NEW c \in Calls, call[c].step = "sent", ServeLogin(c),
           UNCHANGED <<cookie, preauth, tab, channel, told>>
    PROVE  IndInv'
<1> DEFINE state == call[c].sent.cookie
           used == [secrets EXCEPT ![state].live = FALSE]
<1>1. /\ call[c].tab \in Tabs /\ state \in 0..Len(secrets) /\ call[c].arg \in Users
      /\ call[c].path = "login" /\ Len(secrets) \in Nat
  BY RequestForm, Numbers DEF ServeLogin
<1>2. CASE Live(state, "preauth") /\ call[c].sent.csrf = state
  <2>1. state \in 1..Len(secrets)
    BY <1>1, <1>2, FreshOrLive
  <2>2. /\ used \in Seq(Secrets) /\ Len(used) = Len(secrets)
        /\ \A n \in 1..Len(secrets) :
              /\ used[n].kind = secrets[n].kind /\ used[n].user = secrets[n].user
              /\ used[n].member = secrets[n].member
              /\ used[n].live => secrets[n].live
    BY <2>1, ClosedForm
  <2>3. \/ secrets' = Append(used, SessionOf(call[c].arg, None)) /\ Answer(c, 200, Len(secrets) + 1)
        \/ secrets' = used /\ Answer(c, 401, 0)
    BY <1>2 DEF ServeLogin
  <2> HIDE DEF used, state
  <2>4. PICK q \in Seq(Secrets) : q = used
    BY <2>2
  <2>5. /\ SessionOf(call[c].arg, None) \in Secrets
        /\ Owned(SessionOf(call[c].arg, None).member, SessionOf(call[c].arg, None).user)
    BY <1>1 DEF SessionOf, Secrets, Owned
  <2>6. PICK e \in Secrets : e = SessionOf(call[c].arg, None) /\ Owned(e.member, e.user)
    BY <2>5
  <2>7. Grown
    <3>1. secrets' = q \/ secrets' = Append(q, e)
      BY <2>3, <2>4, <2>6
    <3>2. /\ Len(q) = Len(secrets)
          /\ \A n \in 1..Len(secrets) :
                /\ q[n].kind = secrets[n].kind /\ q[n].user = secrets[n].user
                /\ q[n].member = secrets[n].member
                /\ q[n].live => secrets[n].live
      BY <2>2, <2>4
    <3> QED BY <2>6, <3>1, <3>2, IssuedGrows
  <2>8. CASE secrets' = Append(used, SessionOf(call[c].arg, None)) /\ Answer(c, 200, Len(secrets) + 1)
    <3>1. Len(secrets') = Len(secrets) + 1
      BY <2>2, <2>4, <2>6, <2>8, AppendProperties
    <3>2. PICK token \in 0..Len(secrets') : token = Len(secrets) + 1
      BY <1>1, <3>1
    <3>3. token \notin told[call[c].tab] /\ 200 \in Nat
      BY <1>1, <3>2, FreshOrLive
    <3> QED BY <1>1, <2>7, <2>8, <3>2, <3>3, AnswerKeeps
  <2>9. CASE secrets' = used /\ Answer(c, 401, 0)
    <3>1. 401 \in Nat /\ 401 # 200
      OBVIOUS
    <3> QED BY <2>7, <2>9, <3>1, RefusedKeeps
  <2> QED BY <2>3, <2>8, <2>9
<1>3. CASE ~(Live(state, "preauth") /\ call[c].sent.csrf = state)
  <2>1. UNCHANGED secrets /\ Answer(c, 403, 0)
    BY <1>3 DEF ServeLogin
  <2>2. 403 \in Nat /\ 403 # 200
    OBVIOUS
  <2> QED BY <2>1, <2>2, UnchangedGrows, RefusedKeeps
<1> QED BY <1>2, <1>3

(* A safe request is answered from a live session.                         *)
LEMMA ServeSafeKeeps ==
    ASSUME IndInv, NEW c \in Calls, call[c].step = "sent", ServeSafe(c),
           UNCHANGED <<cookie, preauth, tab, channel, told>>
    PROVE  IndInv'
<1> DEFINE b == call[c].sent.cookie
<1>1. /\ call[c].tab \in Tabs /\ b \in 0..Len(secrets) /\ Len(secrets) \in Nat
      /\ call[c].path \in {"me", "csrf"} /\ UNCHANGED secrets
  BY RequestForm, Numbers DEF ServeSafe
<1>2. Grown
  BY <1>1, UnchangedGrows
<1>3. CASE Live(b, "session")
  <2>1. PICK token \in 0..Len(secrets') : token = IF call[c].path = "csrf" THEN b ELSE 0
    BY <1>1
  <2>2. Answer(c, 200, token) /\ 200 \in Nat
    BY <1>3, <2>1 DEF ServeSafe
  <2>3. b \in 1..Len(secrets) /\ b \notin told[call[c].tab] /\ token \notin told[call[c].tab]
    BY <1>1, <1>3, <2>1, FreshOrLive
  <2> QED BY <1>1, <1>2, <2>2, <2>3, AnswerKeeps
<1>4. CASE ~Live(b, "session")
  <2>1. Answer(c, 401, 0)
    BY <1>4 DEF ServeSafe
  <2>2. 401 \in Nat /\ 401 # 200
    OBVIOUS
  <2> QED BY <1>2, <2>1, <2>2, RefusedKeeps
<1> QED BY <1>3, <1>4

(* What the server has checked when it executes an unsafe request.         *)
LEMMA VerdictForm ==
    ASSUME IndInv, NEW c \in Calls, call[c].step = "sent",
           call[c].path \in {"switch", "logout", "write"}, Verdict(c) = 200
    PROVE  /\ call[c].sent.cookie \in 1..Len(secrets) /\ Live(call[c].sent.cookie, "session")
           /\ call[c].sent.expected = secrets[call[c].sent.cookie].member
           /\ call[c].path = "switch" => OwnerOf[call[c].arg] = secrets[call[c].sent.cookie].user
<1> DEFINE b == call[c].sent.cookie
           m == secrets[b].member
<1>1. call[c].tab \in Tabs /\ b \in 0..Len(secrets)
  BY RequestForm
<1>2. Live(b, "session")
  BY DEF Verdict
<1>3. ExpectedMembership(call[c].sent.expected, m) = 200
  BY <1>2 DEF Verdict
<1>4. call[c].sent.expected = m
  BY <1>3 DEF ExpectedMembership
<1>5. call[c].path = "switch" => OwnerOf[call[c].arg] = secrets[b].user
  BY <1>2, <1>3 DEF Verdict
<1>6. b \in 1..Len(secrets)
  BY <1>1, <1>2, FreshOrLive
<1> QED BY <1>2, <1>4, <1>5, <1>6

(* A refusal has a status of its own.                                      *)
LEMMA VerdictIsStatus ==
    ASSUME NEW c \in Calls
    PROVE  Verdict(c) \in Nat
BY DEF Verdict, ExpectedMembership

(* An unsafe request is executed or refused.                               *)
LEMMA ServeUnsafeKeeps ==
    ASSUME IndInv, NEW c \in Calls, call[c].step = "sent", ServeUnsafe(c),
           UNCHANGED <<cookie, preauth, tab, channel, told>>
    PROVE  IndInv'
<1> DEFINE b == call[c].sent.cookie
           over == [secrets EXCEPT ![b].live = FALSE]
<1>1. /\ call[c].tab \in Tabs /\ b \in 0..Len(secrets) /\ Len(secrets) \in Nat
      /\ call[c].path \in {"switch", "logout", "write"}
      /\ call[c].path = "switch" => call[c].arg \in Memberships
  BY RequestForm, Numbers DEF ServeUnsafe
<1>2. CASE Verdict(c) # 200
  <2>1. UNCHANGED secrets /\ Answer(c, Verdict(c), 0)
    BY <1>2 DEF ServeUnsafe
  <2>2. PICK status \in Nat : status = Verdict(c)
    BY VerdictIsStatus
  <2> QED BY <1>2, <2>1, <2>2, UnchangedGrows, RefusedKeeps
<1>3. CASE Verdict(c) = 200
  <2>1. /\ b \in 1..Len(secrets) /\ Live(b, "session")
        /\ call[c].sent.expected = secrets[b].member
        /\ call[c].path = "switch" => OwnerOf[call[c].arg] = secrets[b].user
    BY <1>1, <1>3, VerdictForm
  <2>2. /\ over \in Seq(Secrets) /\ Len(over) = Len(secrets) /\ ~over[b].live
        /\ \A n \in 1..Len(secrets) :
              /\ over[n].kind = secrets[n].kind /\ over[n].user = secrets[n].user
              /\ over[n].member = secrets[n].member
              /\ over[n].live => secrets[n].live
    BY <2>1, ClosedForm
  <2>3. 0 \notin told[call[c].tab] /\ Len(secrets) + 1 \notin told[call[c].tab] /\ 200 \in Nat
    BY <1>1, FreshOrLive
  <2>4. CASE call[c].path = "write"
    <3>1. UNCHANGED secrets /\ Answer(c, 200, 0)
      BY <1>3, <2>4 DEF ServeUnsafe
    <3>2. Grown
      BY <3>1, UnchangedGrows
    <3>3. 0 \in 0..Len(secrets')
      BY <1>1, <3>1
    <3> QED BY <2>1, <2>3, <2>4, <3>1, <3>2, <3>3, AnswerKeeps
  <2>5. PICK q \in Seq(Secrets) : q = over
    BY <2>2
  <2>6. /\ Len(q) = Len(secrets) /\ ~q[b].live /\ q[b].kind = "session"
        /\ \A n \in 1..Len(secrets) :
              /\ q[n].kind = secrets[n].kind /\ q[n].user = secrets[n].user
              /\ q[n].member = secrets[n].member
              /\ q[n].live => secrets[n].live
    BY <2>1, <2>2, <2>5 DEF Live
  <2>7. CASE call[c].path = "logout"
    <3>1. secrets' = q /\ Answer(c, 200, 0)
      BY <1>3, <2>5, <2>7 DEF ServeUnsafe
    <3>2. Grown
      BY <2>6, <3>1, IssuedGrows
    <3>4. PICK i \in 1..Len(secrets) : i = b
      BY <2>1
    <3>3. 0 \in 0..Len(secrets') /\ Over(i)'
      <4>1. Len(secrets') = Len(secrets)
        BY <2>6, <3>1
      <4> QED BY <1>1, <2>1, <2>6, <3>1, <3>4, <4>1 DEF Over
    <3> QED BY <2>1, <2>3, <2>7, <3>1, <3>2, <3>3, <3>4, AnswerKeeps
  <2>8. CASE call[c].path = "switch"
    <3>1. secrets' = Append(q, SessionOf(secrets[b].user, call[c].arg))
          /\ Answer(c, 200, Len(secrets) + 1)
      BY <1>3, <2>5, <2>8 DEF ServeUnsafe
    <3>2. secrets[b] \in Secrets
      BY <2>1, ElementOfSeq DEF IndInv, Shapes
    <3>3. /\ SessionOf(secrets[b].user, call[c].arg) \in Secrets
          /\ Owned(SessionOf(secrets[b].user, call[c].arg).member,
                   SessionOf(secrets[b].user, call[c].arg).user)
      BY <1>1, <2>1, <2>8, <3>2 DEF SessionOf, Secrets, Owned
    <3>4. PICK e \in Secrets : e = SessionOf(secrets[b].user, call[c].arg) /\ Owned(e.member, e.user)
      BY <3>3
    <3>5. Grown /\ \A n \in 1..Len(secrets) : secrets'[n] = q[n]
      BY <2>6, <3>1, <3>4, IssuedGrows
    <3>6. Len(secrets') = Len(secrets) + 1
      BY <2>6, <3>1, <3>4, AppendProperties
    <3>7. PICK token \in 0..Len(secrets') : token = Len(secrets) + 1
      BY <1>1, <3>6
    <3>8. token # b
      BY <1>1, <3>7
    <3>9. PICK i \in 1..Len(secrets) : i = b
      BY <2>1
    <3>10. Over(i)'
      BY <1>1, <2>6, <3>5, <3>6, <3>9 DEF Over
    <3>11. /\ Answer(c, 200, token) /\ token \notin told[call[c].tab] /\ token # i
           /\ i = call[c].sent.cookie /\ call[c].sent.expected = secrets[i].member
      BY <2>1, <2>3, <3>1, <3>7, <3>8, <3>9
    <3> QED BY <2>3, <2>8, <3>5, <3>10, <3>11, AnswerKeeps
  <2> QED BY <1>1, <2>4, <2>7, <2>8
<1> QED BY <1>2, <1>3

-----------------------------------------------------------------------------
(* The browser, and the whole.                                             *)

(* The browser takes the cookies of an answer.                             *)
LEMMA ArriveKeeps ==
    ASSUME IndInv, NEW c \in Calls, Arrive(c)
    PROVE  IndInv'
<1>1. call[c].step = "served" /\ UNCHANGED <<secrets, tab, channel, told>>
      /\ call' = [call EXCEPT ![c].step = "arrived"]
  BY DEF Arrive
<1>2. RequestsMade(c) /\ AnswersGiven(c) /\ call[c] \in CallStates /\ Len(secrets) \in Nat
  BY Numbers DEF IndInv
<1>3. call[c].answer.token \in 0..Len(secrets)
  BY <1>1, <1>2 DEF AnswersGiven, Answered
<1>4. cookie' \in 0..Len(secrets') /\ preauth' \in 0..Len(secrets')
  <2>1. cookie \in 0..Len(secrets) /\ preauth \in 0..Len(secrets) /\ 0 \in 0..Len(secrets)
    BY <1>2 DEF IndInv, Shapes
  <2>2. secrets' = secrets
    BY <1>1
  <2> QED BY <1>3, <2>1, <2>2 DEF Arrive
<1> DEFINE n == [call[c] EXCEPT !.step = "arrived"]
<1>5. /\ n \in CallStates /\ n.step = "arrived" /\ n.tab = call[c].tab /\ n.path = call[c].path
      /\ n.sent = call[c].sent /\ n.answer = call[c].answer /\ n.arg = call[c].arg
  BY <1>2 DEF CallStates, Steps
<1>6. call' = [call EXCEPT ![c] = n]
  BY <1>1
<1> HIDE DEF n
<1>7. /\ call' \in [Calls -> CallStates] /\ call'[c] = n
      /\ \A d \in Calls \ {c} : call'[d] = call[d]
  BY <1>5, <1>6 DEF IndInv, Shapes
<1>8. RequestsMade(c)'
  BY <1>1, <1>2, <1>5, <1>7 DEF RequestsMade, Pending
<1>9. AnswersGiven(c)'
  BY <1>1, <1>2, <1>5, <1>7 DEF AnswersGiven, Answered, Stale, Over
<1>10. ASSUME NEW d \in Calls \ {c} PROVE RequestsMade(d)' /\ AnswersGiven(d)'
  <2>1. RequestsMade(d) /\ AnswersGiven(d) /\ call'[d] = call[d]
    BY <1>7 DEF IndInv
  <2>2. RequestsMade(d)'
    BY <1>1, <2>1 DEF RequestsMade, Pending
  <2>3. AnswersGiven(d)'
    BY <1>1, <2>1 DEF AnswersGiven, Answered, Stale, Over
  <2> QED BY <2>2, <2>3
<1>11. Shapes'
  BY <1>1, <1>4, <1>7 DEF IndInv, Shapes
<1>12. SessionsOwned' /\ TabsOwned' /\ NoReturn'
  BY <1>1 DEF IndInv, SessionsOwned, TabsOwned, NoReturn
<1>13. ToldIsOver'
  BY <1>1 DEF IndInv, ToldIsOver, Over
<1> QED BY <1>8, <1>9, <1>10, <1>11, <1>12, <1>13 DEF IndInv

(* The tab's code looks at an answer.                                      *)
LEMMA ResumeKeeps ==
    ASSUME IndInv, NEW c \in Calls, Resume(c)
    PROVE  IndInv'
<1>1. call[c].step = "arrived" /\ UNCHANGED <<secrets, cookie, preauth>>
  BY DEF Resume
<1>2. CASE Stale(c) \/ call[c].answer.status # 200
  BY <1>1, <1>2, ThrowKeeps DEF Resume
<1>3. CASE ~Stale(c) /\ call[c].answer.status = 200
  BY <1>1, <1>3, ContinueKeeps DEF Resume
<1> QED BY <1>2, <1>3

(* A request is served.                                                    *)
LEMMA ServeKeeps ==
    ASSUME IndInv, NEW c \in Calls, Serve(c)
    PROVE  IndInv'
BY ServePreauthKeeps, ServeLoginKeeps, ServeSafeKeeps, ServeUnsafeKeeps DEF Serve

(* Every tab has loaded, and nobody has called a method.                   *)
LEMMA InitHolds == Init => IndInv
<1> SUFFICES ASSUME Init PROVE IndInv
  OBVIOUS
<1>1. PICK m \in Memberships :
        /\ secrets = <<SessionOf(OwnerOf[m], m)>>
        /\ cookie = 1 /\ preauth = 0
        /\ tab = [t \in Tabs |-> Loaded(m)]
        /\ call = [c \in Calls |-> NoCall]
        /\ channel = [t \in Tabs |-> {}]
        /\ told = [t \in Tabs |-> {}]
  BY DEF Init
<1>2. OwnerOf[m] \in Users /\ m # None
  BY OwnerAssumption
<1> DEFINE e == SessionOf(OwnerOf[m], m)
<1>3. e \in Secrets /\ e.member = m /\ e.user = OwnerOf[m]
  BY <1>2 DEF SessionOf, Secrets
<1> HIDE DEF e
<1>4. secrets = <<e>> /\ secrets \in Seq(Secrets) /\ Len(secrets) = 1 /\ secrets[1] = e
  <2>1. secrets = <<e>>
    BY <1>1 DEF e
  <2> QED BY <1>3, <2>1
<1>5. /\ Loaded(m) \in TabStates /\ Loaded(m).csrf = 1 /\ Loaded(m).selected = m
      /\ Loaded(m).user = OwnerOf[m]
  BY <1>2 DEF Loaded, TabStates
<1>6. Shapes
  BY <1>1, <1>4, <1>5, IdleCalls DEF Shapes
<1>7. SessionsOwned
  BY <1>3, <1>4 DEF SessionsOwned, Owned
<1>8. TabsOwned /\ NoReturn /\ ToldIsOver
  BY <1>1, <1>4, <1>5 DEF TabsOwned, Owned, NoReturn, ToldIsOver
<1>9. \A c \in Calls : RequestsMade(c) /\ AnswersGiven(c)
  BY <1>1, IdleCalls DEF RequestsMade, Pending, AnswersGiven, Answered
<1> QED BY <1>6, <1>7, <1>8, <1>9 DEF IndInv

(* Every step keeps the invariant.                                         *)
LEMMA StepKeeps == IndInv /\ [Next]_vars => IndInv'
<1> SUFFICES ASSUME IndInv, [Next]_vars PROVE IndInv'
  OBVIOUS
<1>1. ASSUME NEW c \in Calls, NEW t \in Tabs, NEW does \in Methods,
             NEW arg \in Arguments(does), Begin(c, t, does, arg)
      PROVE  IndInv'
  BY <1>1, BeginKeeps
<1>2. ASSUME NEW c \in Calls, Serve(c) \/ Arrive(c) \/ Resume(c) \/ ReadBody(c)
      PROVE  IndInv'
  BY <1>2, ServeKeeps, ArriveKeeps, ResumeKeeps, ReadBodyKeeps
<1>3. ASSUME NEW t \in Tabs, Receive(t) PROVE IndInv'
  BY <1>3, ReceiveKeeps
<1>4. CASE UNCHANGED vars
  <2>1. UNCHANGED <<secrets, cookie, preauth, tab, call, channel, told>>
    BY <1>4 DEF vars
  <2>2. Shapes' /\ SessionsOwned' /\ TabsOwned' /\ NoReturn'
    BY <2>1 DEF IndInv, Shapes, SessionsOwned, TabsOwned, NoReturn
  <2>3. ToldIsOver'
    BY <2>1 DEF IndInv, ToldIsOver, Over
  <2>4. \A c \in Calls : RequestsMade(c)' /\ AnswersGiven(c)'
    BY <2>1 DEF IndInv, RequestsMade, Pending, AnswersGiven, Answered, Stale, Over
  <2> QED BY <2>2, <2>3, <2>4 DEF IndInv
<1> QED BY <1>1, <1>2, <1>3, <1>4 DEF Next

(* The invariant holds in every reachable state.                           *)
THEOREM IndInvAlways == Spec => []IndInv
BY InitHolds, StepKeeps, PTL DEF Spec

(* The variables keep their types; a membership that a tab shows belongs   *)
(* to the user it shows, however the answers of me, login and switch and   *)
(* the messages of other tabs interleave (client.ts, #request).            *)
THEOREM TypeCorrect == Spec => []TypeOK
<1>1. IndInv => TypeOK
  <2> SUFFICES ASSUME IndInv PROVE TypeOK
    OBVIOUS
  <2>1. \A t \in Tabs : tab[t].generation \in Nat
    BY Numbers
  <2>2. \A c \in Calls : call[c].step \in Steps
    BY Numbers DEF CallStates
  <2> QED BY <2>1, <2>2 DEF IndInv, Shapes, TabsOwned, Owned, TypeOK, Steps
<1> QED BY <1>1, IndInvAlways, PTL

(* What is executed for a tab is executed in the context that the tab      *)
(* showed when it asked, whatever the other tabs did to the cookie in the  *)
(* meantime (X-Expected-Membership-ID and validate_expected_membership).   *)
THEOREM ActingAsShown == Spec => []ActsAsShown
<1>1. IndInv => ActsAsShown
  <2> SUFFICES ASSUME IndInv, NEW c \in Calls, Executed(c),
                      secrets[call[c].sent.cookie].member # None
               PROVE  /\ call[c].sent.expected = secrets[call[c].sent.cookie].member
                      /\ call[c].sent.user = secrets[call[c].sent.cookie].user
    BY DEF ActsAsShown
  <2> DEFINE b == call[c].sent.cookie
  <2>1. b \in 1..Len(secrets) /\ call[c].sent.expected = secrets[b].member
    BY DEF Executed, IndInv, AnswersGiven, Answered
  <2>2. Owned(call[c].sent.expected, call[c].sent.user)
    BY DEF Executed, IndInv, RequestsMade, Pending
  <2>3. Owned(secrets[b].member, secrets[b].user)
    BY <2>1 DEF IndInv, SessionsOwned
  <2> QED BY <2>1, <2>2, <2>3 DEF Owned
<1> QED BY <1>1, IndInvAlways, PTL

(* A tab that has learned of a switch or a logout never holds a token or   *)
(* a membership of the session that ended, however late an answer arrives  *)
(* (#generation).                                                          *)
THEOREM NoTabReturns == Spec => []NoReturn
<1>1. IndInv => NoReturn
  BY DEF IndInv
<1> QED BY <1>1, IndInvAlways, PTL
=============================================================================
