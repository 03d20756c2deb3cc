----------------------------- MODULE AuthClient -----------------------------
(***************************************************************************)
(* The tabs of one browser (AuthClient of the web application) and the     *)
(* server they talk to.  The tabs share the cookies; each keeps in memory  *)
(* a CSRF token, the user and membership it was told, and a generation     *)
(* that every change of context it learns of increments.  They tell each   *)
(* other of such changes over a BroadcastChannel.                          *)
(*                                                                         *)
(* A request is sent, served, answered and looked at in four steps.  The   *)
(* browser applies an answer's cookies when it arrives, before the tab's   *)
(* own code looks at it and whether or not that code then discards it.     *)
(* A fetch that fails changes nothing at its tab, so a lost request or     *)
(* answer is one whose next step is never taken.                           *)
(*                                                                         *)
(* The secrets the server hands out are numbered: a pre-authentication     *)
(* state with its token, or a bearer with the token derived from it        *)
(* (_bootstrap_token).                                                     *)
(***************************************************************************)
EXTENDS Naturals, Sequences, FiniteSets

CONSTANTS
    Tabs,         \* tabs of the browser
    Users,        \* users who may log in
    Memberships,  \* their memberships, all active
    OwnerOf,      \* the user of each membership
    None,         \* no user, no membership
    Calls,        \* bound: method calls of the tabs, together
    Logins        \* bound: those of them that may be a login

ASSUME OwnerAssumption == OwnerOf \in [Memberships -> Users] /\ None \notin Users \cup Memberships
ASSUME BoundAssumption == Logins \subseteq Calls

VARIABLES
    secrets,  \* what the server issued: sessions and pre-authentication states
    cookie,   \* the browser's session cookie, 0 when there is none
    preauth,  \* the browser's pre-authentication cookie
    tab,      \* the fields of each tab's AuthClient
    call,     \* each method call, with the request it is waiting for
    channel,  \* messages each tab has not handled yet
    told      \* history: sessions each tab knows to be over

vars == <<secrets, cookie, preauth, tab, call, channel, told>>

(* A tab that has loaded: me and bootstrapCsrf were answered.  `from`, the *)
(* session that answered me, is read by the properties only.               *)
Loaded(m) == [generation |-> 0, csrf |-> 1, user |-> OwnerOf[m], selected |-> m, from |-> 1]

NoCall == [step |-> "idle", tab |-> None, does |-> "none", arg |-> None,
           path |-> "none", sent |-> <<>>, answer |-> <<>>]
Finished == [NoCall EXCEPT !.step = "done"]

SessionOf(user, m) == [kind |-> "session", user |-> user, member |-> m, live |-> TRUE]
PreAuthState == [kind |-> "preauth", user |-> None, member |-> None, live |-> TRUE]

Init ==
    \E m \in Memberships :
        /\ secrets = <<SessionOf(OwnerOf[m], m)>>
        /\ cookie = 1 /\ preauth = 0
        /\ tab = [t \in Tabs |-> Loaded(m)]
        /\ call = [c \in Calls |-> NoCall]
        /\ channel = [t \in Tabs |-> {}]
        /\ told = [t \in Tabs |-> {}]

-----------------------------------------------------------------------------
(* What happens to a tab's fields.                                         *)

(* Mutant of Invalidated: the membership is not forgotten.                 *)
InvalidatedKeepingMembership(s, generation) ==
    [s EXCEPT !.generation = generation, !.csrf = 0, !.user = None]

(* #invalidate leaves a tab as a new one is, but for its generation.       *)
Invalidated(s, generation) ==
    [s EXCEPT !.generation = generation, !.csrf = 0, !.selected = None, !.user = None]

(* #rotate keeps the user.                                                 *)
Rotated(s) == [s EXCEPT !.generation = @ + 1, !.csrf = 0, !.selected = None]

(* #acceptCsrf: a token that replaces another one is a change of context.  *)
Accepted(s, token) ==
    [s EXCEPT !.csrf = token,
              !.generation = IF s.csrf \in {0, token} THEN @ ELSE @ + 1]

UNSAFE == {"login", "switch", "logout", "write"}

(* #request: the headers of the tab, which only unsafe methods carry, and  *)
(* of the browser's cookies the one its route reads.                       *)
Sending(c, path, s) ==
    [c EXCEPT !.step = "sent", !.path = path,
              !.sent = [generation |-> s.generation,
                        cookie |-> CASE path = "preauth" -> 0
                                     [] path = "login"   -> preauth
                                     [] OTHER            -> cookie,
                        csrf |-> IF path \in UNSAFE THEN s.csrf ELSE 0,
                        expected |-> IF path \in UNSAFE THEN s.selected ELSE None,
                        user |-> IF path \in UNSAFE THEN s.user ELSE None]]

Becomes(t, s) == tab' = [tab EXCEPT ![t] = s]

Post(t, s, ended) ==
    /\ channel' = [u \in Tabs |->
          IF u = t THEN channel[u]
          ELSE channel[u] \cup {[generation |-> s.generation, ended |-> ended]}]
    /\ told' = [told EXCEPT ![t] = @ \cup ended]

-----------------------------------------------------------------------------
(* A method is called.  Without a token an unsafe one only throws.         *)
Begin(c, t, does, arg) ==
    /\ call[c].step = "idle"
    /\ LET new == [NoCall EXCEPT !.tab = t, !.does = does, !.arg = arg]
       IN IF does = "login"
          THEN c \in Logins /\ LET s == Rotated(tab[t])
               IN /\ Becomes(t, s) /\ Post(t, s, {})
                  /\ call' = [call EXCEPT ![c] = Sending(new, "preauth", s)]
          ELSE /\ does \in UNSAFE => tab[t].csrf # 0
               /\ call' = [call EXCEPT ![c] = Sending(new, does, tab[t])]
               /\ UNCHANGED <<tab, channel, told>>
    /\ UNCHANGED <<secrets, cookie, preauth>>

-----------------------------------------------------------------------------
(* The server.                                                             *)

Live(n, kind) == n > 0 /\ secrets[n].kind = kind /\ secrets[n].live

SetsCookie == {"preauth", "login", "switch", "logout"}

(* Only answers that carry a cookie have a step of their own for it.       *)
Answer(c, status, token) ==
    call' = [call EXCEPT ![c].step = IF status = 200 /\ call[c].path \in SetsCookie
                                     THEN "served" ELSE "arrived",
                         ![c].answer = [status |-> status, token |-> token]]

ServePreauth(c) ==
    /\ call[c].path = "preauth"
    /\ secrets' = Append(secrets, PreAuthState)
    /\ Answer(c, 200, Len(secrets) + 1)

(* The state is consumed before the password is looked at.                 *)
ServeLogin(c) ==
    LET state == call[c].sent.cookie
        used == [secrets EXCEPT ![state].live = FALSE]
    IN /\ call[c].path = "login"
       /\ IF Live(state, "preauth") /\ call[c].sent.csrf = state
          THEN \/ /\ secrets' = Append(used, SessionOf(call[c].arg, None))
                  /\ Answer(c, 200, Len(secrets) + 1)
               \/ secrets' = used /\ Answer(c, 401, 0)
          ELSE UNCHANGED secrets /\ Answer(c, 403, 0)

ServeSafe(c) ==
    LET b == call[c].sent.cookie
    IN /\ call[c].path \in {"me", "csrf"}
       /\ UNCHANGED secrets
       /\ IF Live(b, "session")
          THEN Answer(c, 200, IF call[c].path = "csrf" THEN b ELSE 0)
          ELSE Answer(c, 401, 0)

(* Mutant of ExpectedMembership: the token alone decides.                  *)
ExpectedMembershipIgnored(expected, m) == 200

(* A hint that is missing, or that names another membership.               *)
ExpectedMembership(expected, m) ==
    CASE expected = m                    -> 200
      [] expected # m /\ expected = None -> 403
      [] OTHER                           -> 409

Verdict(c) ==
    LET b == call[c].sent.cookie
        m == secrets[b].member
    IN CASE ~Live(b, "session") -> 401
         [] Live(b, "session") /\ call[c].path = "write" /\ m = None -> 403
         [] OTHER ->
              IF ExpectedMembership(call[c].sent.expected, m) # 200
              THEN ExpectedMembership(call[c].sent.expected, m)
              ELSE IF call[c].sent.csrf # b THEN 403
              ELSE IF call[c].path = "switch" /\ OwnerOf[call[c].arg] # secrets[b].user THEN 403
              ELSE 200

ServeUnsafe(c) ==
    LET b == call[c].sent.cookie
        over == [secrets EXCEPT ![b].live = FALSE]
    IN /\ call[c].path \in {"switch", "logout", "write"}
       /\ IF Verdict(c) = 200
          THEN /\ secrets' = CASE call[c].path = "switch" ->
                                     Append(over, SessionOf(secrets[b].user, call[c].arg))
                               [] call[c].path = "logout" -> over
                               [] OTHER -> secrets
               /\ Answer(c, 200, IF call[c].path = "switch" THEN Len(secrets) + 1 ELSE 0)
          ELSE Answer(c, Verdict(c), 0) /\ UNCHANGED secrets

Serve(c) ==
    /\ call[c].step = "sent"
    /\ ServePreauth(c) \/ ServeLogin(c) \/ ServeSafe(c) \/ ServeUnsafe(c)
    /\ UNCHANGED <<cookie, preauth, tab, channel, told>>

-----------------------------------------------------------------------------
(* The way back.                                                           *)

(* The browser takes the cookies of an answer.                             *)
Arrive(c) ==
    /\ call[c].step = "served"
    /\ LET token == call[c].answer.token
       IN CASE call[c].path = "preauth" -> preauth' = token /\ UNCHANGED cookie
            [] call[c].path = "login"   -> cookie' = token /\ preauth' = 0
            [] OTHER                    -> cookie' = token /\ UNCHANGED preauth
    /\ call' = [call EXCEPT ![c].step = "arrived"]
    /\ UNCHANGED <<secrets, tab, channel, told>>

(* Mutant of Stale: late answers count.                                    *)
StaleNever(c) == FALSE

Stale(c) == call[c].sent.generation # tab[call[c].tab].generation

(* Paths that are requested with requireSession.                           *)
NeedsSession == {"me", "switch", "logout", "write"}

(* The context is known to be over: a 401, or the 409 of a stale tab.      *)
Ends(c) == \/ call[c].answer.status = 401 /\ call[c].path \in NeedsSession
           \/ call[c].answer.status = 409

Finish(c) == call' = [call EXCEPT ![c] = Finished]

Throw(c) ==
    /\ IF ~Stale(c) /\ Ends(c)
       THEN Becomes(call[c].tab, Invalidated(tab[call[c].tab], tab[call[c].tab].generation + 1))
       ELSE UNCHANGED tab
    /\ Finish(c)
    /\ UNCHANGED <<channel, told>>

Continue(c) ==
    LET t == call[c].tab
        s == tab[t]
        token == call[c].answer.token
        rotated == Rotated(Accepted(s, token))
        renewed == [rotated EXCEPT !.csrf = token]
        ended == IF call[c].path = "login" THEN {} ELSE {call[c].sent.cookie}
    IN \/ /\ call[c].path = "preauth"
          /\ Becomes(t, Accepted(s, token))
          /\ call' = [call EXCEPT ![c] = Sending(@, "login", Accepted(s, token))]
          /\ UNCHANGED <<channel, told>>
       \/ /\ call[c].path \in {"login", "switch"}
          /\ Becomes(t, renewed)
          /\ Post(t, rotated, ended)
          /\ call' = [call EXCEPT ![c] = Sending(@, "me", renewed)]
       \/ /\ call[c].path = "logout"
          /\ Becomes(t, Rotated(s))
          /\ Post(t, Rotated(s), ended)
          /\ Finish(c)
       \/ /\ call[c].path = "csrf"
          /\ Becomes(t, Accepted(s, token))
          /\ Finish(c)
          /\ UNCHANGED <<channel, told>>
       \/ /\ call[c].path = "me"
          /\ call' = [call EXCEPT ![c].step = "body"]
          /\ UNCHANGED <<tab, channel, told>>
       \/ /\ call[c].path = "write"
          /\ Finish(c)
          /\ UNCHANGED <<tab, channel, told>>

(* The tab's code looks at the answer.                                     *)
Resume(c) ==
    /\ call[c].step = "arrived"
    /\ IF Stale(c) \/ call[c].answer.status # 200 THEN Throw(c) ELSE Continue(c)
    /\ UNCHANGED <<secrets, cookie, preauth>>

(* A safe request for anything else (memberships, settings) does to the    *)
(* client what a me does whose body is never read.                         *)
(*                                                                         *)
(* me compares the generation once more when it has read the body, which   *)
(* says what the session was when me was served.                           *)
ReadBody(c) ==
    /\ call[c].step = "body"
    /\ LET b == call[c].sent.cookie
       IN IF Stale(c) THEN UNCHANGED tab
          ELSE Becomes(call[c].tab, [tab[call[c].tab] EXCEPT !.user = secrets[b].user,
                                        !.selected = secrets[b].member, !.from = b])
    /\ Finish(c)
    /\ UNCHANGED <<secrets, cookie, preauth, channel, told>>

(* A message only invalidates, whatever generation it carries.             *)
Receive(t) ==
    \E message \in channel[t] :
        /\ Becomes(t, Invalidated(tab[t], IF message.generation > tab[t].generation
                                          THEN message.generation
                                          ELSE tab[t].generation + 1))
        /\ channel' = [channel EXCEPT ![t] = @ \ {message}]
        /\ told' = [told EXCEPT ![t] = @ \cup message.ended]
        /\ UNCHANGED <<secrets, cookie, preauth, call>>

Arguments(does) == CASE does = "login"  -> Users
                     [] does = "switch" -> Memberships
                     [] OTHER           -> {None}

Methods == {"login", "csrf", "me", "switch", "logout", "write"}

Next ==
    \/ \E c \in Calls, t \in Tabs, does \in Methods :
          \E arg \in Arguments(does) : Begin(c, t, does, arg)
    \/ \E c \in Calls : Serve(c) \/ Arrive(c) \/ Resume(c) \/ ReadBody(c)
    \/ \E t \in Tabs : Receive(t)

Spec == Init /\ [][Next]_vars

-----------------------------------------------------------------------------
(* Types; the membership a tab shows is one of the user it shows.          *)
TypeOK ==
    /\ cookie \in 0..Len(secrets) /\ preauth \in 0..Len(secrets)
    /\ \A t \in Tabs :
          /\ tab[t].csrf \in 0..Len(secrets) /\ tab[t].generation \in Nat
          /\ tab[t].selected # None => OwnerOf[tab[t].selected] = tab[t].user
    /\ \A c \in Calls : call[c].step \in {"idle", "sent", "served", "arrived", "body", "done"}

Executed(c) == /\ call[c].step \in {"served", "arrived"}
               /\ call[c].path \in {"switch", "logout", "write"}
               /\ call[c].answer.status = 200

(* What a tab asks for is done in the context it showed when it asked, or  *)
(* not at all, although another tab may have replaced the cookie that its  *)
(* request carries and the token it fetched since: the token alone does    *)
(* not tell (X-Expected-Membership-ID, validate_expected_membership).      *)
ActsAsShown ==
    \A c \in Calls : Executed(c) =>
        LET session == secrets[call[c].sent.cookie]
        IN session.member # None => /\ call[c].sent.expected = session.member
                                    /\ call[c].sent.user = session.user

(* A tab that was told of a switch or a logout never goes back: it holds   *)
(* neither a token nor a membership of the session that ended, however     *)
(* late the answers it had asked for arrive (#generation).                 *)
NoReturn ==
    \A t \in Tabs :
        /\ tab[t].csrf \notin told[t]
        /\ tab[t].selected # None => tab[t].from \notin told[t]
=============================================================================
