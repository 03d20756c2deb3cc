------------------------ MODULE CredentialAuthority ------------------------
(***************************************************************************)
(* What the password services promise a user, without transactions, locks  *)
(* or snapshots: the set of sessions that are accepted now, each with the  *)
(* password hash its owner proved to open it.                              *)
(***************************************************************************)
EXTENDS Naturals, FiniteSets

CONSTANTS
    Sessions,      \* names of sessions
    Hashes,        \* password hashes
    InitialHash,   \* the user's hash at first
    Limit          \* how many sessions may be accepted at once

VARIABLES
    hash,     \* the password hash in force
    active,   \* the user may log in
    live,     \* <<session, hash its owner proved>> for each accepted session
    opened    \* sessions that were ever opened

vars == <<hash, active, live, opened>>

Init ==
    /\ hash = InitialHash
    /\ active = TRUE
    /\ live = {}
    /\ opened = {}

(* A login opens a session once, for an active user, under the hash in     *)
(* force, and makes room for it if it has to.                              *)
Login(s) ==
    /\ active
    /\ s \notin opened
    /\ opened' = opened \cup {s}
    /\ \E kept \in SUBSET live :
          /\ live' = kept \cup {<<s, hash>>}
          /\ Cardinality(live') <= Limit
    /\ UNCHANGED <<hash, active>>

(* A change or a reset puts another hash in force and ends every session.  *)
Replace(h) ==
    /\ h # hash
    /\ hash' = h
    /\ live' = {}
    /\ UNCHANGED <<active, opened>>

(* Logout, expiry and revocation end sessions; none comes back.            *)
Finish ==
    /\ live' \in SUBSET live
    /\ UNCHANGED <<hash, active, opened>>

(* A suspension ends every session; reactivation restores none.            *)
Suspend ==
    /\ active
    /\ active' = FALSE
    /\ live' = {}
    /\ UNCHANGED <<hash, opened>>

Reactivate ==
    /\ ~active
    /\ active' = TRUE
    /\ UNCHANGED <<hash, live, opened>>

Next ==
    \/ \E s \in Sessions : Login(s)
    \/ \E h \in Hashes : Replace(h)
    \/ Finish
    \/ Suspend
    \/ Reactivate

Spec == Init /\ [][Next]_vars
=============================================================================
