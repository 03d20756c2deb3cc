---------------------------- MODULE MCAuthClient ----------------------------
(* AuthClient with two users, of whom one has both memberships.             *)
EXTENDS AuthClient, TLC

CONSTANTS u1, u2

AllOfFirst == [m \in Memberships |-> u1]
Interchangeable ==
    Permutations(Calls \ Logins) \cup Permutations(Memberships) \cup Permutations(Tabs)
=============================================================================
