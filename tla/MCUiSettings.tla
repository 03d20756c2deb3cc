---------------------------- MODULE MCUiSettings ----------------------------
(* Instances of UiSettings: one user with two tabs, or two users with one  *)
(* tab each, of whom one may manage the tenant's layer.                    *)
EXTENDS UiSettings, TLC

CONSTANTS t1, t2, u1, u2, k1, v1, v2

OneUser == [t \in Tabs |-> u1]
TwoUsers == (t1 :> u1) @@ (t2 :> u2)
AllFirst == [k \in Keys |-> v1]
PlatformSecond == k1 :> v2

TabSymmetry == Permutations(Tabs)
=============================================================================
