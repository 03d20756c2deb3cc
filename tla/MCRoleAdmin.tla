---------------------------- MODULE MCRoleAdmin -----------------------------
(* Instances of RoleAdmin: one administrator, one other member, and the    *)
(* provisioned role beside one that does not exist yet.                    *)
EXTENDS RoleAdmin, TLC

RequestSymmetry == Permutations(Requests)
=============================================================================
