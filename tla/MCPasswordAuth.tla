--------------------------- MODULE MCPasswordAuth ---------------------------
(* PasswordAuth for TLC: requests are interchangeable.                     *)
EXTENDS PasswordAuth, TLC

Interchangeable == Permutations(Requests)
=============================================================================
