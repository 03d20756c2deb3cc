------------------------ MODULE MCSessionLifecycle ------------------------
(* SessionLifecycle for TLC: rows, workers and memberships are             *)
(* interchangeable, each kind among itself.                                *)
EXTENDS SessionLifecycle, TLC

Interchangeable ==
    {p @@ q @@ r : p \in Permutations(Slots), q \in Permutations(Workers),
                   r \in Permutations(Memberships)}
===========================================================================
