----------------------------- MODULE MCSessions -----------------------------
(* Instances of Sessions for TLC. *)
EXTENDS Sessions, TLC

Symmetry ==
    Permutations(Logins) \cup Permutations(Passwords) \cup Permutations(Nonces)
        \cup Permutations(Requests)
=============================================================================
