------------------------- MODULE MCOrderSubmission -------------------------
(* Instances of OrderSubmission for TLC. *)
EXTENDS OrderSubmission, TLC

CONSTANTS n1, n2, n3, h1, h2

\* Two of the three numbers share their hash.
MCHash == n1 :> h1 @@ n2 :> h1 @@ n3 :> h2

Symmetry == Permutations(Users) \cup Permutations(Requests)
=============================================================================
