----------------------------- MODULE Ownership -----------------------------
(***************************************************************************)
(* What uploading promises: a number gets one owner, who keeps it, and the *)
(* upload that made it his is the only one that is ever accepted.          *)
(* OrderSubmission.tla implements this specification.                      *)
(***************************************************************************)
EXTENDS Sequences

CONSTANTS
    Users,      \* the users
    Numbers,    \* the order numbers
    Nobody      \* the owner of a number that was not uploaded

VARIABLES
    owner,      \* the owner of each number
    accepted    \* whom an upload of each number was answered with 202, in order

vars == <<owner, accepted>>

Init ==
    /\ owner = [n \in Numbers |-> Nobody]
    /\ accepted = [n \in Numbers |-> << >>]

Take(u, n) ==
    /\ owner[n] = Nobody
    /\ owner' = [owner EXCEPT ![n] = u]
    /\ UNCHANGED accepted

\* The answer of an accepted upload may get lost, so Take need not be followed
\* by Accept; it is given to the owner, and never twice.
Accept(n) ==
    /\ owner[n] # Nobody
    /\ accepted[n] = << >>
    /\ accepted' = [accepted EXCEPT ![n] = << owner[n] >>]
    /\ UNCHANGED owner

Next == \E n \in Numbers : Accept(n) \/ \E u \in Users : Take(u, n)

Spec == Init /\ [][Next]_vars
=============================================================================
