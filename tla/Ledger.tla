------------------------------- MODULE Ledger -------------------------------
(***************************************************************************)
(* What the loyalty account promises, without transactions, locks or       *)
(* tables: every user has a balance that accruals raise and withdrawals    *)
(* lower, never below zero, and a number pays for one withdrawal among all *)
(* users.  Withdrawals.tla implements this specification.                  *)
(***************************************************************************)
EXTENDS Naturals

CONSTANTS
    Users,      \* the registered users
    Numbers,    \* the numbers that withdrawals are made for
    Amounts,    \* the sums that are accrued or withdrawn
    None        \* not a payment

VARIABLES
    funds,      \* the points each user may still spend
    payments    \* what each number has paid for, or None

vars == <<funds, payments>>

Payment == [user : Users, sum : Amounts]

Init ==
    /\ funds = [u \in Users |-> 0]
    /\ payments = [n \in Numbers |-> None]

Credit(u, a) ==
    /\ funds' = [funds EXCEPT ![u] = funds[u] + a]
    /\ UNCHANGED payments

Pay(u, n, a) ==
    /\ payments[n] = None
    /\ a <= funds[u]
    /\ funds' = [funds EXCEPT ![u] = funds[u] - a]
    /\ payments' = [payments EXCEPT ![n] = [user |-> u, sum |-> a]]

Next ==
    \E u \in Users, a \in Amounts :
        \/ Credit(u, a)
        \/ \E n \in Numbers : Pay(u, n, a)

Spec == Init /\ [][Next]_vars
=============================================================================
