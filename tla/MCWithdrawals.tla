--------------------------- MODULE MCWithdrawals ---------------------------
(* Instances of Withdrawals for TLC. *)
EXTENDS Withdrawals, Functions, TLC

MCAmounts == {1, 2}

\* The SUM aggregate.
MCTotal(f) == FoldFunction(+, 0, f)

Symmetry ==
    Permutations(Users) \cup Permutations(Numbers) \cup
    Permutations(OrderNumbers) \cup Permutations(Requests)
=============================================================================
