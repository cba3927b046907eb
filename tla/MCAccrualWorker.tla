-------------------------- MODULE MCAccrualWorker --------------------------
(* Instances of AccrualWorker for TLC. *)
EXTENDS AccrualWorker, TLC

MCRetries == {1, 2}
MCRetry == {1}
MCTwo == {2}

\* The delays of backoff (decide.go:74-86): doubling up to a cap.
Doubling(cap) == [a \in 0..MaxAttempts |-> IF 2^a > cap THEN cap ELSE 2^a]
MCShort == Doubling(1)
MCLong == Doubling(2)

Symmetry == Permutations(Orders) \cup Permutations(Instances) \cup Permutations(Workers)
=============================================================================
