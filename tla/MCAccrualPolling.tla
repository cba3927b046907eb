-------------------------- MODULE MCAccrualPolling --------------------------
(* Instances of AccrualPolling for TLC. *)
EXTENDS AccrualPolling
MCOne == {1}
=============================================================================
