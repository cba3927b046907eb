---------------------------- MODULE MCMigrations ----------------------------
(***************************************************************************)
(* Three instances, two tries for the lock, two faults.                    *)
(***************************************************************************)
EXTENDS Migrations
=============================================================================
