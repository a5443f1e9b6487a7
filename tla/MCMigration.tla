---------------------------- MODULE MCMigration ----------------------------
(***************************************************************************)
(* An instance of Migration for TLC: its constants are model values.       *)
(***************************************************************************)
EXTENDS Migration, TLC
=============================================================================
