-------------------------- MODULE MCMigrationManager --------------------------
(* Instances of MigrationManager for TLC.                                   *)
EXTENDS MigrationManager, TLC
=============================================================================
