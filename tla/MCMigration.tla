----------------------------- MODULE MCMigration -----------------------------
(***************************************************************************)
(* Instances of Migration for TLC.                                         *)
(***************************************************************************)
EXTENDS Migration

CONSTANTS n1, n2

TwoNodes == <<n1, n2>>
=============================================================================
