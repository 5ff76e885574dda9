---------------------------- MODULE MCMigrations ----------------------------
(* The migrations for TLC, on a fresh database. *)
EXTENDS Migrations
=============================================================================
