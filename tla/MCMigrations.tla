---------------------------- MODULE MCMigrations ----------------------------
(* Migrations for TLC: symmetric Cards and openers. *)
EXTENDS Migrations, TLC

Interchangeable == Permutations(CardIds) \cup Permutations(Openers)
=============================================================================
