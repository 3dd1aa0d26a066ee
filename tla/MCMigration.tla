---------------------------- MODULE MCMigration -----------------------------
(***************************************************************************)
(* Model checking Migration: processes are interchangeable.                *)
(***************************************************************************)
EXTENDS Migration, TLC

Symmetry == Permutations(Procs)
=============================================================================
