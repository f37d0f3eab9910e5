----------------------------- MODULE MCVaultFiles -----------------------------
(***************************************************************************)
(* A small instance of VaultFiles.  Secrets are interchangeable.  Archives *)
(* of a vault that init has not finished, and what follows a restore that  *)
(* mixed two databases, are reached and not followed.                      *)
(***************************************************************************)
EXTENDS VaultFiles, TLC

CONSTANTS mail, bank

WholeOrNew == whole \/ DOMAIN archives = {}

Symmetry == Permutations(Ids)
===============================================================================
