----------------------------- MODULE MCSypherstore -----------------------------
(***************************************************************************)
(* Small instances of Sypherstore.  No symmetry: one slot for the unlock   *)
(* threads and one or two secrets.                                         *)
(***************************************************************************)
EXTENDS Sypherstore, TLC

CONSTANTS mail, bank, u1, u2
================================================================================
