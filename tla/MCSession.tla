------------------------------- MODULE MCSession -------------------------------
(***************************************************************************)
(* Small instances of Session.  The processes are interchangeable, and so  *)
(* are the contents and the authenticators enrolled later.                 *)
(***************************************************************************)
EXTENDS Session, TLC

CONSTANTS p1, p2, id1, id2, old, new, primary, backup, spare, OtherMachine

Symmetry == Permutations(Procs) \cup Permutations(Contents) \cup Permutations({backup, spare})
===============================================================================
