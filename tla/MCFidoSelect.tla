---------------------------- MODULE MCFidoSelect ----------------------------
(***************************************************************************)
(* A small instance of FidoSelect.  Devices, credentials and processes are *)
(* interchangeable.  Of the probes that fail one is remembered at a time:  *)
(* what it leads to is explored to the end, a second one is not followed.  *)
(***************************************************************************)
EXTENDS FidoSelect, TLC

CONSTANTS red, green, c1, c2, c3, cli, daemon

Missed == {<<p, d>> \in Procs \X Devices : d \in op[p].missed}

OneFailedProbe == Cardinality(Missed) + Cardinality(blind) <= 1

Symmetry == Permutations(Devices) \cup Permutations(Creds) \cup Permutations(Procs)
===============================================================================
