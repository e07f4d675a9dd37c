----------------------------- MODULE MCTurfGraph -----------------------------
(***************************************************************************)
(* Three turfs come, go and are connected in every order, so that node      *)
(* indices pass from one turf to another.                                   *)
(***************************************************************************)
EXTENDS TurfGraph, TLC

Symmetry == Permutations(TurfIDs)
=============================================================================
