----------------------------- MODULE MCGasArena -----------------------------
(***************************************************************************)
(* Three datums over small vectors: the arena is refilled more than once,   *)
(* with room left and without, and indices are reused in every order.       *)
(***************************************************************************)
EXTENDS GasArena, TLC

Symmetry == Permutations(Datums)
=============================================================================
