------------------------------ MODULE MCVisuals ------------------------------
(***************************************************************************)
(* Two turfs whose gas is clear or shows plasma, which can react, one of    *)
(* which may lose its air; a callback may wait at a post_process, which may *)
(* add four.                                                                *)
(***************************************************************************)
EXTENDS Visuals
=============================================================================
