------------------------------- MODULE TurfAir -------------------------------
(***************************************************************************)
(* What the parts of a cycle that move gas between turfs have in common: the*)
(* turfs and the gas in each.                                               *)
(***************************************************************************)
EXTENDS Integers, Sequences, SequencesExt

CONSTANTS
    Turfs,          \* BYOND references, which are numbers
    Levels,         \* moles a turf may start with
    MinDelta        \* MINIMUM_MOLES_DELTA_TO_MOVE

VARIABLE
    gas             \* gas[t]: moles of turf t

-----------------------------------------------------------------------------
\* The turfs of a sequence that are in a set, in their order.
Among(seq, set) ==
    FoldLeft(LAMBDA r, t : IF t \in set THEN Append(r, t) ELSE r, << >>, seq)
=============================================================================
