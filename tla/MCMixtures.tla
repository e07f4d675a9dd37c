------------------------------ MODULE MCMixtures ------------------------------
(***************************************************************************)
(* Two mixtures of two gases with different specific heats, one twice as    *)
(* large as the other, of which the smaller may be immutable.  The          *)
(* temperatures are such that many mixtures of the two, and halves of the   *)
(* way between them, are whole numbers.                                     *)
(***************************************************************************)
EXTENDS Mixtures

TwoMixes == {"room", "tank"}
TwoGases == {"o2", "plasma"}
SpecificHeat == [g \in TwoGases |-> IF g = "o2" THEN 1 ELSE 2]
Volumes == [m \in TwoMixes |-> IF m = "room" THEN 2 ELSE 1]
TheTank == {"tank"}

\* Negative amounts and ratios, nothing, a part, and more than there is.
SomeAmounts == {-3, 0, 1}
SomeRatios == {<<-1, 2>>, <<1, 2>>, <<2, 1>>}

\* Hot gas, and heat that is taken away.
SomeTemps == {15}
SomeHeats == {-14}
SomeLevels == {1, 8, 15}
AllOrHalf == {<<1, 1>>, <<1, 2>>}

\* A minimum that is set after the heat capacity was kept is not seen; see README.
NoMinimum == {0}
=============================================================================
