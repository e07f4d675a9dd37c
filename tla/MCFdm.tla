------------------------------- MODULE MCFdm -------------------------------
(***************************************************************************)
(* Four turfs: three in a ring and one hanging on to it.  Their gases start *)
(* 64 apart (below the threshold), 128 apart (a low turf) or 192 apart (a   *)
(* high one), in every combination; 64 is 8^2, so two steps stay exact and  *)
(* the third may round.                                                     *)
(***************************************************************************)
EXTENDS Fdm

Corridor == {"a", "b", "c", "d"}

Both(pairs) == pairs \cup {<<e[2], e[1]>> : e \in pairs}

Paw == Both({<<"a", "b">>, <<"b", "c">>, <<"c", "a">>, <<"c", "d">>})

StartLevels == {0, 64, 192}

\* A sealed room, or the turf at the end open to space.
SomeSpaces == {{}, {"d"}}
=============================================================================
