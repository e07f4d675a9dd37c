------------------------------- MODULE MCKatmos -------------------------------
(***************************************************************************)
(* Six turfs, in four worlds: a room of two by three; a row on a planet that*)
(* is flooded from both ends; two rooms on either side of space; the room   *)
(* less one turf.  Moles are multiples of 60, so that the average of any    *)
(* zone is a whole number.                                                  *)
(***************************************************************************)
EXTENDS Katmos

Six == 1..6

Joined(edges) ==
    [t \in Six |-> SelectSeq(<<1, 2, 3, 4, 5, 6>>,
                        LAMBDA u : <<t, u>> \in edges \/ <<u, t>> \in edges)]

Grid == Joined({<<1, 2>>, <<2, 3>>, <<4, 5>>, <<5, 6>>, <<1, 4>>, <<2, 5>>, <<3, 6>>})
RowOfSix == Joined({<<1, 2>>, <<2, 3>>, <<3, 4>>, <<4, 5>>, <<5, 6>>})

Room ==
    [adjacent |-> Grid, enabled |-> Six, immutable |-> {}, planetary |-> {},
     firelocks |-> {}, high |-> {1, 5}]

Planet ==
    [adjacent |-> RowOfSix, enabled |-> Six, immutable |-> {}, planetary |-> {3, 4},
     firelocks |-> {<<2, 3>>}, high |-> {1, 3, 6}]

\* Space at 3 and a turf that is not simulated at 6.
Hull ==
    [adjacent |-> RowOfSix, enabled |-> {1, 2, 4, 5}, immutable |-> {3}, planetary |-> {},
     firelocks |-> {}, high |-> {1, 2, 4, 5}]

\* The room, with a turf that is not simulated.
Nook == [Room EXCEPT !.enabled = 1..5, !.high = {1}]

SomeWorlds == {Room, Planet, Hull, Nook}
StartLevels == {0, 60, 180}
=============================================================================
