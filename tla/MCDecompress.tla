---------------------------- MODULE MCDecompress ----------------------------
(***************************************************************************)
(* Five turfs: two rooms of two, on either side of a turf of space, or with *)
(* a planet beyond the second one; doors between any of them.  Two callbacks*)
(* run one after the other.                                                 *)
(***************************************************************************)
EXTENDS Decompress

Five == 1..5

Both(es) == es \cup {<<e[2], e[1]>> : e \in es}

\* 1 - 2 - 3 (space) - 4 - 5, with a way round from 1 to 4.
Hull(doors) ==
    [edges |-> Both({<<1, 2>>, <<2, 3>>, <<3, 4>>, <<4, 5>>, <<1, 4>>}),
     firelocks |-> Both(doors), enabled |-> {1, 2, 4, 5}, immutable |-> {3}, planetary |-> {}]

\* 1 - 2 - 3 (space), and 1 - 4 - 5 (planet).
Shore(doors) ==
    [edges |-> Both({<<1, 2>>, <<2, 3>>, <<1, 4>>, <<4, 5>>}),
     firelocks |-> Both(doors), enabled |-> {1, 2, 4, 5}, immutable |-> {3}, planetary |-> {5}]

SomeWorlds ==
    {Hull(doors) : doors \in SUBSET {<<1, 2>>, <<1, 4>>, <<4, 5>>}}
    \cup {Shore(doors) : doors \in SUBSET {<<1, 2>>, <<1, 4>>, <<4, 5>>}}

SomeJobs ==
    {<< <<"decompress", t>>, <<kind, u>> >> :
        t \in {2, 4}, kind \in {"decompress", "planet"}, u \in {1, 4}}
StartLevels == {2}
=============================================================================
