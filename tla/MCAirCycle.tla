----------------------------- MODULE MCAirCycle -----------------------------
(***************************************************************************)
(* Four turfs in a row, the last one on a planet; their gases start close   *)
(* enough for groups, and so far apart that some are high pressure turfs.   *)
(***************************************************************************)
EXTENDS AirCycle

Row == 1..4
RowAdjacent ==
    [t \in Row |-> SelectSeq(<<t - 1, t + 1>>, LAMBDA u : u \in Row)]
StartLevels == {0, 30, 100}
Outdoors == {4}
Space == {1}
Changing == {3}
=============================================================================
