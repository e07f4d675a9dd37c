----------------------------- MODULE MCCallbacks -----------------------------
(***************************************************************************)
(* Closures of hooks and of the heat thread, two of them failing, each      *)
(* sending up to two more.  Three turfs in a row: the first is next to      *)
(* space, the second is small and too hot, the third has warm air.          *)
(***************************************************************************)
EXTENDS Superconduct

\* Two closures in a row fail.
FailingClosures == {2, 3}

Row == 1..3
RowNear == [t \in Row |-> CASE t = 1 -> {} [] t = 2 -> {1, 3} [] t = 3 -> {2}]
Solid == [t \in Row |-> IF t = 2 THEN 10 ELSE 30]
Percent == [t \in Row |-> 100]
Outer == {1}
Aired == {3}
AirCap == [t \in Aired |-> 10]
Warm == [t \in Row |-> IF t = 2 THEN 60 ELSE 5]
WarmAir == [t \in Aired |-> 40]
=============================================================================
