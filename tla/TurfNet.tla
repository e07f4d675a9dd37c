------------------------------- MODULE TurfNet -------------------------------
(***************************************************************************)
(* What the turf arena promises: BYOND's turfs with what was last registered*)
(* for each, and the adjacencies last declared between turfs that are       *)
(* registered.  A turf that goes takes every adjacency to and from it along,*)
(* and one that comes back starts without any.  There are no node indices.  *)
(***************************************************************************)
CONSTANTS
    TurfIDs,    \* BYOND references of turfs
    Weights,    \* what is registered for a turf
    NoTurf      \* the turf is not registered

VARIABLES
    turfs,      \* turfs[t]: what is registered for turf t, or NoTurf
    adjacent    \* pairs <<t, u>>: u is among the adjacent turfs of t

vars == <<turfs, adjacent>>

Registered == {t \in TurfIDs : turfs[t] # NoTurf}

Init ==
    /\ turfs = [t \in TurfIDs |-> NoTurf]
    /\ adjacent = {}

Register(t, w) ==
    /\ turfs' = [turfs EXCEPT ![t] = w]
    /\ UNCHANGED adjacent

Remove(t) ==
    /\ turfs' = [turfs EXCEPT ![t] = NoTurf]
    /\ adjacent' = {e \in adjacent : e[1] # t /\ e[2] # t}

Connect(t, us) ==
    /\ t \in Registered
    /\ adjacent' = {e \in adjacent : e[1] # t} \cup {<<t, u>> : u \in us \cap Registered}
    /\ UNCHANGED turfs

Next ==
    \E t \in TurfIDs :
        \/ \E w \in Weights : Register(t, w)
        \/ Remove(t)
        \/ \E us \in SUBSET TurfIDs : Connect(t, us)

Spec == Init /\ [][Next]_vars
=============================================================================
