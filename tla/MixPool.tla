------------------------------- MODULE MixPool -------------------------------
(***************************************************************************)
(* What the gas arena promises to BYOND: every registered gas_mixture       *)
(* datum owns a mixture of its own.  A new one starts as an empty, mutable  *)
(* mixture of the requested volume whatever used the memory before, a       *)
(* write through one datum never shows in another, and deleting the datum   *)
(* gives the mixture up.  There are no indices, no free list and no reuse.  *)
(***************************************************************************)
CONSTANTS
    Datums,     \* the gas_mixture datums of the BYOND world
    Contents,   \* what the moles and the temperature of a mixture can be
    Vacuum,     \* the contents of a mixture nobody has written
    Volumes,    \* values of initial_volume
    NoMix       \* the datum is not registered

VARIABLE pool   \* pool[d]: the mixture of datum d, or NoMix

Mixture == [contents : Contents, volume : Volumes, immutable : BOOLEAN]

Empty(vol) == [contents |-> Vacuum, volume |-> vol, immutable |-> FALSE]

Init == pool = [d \in Datums |-> NoMix]

New(d, vol) ==
    /\ pool[d] = NoMix
    /\ pool' = [pool EXCEPT ![d] = Empty(vol)]

Write(d, c) ==
    /\ pool[d] # NoMix
    /\ ~pool[d].immutable
    /\ pool' = [pool EXCEPT ![d].contents = c]

MarkImmutable(d) ==
    /\ pool[d] # NoMix
    /\ pool' = [pool EXCEPT ![d].immutable = TRUE]

Del(d) ==
    /\ pool[d] # NoMix
    /\ pool' = [pool EXCEPT ![d] = NoMix]

Next ==
    \E d \in Datums :
        \/ \E vol \in Volumes : New(d, vol)
        \/ \E c \in Contents : Write(d, c)
        \/ MarkImmutable(d)
        \/ Del(d)

Spec == Init /\ [][Next]_pool
=============================================================================
