------------------------------ MODULE GasArena ------------------------------
(***************************************************************************)
(* The gas arena (src/gas.rs): one growing vector of mixtures, GAS_MIXTURES,*)
(* and NEXT_GAS_IDS, the stack of the indices nobody uses.  A BYOND datum   *)
(* holds the index of its mixture in _extools_pointer_gasmixture.  Every    *)
(* operation here runs on BYOND's main thread and keeps its locks to its    *)
(* end, so one operation is one action.                                     *)
(*                                                                          *)
(* unregister_mix neither clears the variable of the datum nor looks whether*)
(* the index is free already: that a datum is unregistered once, when it is *)
(* deleted, is up to the DM code.  With Disciplined = FALSE the datum may   *)
(* also be unregistered again.                                              *)
(***************************************************************************)
EXTENDS Integers, Sequences, FiniteSets

CONSTANTS
    Datums, Contents, Vacuum, Volumes,  \* as in MixPool
    DefaultVolume,  \* volume of a mixture made by Default (2500.0)
    NoPointer,      \* the datum has never been registered
    NoMix,          \* see MixPool
    ArenaCapacity,  \* Vec::with_capacity of GAS_MIXTURES (240_000)
    IdsCapacity,    \* Vec::with_capacity of NEXT_GAS_IDS (2000)
    Reserve,        \* entries of NEXT_GAS_IDS a refill leaves unused (100)
    Disciplined,    \* the DM code unregisters a datum once
    MaxArena,       \* bound of the model: no refill from this length on
    MaxIds          \* bound of the model: NEXT_GAS_IDS grows no further

ASSUME ArenaAssumption ==
    /\ Vacuum \in Contents
    /\ DefaultVolume \in Volumes
    /\ NoPointer \notin Int
    /\ NoMix \notin [contents : Contents, volume : Volumes, immutable : BOOLEAN]
    /\ IsFiniteSet(Datums)
    /\ ArenaCapacity \in Nat
    /\ IdsCapacity \in Nat
    /\ Reserve \in Nat
    /\ Reserve < IdsCapacity
    /\ Disciplined \in BOOLEAN
    /\ MaxArena \in Nat
    /\ MaxIds \in Nat

VARIABLES
    len,        \* GAS_MIXTURES.len()
    mixtures,   \* GAS_MIXTURES, a function on its indices
    arenaCap,   \* GAS_MIXTURES.capacity()
    ids,        \* NEXT_GAS_IDS, its last element is popped first
    idsCap,     \* NEXT_GAS_IDS.capacity()
    pointer,    \* pointer[d]: _extools_pointer_gasmixture of datum d
    live        \* the datums DM holds as registered

vars == <<len, mixtures, arenaCap, ids, idsCap, pointer, live>>

Mixture == [contents : Contents, volume : Volumes, immutable : BOOLEAN]

Slots == 0..(len - 1)

FreeIds == {ids[k] : k \in 1..Len(ids)}

-----------------------------------------------------------------------------
\* Mutant: the volume is left at zero.
FromVolUnset(vol) == [contents |-> Vacuum, volume |-> 0, immutable |-> FALSE]

FromVol(vol) == [contents |-> Vacuum, volume |-> vol, immutable |-> FALSE]

\* Mixture::clear
Clear(mix) == IF mix.immutable THEN mix ELSE [mix EXCEPT !.contents = Vacuum]

\* Mutant: the moles are cleared while the mixture may still be immutable.
ClearBeforeLift(mix, vol) == [Clear(mix) EXCEPT !.volume = vol, !.immutable = FALSE]

\* The mark is lifted before the moles are cleared: an immutable mixture
\* would keep them.
ClearWithVol(mix, vol) == Clear([mix EXCEPT !.volume = vol, !.immutable = FALSE])

\* The capacity of a Rust vector that has to hold n elements: amortised
\* doubling, at least 4.
Grown(cap, n) ==
    IF n <= cap THEN cap
    ELSE IF n < 2 * cap THEN 2 * cap
    ELSE IF n < 4 THEN 4 ELSE n

\* How many free indices a refill makes, when n is the length of the arena
\* with the new mixture and cap its capacity.
RefillSize(cap, n) ==
    LET room == cap - n
        most == idsCap - Reserve
    IN  IF room = 0 \/ most < room THEN most ELSE room

Init ==
    /\ len = 0
    /\ mixtures = << >>
    /\ arenaCap = ArenaCapacity
    /\ ids = << >>
    /\ idsCap = IdsCapacity
    /\ pointer = [d \in Datums |-> NoPointer]
    /\ live = {}

\* register_mix with no free index: push a mixture for the datum, then as many
\* default ones as the vectors hold without growing, whose indices are free.
RegisterPush(d, vol) ==
    LET first == len + 1
        size  == RefillSize(Grown(arenaCap, first), first)
    IN  /\ d \notin live
        /\ len < MaxArena
        /\ ids = << >>
        /\ pointer' = [pointer EXCEPT ![d] = len]
        /\ ids' = [k \in 1..size |-> first + k - 1]
        /\ len' = first + size
        /\ mixtures' = [i \in 0..(first + size - 1) |->
                            IF i < len THEN mixtures[i]
                            ELSE FromVol(IF i = len THEN vol ELSE DefaultVolume)]
        /\ arenaCap' = Grown(Grown(arenaCap, first), first + size)
        /\ live' = live \cup {d}
        /\ UNCHANGED idsCap

\* Mutant: the index is read and not popped.
RegisterPeek(d, vol) ==
    LET idx == ids[Len(ids)] IN
    /\ d \notin live
    /\ ids # << >>
    /\ mixtures' = [mixtures EXCEPT ![idx] = ClearWithVol(@, vol)]
    /\ pointer' = [pointer EXCEPT ![d] = idx]
    /\ live' = live \cup {d}
    /\ UNCHANGED <<len, arenaCap, ids, idsCap>>

\* register_mix with a free index: the one freed last is reset and reused.
RegisterPop(d, vol) ==
    LET idx == ids[Len(ids)] IN
    /\ d \notin live
    /\ ids # << >>
    /\ ids' = SubSeq(ids, 1, Len(ids) - 1)
    /\ mixtures' = [mixtures EXCEPT ![idx] = ClearWithVol(@, vol)]
    /\ pointer' = [pointer EXCEPT ![d] = idx]
    /\ live' = live \cup {d}
    /\ UNCHANGED <<len, arenaCap, idsCap>>

\* unregister_mix: the index goes on the stack.  The datum's variable stays.
Unregister(d) ==
    /\ pointer[d] # NoPointer
    /\ Disciplined => d \in live
    /\ Len(ids) < MaxIds
    /\ ids' = Append(ids, pointer[d])
    /\ idsCap' = Grown(idsCap, Len(ids) + 1)
    /\ live' = live \ {d}
    /\ UNCHANGED <<len, mixtures, arenaCap, pointer>>

\* A hook that writes the mixture of a datum (with_mix_mut and a setter); the
\* setters leave an immutable mixture alone.
SetContents(d, c) ==
    /\ d \in live
    /\ ~mixtures[pointer[d]].immutable
    /\ mixtures' = [mixtures EXCEPT ![pointer[d]].contents = c]
    /\ UNCHANGED <<len, arenaCap, ids, idsCap, pointer, live>>

MarkImmutable(d) ==
    /\ d \in live
    /\ mixtures' = [mixtures EXCEPT ![pointer[d]].immutable = TRUE]
    /\ UNCHANGED <<len, arenaCap, ids, idsCap, pointer, live>>

Next ==
    \E d \in Datums :
        \/ \E vol \in Volumes : RegisterPush(d, vol) \/ RegisterPop(d, vol)
        \/ Unregister(d)
        \/ \E c \in Contents : SetContents(d, c)
        \/ MarkImmutable(d)

Spec == Init /\ [][Next]_vars

-----------------------------------------------------------------------------
(***************************************************************************)
(* Properties.                                                              *)
(***************************************************************************)

\* amt_gases(): the unsigned difference of the two lengths.
AmtGases == len - Len(ids)

Used == {pointer[d] : d \in live}

TypeOK ==
    /\ len \in Nat
    /\ mixtures \in [Slots -> Mixture]
    /\ arenaCap \in Nat
    /\ ids \in Seq(Nat)
    /\ idsCap \in Nat
    /\ pointer \in [Datums -> Nat \cup {NoPointer}]
    /\ live \in SUBSET Datums

\* An index popped by register_mix is one of the arena's: the unwrap() of
\* get(idx) cannot panic, even when DM unregisters a datum twice (ArenaProofs).
\* With discipline it is a part of SlotsPartition.
FreeIdsExist == FreeIds \subseteq Slots

\* Every mixture of the arena is either on the stack of free indices, once, or
\* belongs to a single registered datum: register_mix and unregister_mix
\* neither leak a slot nor hand one out twice.
SlotsPartition ==
    /\ FreeIds \cup Used = Slots
    /\ FreeIds \cap Used = {}
    /\ \A j, k \in 1..Len(ids) : ids[j] = ids[k] => j = k
    /\ \A d, e \in live : pointer[d] = pointer[e] => d = e

\* amt_gases reports the number of datums that are registered, although it is
\* computed from two vectors that never mention a datum.
AmtCountsLive == AmtGases = Cardinality(live)

\* The arena implements a private mixture per datum.
Pool == INSTANCE MixPool WITH
            pool <- [d \in Datums |->
                        IF d \in live THEN mixtures[pointer[d]] ELSE NoMix]

PoolSpec == Pool!Spec
=============================================================================
