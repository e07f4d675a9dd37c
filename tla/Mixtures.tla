------------------------------- MODULE Mixtures -------------------------------
(***************************************************************************)
(* The operations on gas mixtures (src/gas/mixture.rs) and the hooks through*)
(* which BYOND calls them (src/lib.rs).  A mixture keeps its heat capacity  *)
(* once it has been computed; whatever changes its moles has to throw the   *)
(* kept value away or replace it.  A mixture can be marked immutable, and   *)
(* every operation has to look at the mark.                                 *)
(*                                                                          *)
(* Moles are whole numbers, so large that GAS_MIN_MOLES is none of them, or *)
(* no number at all: NaN.  They are never infinite: divide_hook is not given*)
(* 0.  A ratio is a pair of a numerator and a denominator, <<0, 0>> if it is*)
(* NaN; otherwise the hooks are given those that leave whole numbers.  A    *)
(* temperature is a whole number too: a hook whose result would have another*)
(* is one the model leaves out.                                             *)
(***************************************************************************)
EXTENDS Integers, FiniteSets, FiniteSetsExt, Functions

CONSTANTS
    Mixes,          \* mixtures of the arena that datums own
    Gases,          \* indices of the registered gases
    Heat,           \* Heat[g]: specific heat of gas g
    Volume,         \* Volume[m]: volume of mixture m
    Amounts,        \* moles a hook may be given
    Ratios,         \* pairs <<n, d>>: the ratio n / d
    Temps,          \* temperatures a hook may be given
    Heats,          \* what adjust_heat may be given
    Coefficients,   \* pairs <<n, d>>: conduction coefficients
    TCMB,           \* the temperature of space, of which no gas is colder
    Broken,         \* a temperature that is not a whole number
    Minima,         \* values of set_min_heat_capacity
    Unknown,        \* cached_heat_capacity is NaN
    Marked,         \* mixtures that DM marks immutable
    Levels,         \* bound of the model: temperatures a mixture may have
    MaxHeat,        \* bound of the model: heat capacity that is kept beside NaN
    MaxMoles        \* bound of the model: moles in a mixture

ASSUME MixturesAssumption ==
    /\ IsFiniteSet(Gases) /\ IsFiniteSet(Mixes)
    /\ Heat \in [Gases -> Nat \ {0}]
    /\ Volume \in [Mixes -> Nat \ {0}]
    /\ Amounts \subseteq Int
    /\ Ratios \subseteq Int \X (Nat \ {0})
    /\ Levels \subseteq Int /\ Temps \subseteq Int /\ Heats \subseteq Int
    /\ Coefficients \subseteq Nat \X (Nat \ {0})
    /\ TCMB \in Nat \ {0}
    /\ Broken \notin Int
    /\ Minima \subseteq Nat
    /\ Unknown \notin Int
    /\ Marked \subseteq Mixes
    /\ MaxMoles \in Nat /\ MaxHeat \in Nat

VARIABLE mix    \* mix[m]: moles, temperature, min_heat_capacity, cache and mark of m;
                \* nan are the gases the moles of which are NaN (moles has 0 for those)

-----------------------------------------------------------------------------
(***************************************************************************)
(* The methods of Mixture.                                                  *)
(***************************************************************************)
Empty ==
    [moles |-> [g \in Gases |-> 0], nan |-> {}, temp |-> TCMB, min |-> 0,
     cached |-> Unknown, immutable |-> FALSE]

\* What the moles of all gases together need for a degree.
HeatOf(moles) == SumFunctionOnSet([g \in Gases |-> moles[g] * Heat[g]], Gases)

\* f32::max of NaN and the minimum is the minimum.
SlowHeatCapacity(x) == IF x.nan # {} THEN x.min ELSE Max({HeatOf(x.moles), x.min})

HeatCapacity(x) == IF x.cached = Unknown THEN SlowHeatCapacity(x) ELSE x.cached

\* What a call of heat_capacity leaves in the cache, of an immutable mixture too.
Read(x) == [x EXCEPT !.cached = HeatCapacity(x)]

\* n / d, if it is a whole number.
Quotient(n, d) == IF n % d = 0 THEN n \div d ELSE Broken

\* set_temperature to n / d: what is not a normal number is ignored, and so are
\* zero and a division by zero.
SetTemperature(x, n, d) ==
    IF x.immutable \/ n = 0 \/ d = 0 THEN x ELSE [x EXCEPT !.temp = Quotient(n, d)]

Energy(x) == HeatCapacity(x) * x.temp

Invalidate(x) == [x EXCEPT !.cached = Unknown]

\* x with the moles of all gases, of which those of lost are NaN.
WithMoles(x, moles, lost) ==
    [x EXCEPT !.moles = [g \in Gases |-> IF g \in lost THEN 0 ELSE moles[g]], !.nan = lost]

\* x with moles added to its own: NaN is what has NaN added or is added to NaN.
Plus(x, moles, lost) ==
    WithMoles(x, [g \in Gases |-> x.moles[g] + moles[g]], x.nan \cup lost)

\* NaN is not more than GAS_MIN_MOLES either, and becomes 0.
GarbageCollect(x) ==
    WithMoles(x, [g \in Gases |-> IF x.moles[g] > 0 THEN x.moles[g] ELSE 0], {})

SetMoles(x, g, amt) ==
    IF x.immutable THEN x
    ELSE Invalidate(WithMoles(x, [x.moles EXCEPT ![g] = amt], x.nan \ {g}))

\* amt moles of g, and none of the others.
Only(g, amt) == [h \in Gases |-> IF h = g THEN amt ELSE 0]

\* Mutant: the cache is thrown away with what is collected only.
AdjustMolesStale(x, g, amt) ==
    LET y == Plus(x, Only(g, amt), {}) IN
    IF x.immutable \/ amt = 0 THEN x
    ELSE IF amt > 0 THEN y ELSE Invalidate(GarbageCollect(y))

AdjustMoles(x, g, amt) ==
    LET y == Plus(x, Only(g, amt), {}) IN
    IF x.immutable \/ amt = 0 THEN x
    ELSE Invalidate(IF amt > 0 THEN y ELSE GarbageCollect(y))

\* Mutant: only if every adjustment takes moles away there is garbage.
AdjustMultiUncollected(x, amts) ==
    LET y == Plus(x, amts, {}) IN
    IF x.immutable \/ \A g \in Gases : amts[g] = 0 THEN x
    ELSE Invalidate(IF \E g \in Gases : amts[g] >= 0 THEN y ELSE GarbageCollect(y))

\* The list of adjustments is a function on the gases, zero for those without.
AdjustMulti(x, amts) ==
    LET y == Plus(x, amts, {}) IN
    IF x.immutable \/ \A g \in Gases : amts[g] = 0 THEN x
    ELSE Invalidate(IF \A g \in Gases : amts[g] >= 0 THEN y ELSE GarbageCollect(y))

Clear(x) ==
    IF x.immutable THEN x ELSE Invalidate(WithMoles(x, [g \in Gases |-> 0], {}))

\* A ratio that is NaN: nothing of nothing.
NoNumber == <<0, 0>>

\* n times r; of n times NaN nothing is left once it is collected.
Scaled(n, r) == IF r = NoNumber THEN 0 ELSE (n * r[1]) \div r[2]

Multiply(x, r) ==
    IF x.immutable THEN x
    ELSE GarbageCollect(Invalidate(
            WithMoles(x, [g \in Gases |-> Scaled(x.moles[g], r)], x.nan)))

\* add(): every gas the vector of moles has room for; those it has are at least
\* the gases there are any moles of, hs.
Add(x, hs, amt) ==
    IF x.immutable THEN x
    ELSE GarbageCollect(Invalidate(
            Plus(x, [g \in Gases |-> IF g \in hs THEN amt ELSE 0], {})))

\* Mutant: the temperatures are weighed after the moles were added.
MergeWeighedLate(x, giver) ==
    LET both == HeatCapacity(x) + HeatCapacity(giver)
        y    == Plus(x, giver.moles, giver.nan)
    IN  IF x.immutable THEN x
        ELSE [SetTemperature(y, both * x.temp + HeatCapacity(giver) * giver.temp,
                             both + HeatCapacity(giver)) EXCEPT !.cached = both]

\* The combined heat capacity is kept, it need not be computed again.
Merge(x, giver) ==
    LET both == HeatCapacity(x) + HeatCapacity(giver)
        y    == Plus(x, giver.moles, giver.nan)
    IN  IF x.immutable THEN x
        ELSE [SetTemperature(y, Energy(x) + Energy(giver), both) EXCEPT !.cached = both]

\* merge asks the giver for its heat capacity, unless it returns early.
Given(x, giver) == IF x.immutable THEN giver ELSE Read(giver)

\* clamp keeps NaN, and so does the rest of it.
Clamp(r) == IF r[1] < 0 THEN <<0, r[2]>> ELSE IF r[1] > r[2] THEN <<r[2], r[2]>> ELSE r

Rest(r) == <<r[2] - r[1], r[2]>>

\* copy_from_mutable leaves the minimum of the heat capacity alone.
CopyFromMutable(x, sample) ==
    IF x.immutable THEN x
    ELSE [x EXCEPT !.moles = sample.moles, !.nan = sample.nan,
                   !.temp = sample.temp, !.cached = sample.cached]

\* remove_ratio_into as the pair of what it makes of self and of into.  NaN is not
\* less than or equal to zero.
RemoveRatioInto(x, into, ratio) ==
    LET r == Clamp(ratio) IN
    IF ratio # NoNumber /\ ratio[1] <= 0 THEN <<x, into>>
    ELSE <<Multiply(x, Rest(r)), Multiply(CopyFromMutable(into, x), r)>>

RemoveRatio(x, ratio) == RemoveRatioInto(x, Empty, ratio)

\* transfer_ratio_hook as a pair.
TransferRatio(x, y, ratio) ==
    LET removed == RemoveRatio(x, ratio) IN <<removed[1], Merge(y, removed[2])>>

\* transfer_gases_to as a pair.  Of the two only into is asked for its mark.  gs
\* are those of the gases that self has an entry of: of the others it has no moles,
\* and no NaN.  What is lost to NaN is not given (adjust_moles ignores it) and
\* leaves no number for the temperature.
TransferGasesTo(x, into, ratio, gs) ==
    LET r     == Clamp(ratio)
        lost  == IF r = NoNumber THEN gs ELSE gs \cap x.nan
        delta == [g \in Gases |-> IF g \in gs THEN Scaled(x.moles[g], r) ELSE 0]
        taken == Plus(x, [g \in Gases |-> 0 - delta[g]], lost)
        given == IF into.immutable THEN into ELSE Plus(into, delta, {})
        y     == Read(Invalidate(given))
        heat  == HeatOf(delta) * x.temp
    IN  <<Invalidate(taken),
          IF lost # {} THEN y
          ELSE SetTemperature(y, Energy(into) + heat, HeatCapacity(y))>>

ShareRatio(x, giver, ratio) ==
    LET r    == Clamp(ratio)
        kept == Multiply(x, Rest(r))
        both == HeatCapacity(kept) + Scaled(HeatCapacity(giver), r)
        y    == Plus(kept, [g \in Gases |-> Scaled(giver.moles[g], r)], giver.nan)
    IN  IF x.immutable THEN x
        ELSE [SetTemperature(y, Energy(kept) + Scaled(HeatCapacity(giver), r) * giver.temp, both)
                EXCEPT !.cached = both]

AdjustHeat(x, heat) == SetTemperature(Read(x), Energy(x) + heat, HeatCapacity(x))

\* What x has after it shared heat with a body of another temperature and heat
\* capacity; never colder than space.
Conducted(x, k, temp, cap) ==
    LET d == k[2] * (HeatCapacity(x) + cap)
        n == x.temp * d - k[1] * (x.temp - temp) * cap
    IN  IF x.immutable THEN x
        ELSE [x EXCEPT !.temp = IF n < TCMB * d THEN TCMB ELSE Quotient(n, d)]

\* temperature_share as a pair, for temperatures that differ by more than the
\* least that is considered if they differ.
TemperatureShare(x, y, k) ==
    IF x.temp = y.temp THEN <<x, y>>
    ELSE IF HeatCapacity(x) = 0 \/ HeatCapacity(y) = 0 THEN <<Read(x), Read(y)>>
    ELSE <<Conducted(Read(x), k, y.temp, HeatCapacity(y)),
           Conducted(Read(y), k, x.temp, HeatCapacity(x))>>

\* temperature_share_non_gas, as what it makes of the mixture.
TemperatureShareNonGas(x, k, temp, cap) ==
    IF x.temp = temp THEN x
    ELSE IF HeatCapacity(x) = 0 \/ cap = 0 THEN Read(x)
    ELSE Conducted(Read(x), k, temp, cap)

-----------------------------------------------------------------------------
(***************************************************************************)
(* The hooks.                                                               *)
(***************************************************************************)

\* A ratio the hooks are given for mixture x: no mole is split.
Whole(x, r) == r # NoNumber => \A g \in Gases : (x.moles[g] * r[1]) % r[2] = 0

TotalMoles(x) == SumFunctionOnSet(x.moles, Gases)

\* amt divided by total_moles: by zero it is NaN or infinite, and whole amounts
\* are clamped as the infinite are; by a total that is NaN it is NaN.
PartOf(x, amt) ==
    IF x.nan # {} \/ (amt = 0 /\ TotalMoles(x) = 0) THEN NoNumber
    ELSE <<amt, Max({TotalMoles(x), 1})>>

\* No mixture outgrows the bounds, and every temperature is a whole number.
Bounded ==
    \A m \in Mixes :
        /\ mix'[m].temp \in Levels
        /\ mix'[m].nan # {} /\ mix'[m].cached # Unknown => mix'[m].cached <= MaxHeat
        /\ TotalMoles(mix'[m]) <= MaxMoles

Change(a, x) == mix' = [mix EXCEPT ![a] = x] /\ Bounded

\* with_mixes_mut and with_mixes_custom: if both arguments are one mixture the
\* second is a copy of it, which is thrown away.
ChangeBoth(a, b, xy) ==
    /\ mix' = [m \in Mixes |-> IF m = a THEN xy[1] ELSE IF m = b THEN xy[2] ELSE mix[m]]
    /\ Bounded

Init == mix = [m \in Mixes |-> Empty]

SetMolesHook(a, g, amt)    == amt >= 0 /\ Change(a, SetMoles(mix[a], g, amt))
AdjustMolesHook(a, g, amt) == Change(a, AdjustMoles(mix[a], g, amt))
AdjustMultiHook(a, amts)   == Change(a, AdjustMulti(mix[a], amts))
ClearHook(a)               == Change(a, Clear(mix[a]))
HeatCapHook(a)             == Change(a, Read(mix[a]))
MinHeatCapHook(a, amt)     == Change(a, [mix[a] EXCEPT !.min = amt])
MarkImmutableHook(a)       == a \in Marked /\ Change(a, [mix[a] EXCEPT !.immutable = TRUE])
MultiplyHook(a, r)         == Whole(mix[a], r) /\ Change(a, Multiply(mix[a], r))

\* set_temperature_hook lifts what is colder than space.
SetTemperatureHook(a, temp) ==
    Change(a, SetTemperature(mix[a], IF temp < TCMB THEN TCMB ELSE temp, 1))

AdjustHeatHook(a, heat) == Change(a, AdjustHeat(mix[a], heat))

AddHook(a, amt) ==
    \E hs \in SUBSET Gases :
        /\ \A g \in Gases \ hs : mix[a].moles[g] = 0
        /\ Change(a, Add(mix[a], hs, amt))

\* A mixture of one gas is made on the spot and merged.
AdjustMolesTempHook(a, g, amt, temp) ==
    amt > 0 /\ Change(a, Merge(mix[a], SetTemperature(SetMoles(Empty, g, amt), temp, 1)))

\* parse_gas_string: the mixture is cleared and the gases of the string are
\* set, up to the first that is unknown, at which it gives up.
ParseHook(a, amts) ==
    /\ \A g \in Gases : amts[g] >= 0
    /\ Change(a, IF mix[a].immutable THEN mix[a]
                 ELSE Invalidate(WithMoles(mix[a], amts, {})))

\* The same for a string with a temperature before that.
ParseTempHook(a, amts, temp) ==
    /\ \A g \in Gases : amts[g] >= 0
    /\ Change(a, IF mix[a].immutable THEN mix[a]
                 ELSE Invalidate([WithMoles(mix[a], amts, {}) EXCEPT
                        !.temp = IF temp < TCMB THEN TCMB ELSE temp]))

MergeHook(a, b) ==
    ChangeBoth(a, b, <<Merge(mix[a], mix[b]), Given(mix[a], mix[b])>>)

CopyFromHook(a, b) == Change(a, CopyFromMutable(mix[a], mix[b]))

RemoveRatioHook(a, b, r) ==
    Whole(mix[a], r) /\ ChangeBoth(a, b, RemoveRatioInto(mix[a], mix[b], r))

RemoveHook(a, b, amt) == RemoveRatioHook(a, b, PartOf(mix[a], amt))

TransferRatioHook(a, b, r) ==
    Whole(mix[a], r) /\ ChangeBoth(a, b, TransferRatio(mix[a], mix[b], r))

TransferHook(a, b, amt) == TransferRatioHook(a, b, PartOf(mix[a], amt))

\* gs: see TransferGasesTo.  As for AddHook, an entry there is besides those of the
\* gases of which there are any moles is one there may be.
ScrubIntoHook(a, b, r, gs) ==
    Whole(mix[a], r) /\ ChangeBoth(a, b, TransferGasesTo(mix[a], mix[b], r, gs))

\* Mutant: the part is one of the moles of the gases with the flag.
RemoveByFlagHookOfFlagged(a, b, amt, gs) ==
    LET flagged == [g \in Gases |-> IF g \in gs THEN mix[a].moles[g] ELSE 0]
    IN  ScrubIntoHook(a, b, PartOf([mix[a] EXCEPT !.moles = flagged], amt), gs)

\* Nothing keeps DM from asking an empty mixture for nothing: the ratio is NaN.
RemoveByFlagHook(a, b, amt, gs) == ScrubIntoHook(a, b, PartOf(mix[a], amt), gs)

EqualizeWithHook(a, b) ==
    /\ Whole(mix[b], <<Volume[a], Volume[b]>>)
    /\ Change(a, Multiply(CopyFromMutable(mix[a], mix[b]), <<Volume[a], Volume[b]>>))

\* What equalize_all_hook makes of the mixtures in S.
Together(S) ==
    SetTemperature(
        [WithMoles(Empty, [g \in Gases |-> SumFunction([m \in S |-> mix[m].moles[g]])],
                   UNION {mix[m].nan : m \in S})
            EXCEPT !.cached = SumFunction([m \in S |-> HeatCapacity(mix[m])])],
        SumFunction([m \in S |-> Energy(mix[m])]),
        SumFunction([m \in S |-> HeatCapacity(mix[m])]))

Portion(m, S) == <<Volume[m], SumFunctionOnSet(Volume, S)>>

Equalized(S) ==
    [m \in Mixes |->
        IF m \notin S THEN mix[m]
        ELSE Multiply(CopyFromMutable(Read(mix[m]), Together(S)), Portion(m, S))]

EqualizeAllHook(S) ==
    /\ \A m \in S : Whole(Together(S), Portion(m, S))
    /\ mix' = Equalized(S)
    /\ Bounded

TemperatureShareHook(a, b, k) == ChangeBoth(a, b, TemperatureShare(mix[a], mix[b], k))

TemperatureShareHook4(a, k, temp, cap) == Change(a, TemperatureShareNonGas(mix[a], k, temp, cap))

\* planet_process: turf mixture a takes a share of its planet's atmosphere b.
PlanetShare(a, b, r) ==
    /\ Whole(mix[a], r) /\ Whole(mix[b], r)
    /\ ChangeBoth(a, b, <<ShareRatio(mix[a], mix[b], r), Given(mix[a], mix[b])>>)

Single(a) ==
    \/ \E g \in Gases, amt \in Amounts :
            \/ SetMolesHook(a, g, amt)
            \/ AdjustMolesHook(a, g, amt)
            \/ \E temp \in Temps : AdjustMolesTempHook(a, g, amt, temp)
    \/ \E amts \in [Gases -> Amounts] :
            \/ AdjustMultiHook(a, amts)
            \/ ParseHook(a, amts)
            \/ \E temp \in Temps : ParseTempHook(a, amts, temp)
    \/ \E temp \in Temps :
            \/ SetTemperatureHook(a, temp)
            \/ \E k \in Coefficients, cap \in Range(Heat) : TemperatureShareHook4(a, k, temp, cap)
    \/ \E heat \in Heats : AdjustHeatHook(a, heat)
    \/ \E amt \in Amounts : AddHook(a, amt)
    \/ \E r \in Ratios : MultiplyHook(a, r)
    \/ \E amt \in Minima : MinHeatCapHook(a, amt)
    \/ ClearHook(a)
    \/ HeatCapHook(a)
    \/ MarkImmutableHook(a)

Pair(a, b) ==
    \/ MergeHook(a, b)
    \/ CopyFromHook(a, b)
    \/ EqualizeWithHook(a, b)
    \/ \E k \in Coefficients : TemperatureShareHook(a, b, k)
    \/ \E r \in Ratios :
            \/ RemoveRatioHook(a, b, r)
            \/ TransferRatioHook(a, b, r)
            \/ a # b /\ PlanetShare(a, b, r)
            \/ \E gs \in SUBSET Gases : ScrubIntoHook(a, b, r, gs)
    \/ \E amt \in Amounts :
            \/ RemoveHook(a, b, amt)
            \/ TransferHook(a, b, amt)
            \/ \E gs \in SUBSET Gases : RemoveByFlagHook(a, b, amt, gs)

Next ==
    \/ \E a \in Mixes : Single(a)
    \/ \E a, b \in Mixes : Pair(a, b)
    \/ \E S \in SUBSET Mixes \ {{}} : EqualizeAllHook(S)

Spec == Init /\ [][Next]_mix

-----------------------------------------------------------------------------
\* The heat capacity that is kept is the one that would be computed: no order
\* of calls lets heat_capacity answer for moles the mixture no longer has.  What
\* holds NaN has no heat capacity of its own, but what is kept while it does is
\* thrown away before its moles are numbers again.
CacheFresh ==
    \A m \in Mixes :
        mix[m].nan = {} /\ mix[m].cached # Unknown => mix[m].cached = SlowHeatCapacity(mix[m])

\* No order of calls, with whatever negative amounts and ratios, leaves less
\* than no moles of a gas.  The moles may be NaN, see NaNFromNothing.
NoNegativeMoles ==
    \A m \in Mixes : \A g \in Gases \ mix[m].nan : mix[m].moles[g] >= 0

\* A mixture loses a gas to NaN only if it takes some from one that has, or if it
\* has no gas or has lost one before: of a mixture with gas no finite amount or
\* ratio, and no sum or average of mixtures that hold numbers, makes NaN.  lib.rs
\* looks for NaN in what DM passes to set_moles, but remove_by_flag makes it.
NaNFromNothing ==
    [][\A m \in Mixes : \A g \in mix'[m].nan \ mix[m].nan :
            \/ \E o \in Mixes \ {m} : g \in mix[o].nan
            \/ mix[m].nan # {}
            \/ \A h \in Gases : mix[m].moles[h] = 0]_mix

TotalMolesOf(vals, g) == SumFunction([m \in DOMAIN vals |-> vals[m].moles[g]])
TotalEnergyOf(vals) == SumFunction([m \in DOMAIN vals |-> SlowHeatCapacity(vals[m]) * vals[m].temp])

Conserves(before, after) ==
    (\A m \in DOMAIN after : after[m].temp # Broken) =>
        /\ \A m \in DOMAIN after : after[m].nan \subseteq before[m].nan
        /\ \A g \in Gases : TotalMolesOf(after, g) = TotalMolesOf(before, g)
        /\ TotalEnergyOf(after) = TotalEnergyOf(before)

\* Whatever was called before, what moves gas or heat between two mutable
\* mixtures would conserve both, and so would what averages mutable ones, as
\* the comment of equalize_all_hook promises: the moles of every gas, and the
\* heat, for which the capacities that are kept have to be right.  Neither is
\* said of mixtures that hold NaN, nor of the ratio that is NaN.
MovesConserve ==
    LET Mutable == {m \in Mixes : ~mix[m].immutable /\ mix[m].nan = {} /\ mix[m].temp >= TCMB}
    IN
    /\ \A a, b \in Mutable :
        LET both == <<mix[a], mix[b]>> IN
        a # b =>
        /\ \A r \in (Ratios \cup {PartOf(mix[a], amt) : amt \in Amounts}) \ {NoNumber} :
            Whole(mix[a], r) =>
            /\ Conserves(both, TransferRatio(mix[a], mix[b], r))
            /\ \A gs \in SUBSET Gases : Conserves(both, TransferGasesTo(mix[a], mix[b], r, gs))
        /\ \A k \in Coefficients : Conserves(both, TemperatureShare(mix[a], mix[b], k))
    /\ \A S \in SUBSET Mutable :
        (\A m \in S : Whole(Together(S), Portion(m, S))) => Conserves(mix, Equalized(S))

\* mark_immutable_hook says that an immutable mixture will never change.
ImmutableKept ==
    [][\A m \in Mixes : mix[m].immutable =>
            mix'[m].moles = mix[m].moles /\ mix'[m].temp = mix[m].temp]_mix
=============================================================================
