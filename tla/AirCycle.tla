------------------------------- MODULE AirCycle -------------------------------
(***************************************************************************)
(* The cycle of SSair (src/turfs/processing.rs, src/turfs/groups.rs and the *)
(* channel of src/turfs/katmos.rs).  BYOND's main thread calls a hook that  *)
(* diffuses gas and leaves two sets of turfs behind, each in a channel that *)
(* holds one set at most; other hooks take a set out and work on it until   *)
(* their time is over.  Between the hooks the DM code changes turfs and the *)
(* settings of SSair, in any order.                                         *)
(*                                                                          *)
(* Diffusion is the stencil that Fdm is shown to implement.  What katmos    *)
(* does with its set is module Katmos; here the set only leaves the channel.*)
(***************************************************************************)
EXTENDS Groups

CONSTANTS
    Divisor, HighDelta,     \* see FdmStencil
    Planetary,      \* turfs with planetary_atmos
    PlanetGas,      \* the atmosphere of their planet
    ShareDivisor,   \* 1 / planet_share_ratio
    CopyDelta,      \* a turf closer to its planet becomes a copy (0.1)
    Unsteady,       \* turfs the DM code changes between the hooks
    NoSet,          \* the channel is empty
    MaxCycles       \* bound of the model: calls of process_turfs

ASSUME AirCycleAssumption ==
    /\ Levels \subseteq Nat
    /\ Planetary \subseteq Turfs
    /\ Unsteady \subseteq Turfs
    /\ PlanetGas \in Nat
    /\ Divisor \in Nat \ {0} /\ ShareDivisor \in Nat \ {0}
    /\ MinDelta \in Nat /\ HighDelta \in Nat /\ CopyDelta \in Nat
    /\ MaxCycles \in Nat

VARIABLES
    known,          \* turfs of the arena
    enabled,        \* those with a simulation flag
    equalizeOn,     \* equalize_enabled of SSair
    groups,         \* GROUPS_CHANNEL: the cycle that filled it and its turfs
    equalizes,      \* EQUALIZE_CHANNEL
    cycle,          \* calls of process_turfs so far
    job,            \* what groups_hook has left to do, or NoSet; its base is
                    \* history, the gas it began with
    worked          \* history: the cycles whose sets the hooks took

vars == <<gas, known, enabled, equalizeOn, groups, equalizes, cycle, job, worked>>

-----------------------------------------------------------------------------
Edges == {e \in Turfs \X Turfs : e[2] \in ToSet(Adjacent[e[1]]) /\ {e[1], e[2]} \subseteq known}

Stencil == INSTANCE FdmStencil WITH
                edges <- Edges, immutable <- Immutable, equalize <- equalizeOn,
                low <- {}, high <- {}, calls <- {}

Init ==
    /\ gas \in [Turfs -> Levels]
    /\ known = Turfs
    /\ enabled = Turfs
    /\ equalizeOn = TRUE
    /\ groups = NoSet
    /\ equalizes = NoSet
    /\ cycle = 0
    /\ job = NoSet
    /\ worked = [groups |-> << >>, equalizes |-> << >>]

\* fdm for one step.
Diffused ==
    [t \in Turfs |->
        IF t \in Stencil!Active(gas) THEN Stencil!Diffused(gas, t) ELSE gas[t]]

\* planet_process: a share of the difference, or a copy if it is small.
Planeted(g) ==
    [t \in Turfs |->
        IF t \notin (Planetary \cap known) \ Immutable THEN g[t]
        ELSE IF Stencil!Distance(g[t], PlanetGas) <= CopyDelta THEN PlanetGas
        ELSE g[t] + ((PlanetGas - g[t]) \div ShareDivisor)]

\* process_turf_hook.  If the time is over before the first step, nothing
\* diffuses and both sets are empty; they replace what was in the channels all
\* the same, that for katmos only if equalize_enabled is set.
ProcessTurfs(late) ==
    LET low  == IF late THEN {} ELSE Stencil!Active(gas) \ Stencil!Steep(gas)
        high == IF late THEN {} ELSE Stencil!Steep(gas)
    IN  /\ job = NoSet
        /\ cycle < MaxCycles
        /\ cycle' = cycle + 1
        /\ gas' = Planeted(IF late THEN gas ELSE Diffused)
        /\ groups' = [cycle |-> cycle', turfs |-> low]
        /\ equalizes' = IF equalizeOn THEN [cycle |-> cycle', turfs |-> high] ELSE equalizes
        /\ UNCHANGED <<known, enabled, equalizeOn, job, worked>>

\* groups_hook takes the set out of its channel.
GroupsBegin ==
    /\ job = NoSet
    /\ groups # NoSet
    /\ job' = [todo |-> groups.turfs, found |-> {}, base |-> gas]
    /\ groups' = NoSet
    /\ worked' = [worked EXCEPT !.groups = Append(@, groups.cycle)]
    /\ UNCHANGED <<gas, known, enabled, equalizeOn, equalizes, cycle>>

\* One turn of excited_group_processing, for the least turf that is left: it
\* is passed over if it was found by an earlier group or is gone by now.
GroupsTurn ==
    /\ job # NoSet
    /\ job.todo # {}
    /\ LET t     == Min(job.todo)
           group == GroupOf(t, gas, known, enabled, job.found)
       IN  IF t \in job.found \/ t \notin known \cap enabled
             THEN /\ job' = [job EXCEPT !.todo = @ \ {t}]
                  /\ UNCHANGED gas
             ELSE /\ job' = [job EXCEPT !.todo = @ \ {t}, !.found = group.found]
                  /\ gas' = Averaged(gas, group.members)
    /\ UNCHANGED <<known, enabled, equalizeOn, groups, equalizes, cycle, worked>>

\* The hook returns when every turf has had its turn, or when the time is over
\* before the turn of one that was not found yet: the others are dropped.
GroupsEnd ==
    /\ job # NoSet
    /\ job.todo # {} => Min(job.todo) \notin job.found
    /\ job' = NoSet
    /\ UNCHANGED <<gas, known, enabled, equalizeOn, groups, equalizes, cycle, worked>>

\* Mutant: the set is read and left in the channel.
EqualizePeek ==
    /\ job = NoSet
    /\ equalizes # NoSet
    /\ worked' = [worked EXCEPT !.equalizes = Append(@, equalizes.cycle)]
    /\ UNCHANGED <<gas, known, enabled, equalizeOn, groups, equalizes, cycle, job>>

\* equalize_hook takes the other set.
EqualizeTake ==
    /\ job = NoSet
    /\ equalizes # NoSet
    /\ equalizes' = NoSet
    /\ worked' = [worked EXCEPT !.equalizes = Append(@, equalizes.cycle)]
    /\ UNCHANGED <<gas, known, enabled, equalizeOn, groups, cycle, job>>

\* update_air_ref: a turf is registered, with or without a simulation flag, or
\* goes.
SetTurf(t, there, on) ==
    /\ job = NoSet
    /\ known' = IF there THEN known \cup {t} ELSE known \ {t}
    /\ enabled' = IF there /\ on THEN enabled \cup {t} ELSE enabled \ {t}
    /\ UNCHANGED <<gas, equalizeOn, groups, equalizes, cycle, job, worked>>

SetEqualize ==
    /\ job = NoSet
    /\ equalizeOn' = ~equalizeOn
    /\ UNCHANGED <<gas, known, enabled, groups, equalizes, cycle, job, worked>>

Next ==
    \/ \E late \in BOOLEAN : ProcessTurfs(late)
    \/ GroupsBegin \/ GroupsTurn \/ GroupsEnd
    \/ EqualizeTake
    \/ \E t \in Unsteady, there, on \in BOOLEAN : SetTurf(t, there, on)
    \/ SetEqualize

Spec == Init /\ [][Next]_vars

-----------------------------------------------------------------------------
\* Groups and katmos do nothing unless process_turfs was run: what one call
\* leaves in a channel is worked on once, however the hooks, the time and
\* equalize_enabled take turns, and what the groups are to work on is always of
\* the latest call, never what was dropped when their time was over.
OncePerCycle ==
    /\ groups # NoSet => groups.cycle = cycle
    /\ \A k \in 1..MaxCycles :
        /\ Len(worked.groups) > k => worked.groups[k] < worked.groups[k + 1]
        /\ Len(worked.equalizes) > k => worked.equalizes[k] < worked.equalizes[k + 1]

\* A run of the groups is gentle: no turf moves by as much as the goal, because
\* none is in two groups of a run and no group is spread further.
Gentle ==
    job # NoSet => \A t \in Turfs :
        gas[t] # job.base[t] => Stencil!Distance(gas[t], job.base[t]) < Goal

\* A group without an immutable turf keeps its gas, up to the rounding of the
\* model: what its members lost is what its members got.
GroupsKeepGas ==
    [][ GroupsTurn /\ gas' # gas =>
            LET members == GroupOf(Min(job.todo), gas, known, enabled, job.found).members
                before  == SumFunctionOnSet(gas, Turfs)
                after   == SumFunctionOnSet(gas', Turfs)
            IN  members \cap Immutable = {} => before - after \in 0..(Cardinality(members) - 1)
      ]_vars

\* Turfs that were switched off or removed after they were put in the channel
\* keep their gas, and so do immutable ones.
OnlyEnabledChange ==
    [][ GroupsTurn => \A t \in Turfs :
            gas'[t] # gas[t] => t \in enabled \cap known /\ t \notin Immutable ]_vars
=============================================================================
