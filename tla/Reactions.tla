------------------------------ MODULE Reactions ------------------------------
(***************************************************************************)
(* The registry of gases (src/gas/types.rs) and the reactions of a mixture  *)
(* (src/reaction.rs and react_hook in src/lib.rs). A reaction is a datum of *)
(* the DM code. What it requires is read from it once and kept by priority; *)
(* the datum itself is kept by the hash of its id. react_hook looks up what *)
(* the mixture can do and then calls one datum after the other, and each of *)
(* these calls may do anything DM can: change gas, call react again,        *)
(* register gases, set other reactions and have them read.  Instead of some *)
(* datums a function runs (src/reaction/citadel.rs), which changes the      *)
(* mixture and calls DM procs at certain points.                            *)
(*                                                                          *)
(* All of it happens on BYOND's thread: DM runs while no hook does, and     *)
(* while the reaction on top of the stack does or calls a proc.  Of a gas   *)
(* there is enough in a mixture or not, and a mixture is hot or not; what a *)
(* function leaves of the gases it turns into each other may be anything.   *)
(* It has much energy if it is hot and has some gas.  Indices begin with 1. *)
(***************************************************************************)
EXTENDS Integers, Sequences, FiniteSets, SequencesExt

CONSTANTS
    Mixes,          \* gas mixtures
    GasIds,         \* ids of /datum/gas
    Inits,          \* sequences of gases that auxtools_atmos_init is given
    Datums,         \* /datum/gas_reaction
    Id, Priority,   \* Id[d], Priority[d]: variables of datum d
    Need,           \* Need[d]: ids of the gases in its min_requirements
    Warm,           \* Warm[d]: whether a hot, a cold mixture meets TEMP, MAX_TEMP
    Energetic,      \* datums that require ENER, more than a cold mixture has
    OnFire,         \* datums that require FIRE_REAGENTS, GAS_MIN_MOLES or more
    Sound,          \* datums that can be read; the others lack something
    Lists,          \* what DM may make of SSair.gas_reactions
    NoDatum,
    Native,         \* ids for which there is a function
    Generic,        \* "genericfire", which burns whatever burns
    Fusion,         \* "fusion", which calls DM before it changes the mixture
    Asks,           \* Asks[i]: gases the function for i finds by their id
    Fuel, Oxidizer, \* gases with a fire_temperature, an oxidation_temperature
    Products,       \* Products[g]: ids in the fire_products of g
    MaxDepth        \* bound of the model: reactions that run inside each other

\* That no two reactions of a list have one id is what DM code sees to.
ASSUME ReactionsAssumption ==
    /\ Inits \subseteq Seq(GasIds)
    /\ Priority \in [Datums -> Int]
    /\ Need \in [Datums -> SUBSET GasIds]
    /\ Sound \subseteq Datums
    /\ Lists \subseteq Seq(Datums)
    /\ \A l \in Lists : \A j, k \in 1..Len(l) : j # k => Id[l[j]] # Id[l[k]]
    /\ NoDatum \notin Datums
    /\ Warm \in [Datums -> SUBSET BOOLEAN]
    /\ Energetic \subseteq Datums /\ OnFire \subseteq Datums
    /\ {Generic, Fusion} \subseteq Native /\ Generic # Fusion
    /\ \A i \in Native : Asks[i] \subseteq GasIds
    /\ Asks[Generic] = {}
    /\ Fuel \subseteq GasIds /\ Oxidizer \subseteq GasIds
    /\ \A g \in GasIds : Products[g] \subseteq GasIds
    /\ MaxDepth \in Nat

VARIABLES
    gases,          \* GAS_INFO_BY_IDX, and the tables that go with it
    has,            \* has[m]: indices of the gases mixture m has some of
    hot,            \* hot[m]: mixture m is hot
    list,           \* SSair.gas_reactions
    loaded,         \* REACTION_INFO is not None
    info,           \* REACTION_INFO: what is known of a reaction by priority
    values,         \* REACTION_VALUES: a datum, or NoDatum, by id
    stack,          \* calls of react_hook, the innermost first
    panicked,
    sent,           \* history: datums DM was told of when reactions were read
    listed,         \* history: the list as it was read
    stale,          \* history: a gas was registered since
    untouched       \* history: calls of react_hook, the outermost is 1, whose
                    \* mixture nobody has changed since they looked at it

registry  == <<gases, stale>>
reactions == <<loaded, info, values, sent, listed>>

mixtures  == <<has, hot, untouched>>

vars == <<registry, reactions, mixtures, list, stack, panicked>>

Ids == {Id[d] : d \in Datums}

Init ==
    /\ gases = << >>
    /\ has = [m \in Mixes |-> {}]
    /\ hot = [m \in Mixes |-> FALSE]
    /\ list \in Lists
    /\ loaded = FALSE
    /\ info = << >>
    /\ values = [i \in Ids |-> NoDatum]
    /\ stack = << >>
    /\ panicked = FALSE
    /\ sent = {} /\ listed = << >> /\ stale = FALSE
    /\ untouched = {}

\* DM code runs: on its own, or as the reaction on top of the stack, or called by
\* its function.
DMRuns ==
    /\ ~panicked
    /\ stack # << >> => Head(stack).running # NoDatum /\ Head(stack).at \in {"dm", "analyze"}

\* The hook does not return: it panics, or waits for a lock that is held by a hook
\* further down on the same thread.
Panic ==
    /\ panicked' = TRUE
    /\ UNCHANGED <<registry, reactions, mixtures, list, stack>>

-----------------------------------------------------------------------------
\* A gas that is known is read again and keeps its index.
Registered(gs, g) == IF g \in ToSet(gs) THEN gs ELSE Append(gs, g)

\* generic_fire holds GAS_INFO_BY_IDX for reading, also while it calls DM.
GasInfoHeld ==
    \E k \in 1..Len(stack) : stack[k].running # NoDatum /\ Id[stack[k].running] = Generic

RegisterGas(g) ==
    /\ DMRuns
    /\ \/ GasInfoHeld /\ Panic
       \/ /\ ~GasInfoHeld
          /\ gases' = Registered(gases, g)
          /\ stale' = (stale \/ g \notin ToSet(gases))
          /\ UNCHANGED <<reactions, mixtures, list, stack, panicked>>

\* finalize_gas_refs unwraps the index of every product.  It keeps the indices it
\* finds, which are those that are found without it.
FinalizeGasRefs ==
    /\ DMRuns
    /\ GasInfoHeld \/ \E g \in ToSet(gases) : ~(Products[g] \subseteq ToSet(gases))
    /\ Panic

\* from_byond_reaction asks a datum for its amount of each gas there is, up to
\* now.
Required(d, gs) == {k \in 1..Len(gs) : gs[k] \in Need[d]}

Known(d, gs) ==
    [datum |-> d, id |-> Id[d], need |-> Required(d, gs), warm |-> Warm[d],
     energy |-> d \in Energetic, fire |-> d \in OnFire]

\* The reactions of list that from_byond_reaction makes something of.
Readable == {k \in 1..Len(list) : list[k] \in Sound}

Duplicate(k) == \E j \in Readable : j < k /\ Priority[list[j]] = Priority[list[k]]

\* Mutant: a later reaction takes the place of an earlier one.
TakenLast ==
    {k \in Readable : \A j \in Readable : j > k => Priority[list[j]] # Priority[list[k]]}

Taken == {k \in Readable : ~Duplicate(k)}

\* Mutant: react_by_id copies the value and lets the map go.
NotBorrowed == FALSE

\* react_by_id holds REACTION_VALUES while the reaction runs.
Borrowed == \E k \in 1..Len(stack) : stack[k].running # NoDatum

\* get_reaction_info and the assignment to REACTION_INFO, when the gases are gs.
\* A reaction that comes too late for its priority is ignored, but not before
\* its datum is kept; values are never removed.
Load(gs) ==
    /\ ~Borrowed \/ Readable = {}
    /\ info' = [p \in {Priority[list[k]] : k \in Taken} |->
                    Known(list[CHOOSE k \in Taken : Priority[list[k]] = p], gs)]
    /\ values' = [i \in Ids |->
                    IF \E k \in Readable : Id[list[k]] = i
                    THEN list[CHOOSE k \in Readable : Id[list[k]] = i] ELSE values[i]]
    /\ sent' = {list[k] : k \in {j \in 1..Len(list) : j \notin Readable \/ Duplicate(j)}}
    /\ listed' = list
    /\ loaded' = TRUE

\* The map cannot be changed while it is borrowed.
LoadPanics == Borrowed /\ Readable # {}

UpdateReactions ==
    /\ DMRuns
    /\ \/ LoadPanics /\ Panic
       \/ Load(gases) /\ stale' = FALSE /\ UNCHANGED <<gases, mixtures, list, stack, panicked>>

\* Mutant: the reactions are read before the gases.
HookInitReversed(gs) ==
    /\ DMRuns
    /\ ~LoadPanics /\ ~GasInfoHeld
    /\ gases' = FoldLeft(Registered, gases, gs)
    /\ Load(gases) /\ stale' = FALSE
    /\ UNCHANGED <<mixtures, list, stack, panicked>>

\* auxtools_atmos_init: the gases up to the first that cannot be read, and the
\* reactions if there is no such gas.
HookInit(gs) ==
    /\ DMRuns
    /\ \/ \E n \in 0..(Len(gs) - 1) :
            /\ GasInfoHeld => n = 0
            /\ gases' = FoldLeft(Registered, gases, SubSeq(gs, 1, n))
            /\ stale' = (stale \/ gases' # gases)
            /\ UNCHANGED <<reactions, mixtures, list, stack, panicked>>
       \/ (LoadPanics \/ (GasInfoHeld /\ gs # << >>)) /\ Panic
       \/ /\ GasInfoHeld => gs = << >>
          /\ gases' = FoldLeft(Registered, gases, gs)
          /\ Load(gases') /\ stale' = FALSE
          /\ UNCHANGED <<mixtures, list, stack, panicked>>

-----------------------------------------------------------------------------
HasAny(m, gs) == \E k \in has[m] : gases[k] \in gs

\* get_burnability: hot enough, with fuel and something that oxidizes it.
Burnable(m) == hot[m] /\ HasAny(m, Fuel) /\ HasAny(m, Oxidizer)

\* Mutant: oxi.max(fuel) is compared with what is required.
MatchesEither(r, m) ==
    /\ hot[m] \in r.warm
    /\ r.need \subseteq has[m]
    /\ r.energy => hot[m] /\ has[m] # {}
    /\ r.fire => hot[m] /\ HasAny(m, Fuel \cup Oxidizer)

\* check_conditions
Matches(r, m) ==
    /\ hot[m] \in r.warm
    /\ r.need \subseteq has[m]
    /\ r.energy => hot[m] /\ has[m] # {}
    /\ r.fire => Burnable(m)

\* all_reactable: the reactions mixture m meets the conditions of, the highest
\* priority first.
AllReactable(m) ==
    LET ps == {p \in DOMAIN info : Matches(info[p], m)}
    IN  {[k \in 1..Cardinality(ps) |-> info[order[k]]] : order \in
            {o \in [1..Cardinality(ps) -> ps] :
                \A j, k \in 1..Cardinality(ps) : j < k => o[j] > o[k]}}

\* react_hook
React(m) ==
    /\ DMRuns
    /\ Len(stack) < MaxDepth
    /\ \/ ~loaded /\ Panic
       \/ /\ loaded
          /\ \E found \in AllReactable(m) \ {<< >>} :
                stack' = << [mix |-> m, pending |-> found, running |-> NoDatum, at |-> "dm"] >>
                            \o stack
          /\ untouched' = untouched \cup {Len(stack) + 1}
          /\ UNCHANGED <<registry, reactions, has, hot, list, panicked>>

\* The innermost hook goes on as f, or it returns.
GoesOnAs(f) == stack' = <<f>> \o Tail(stack) /\ UNCHANGED <<registry, reactions, list, panicked>>

HookReturns == stack' = Tail(stack) /\ UNCHANGED <<registry, reactions, list, panicked>>

\* The calls for another mixture than m.
LookedElsewhere(m) == {n \in untouched : stack[Len(stack) + 1 - n].mix # m}

NothingTouched ==
    /\ untouched' = untouched \cap 1..Len(stack')
    /\ UNCHANGED <<has, hot>>

\* react_by_id: the datum is called, or the function there is for its id, if the
\* id is known.
ReactNext ==
    LET top   == Head(stack)
        datum == values[Head(top.pending).id]
    IN  /\ ~panicked
        /\ stack # << >>
        /\ top.running = NoDatum
        /\ IF datum = NoDatum THEN HookReturns
           ELSE GoesOnAs([top EXCEPT !.pending = Tail(top.pending), !.running = datum,
                                     !.at = IF Id[datum] \in Native THEN "native" ELSE "dm"])
        /\ NothingTouched

\* The reaction or the proc it called returns.  The hook returns too if that was
\* the last, or stopped the others, or failed.
Returned ==
    LET top == Head(stack) IN
    /\ stack # << >> /\ DMRuns
    /\ \/ top.at = "analyze" /\ GoesOnAs([top EXCEPT !.at = "write"])
       \/ /\ top.at = "dm" /\ top.pending # << >>
          /\ GoesOnAs([top EXCEPT !.running = NoDatum])
       \/ HookReturns
    /\ NothingTouched

-----------------------------------------------------------------------------
(***************************************************************************)
(* plasma_fire, tritium_fire, fusion and generic_fire.                      *)
(***************************************************************************)
InFunction(at) ==
    /\ ~panicked
    /\ stack # << >>
    /\ Head(stack).running # NoDatum /\ Head(stack).at = at

Function == Id[Head(stack).running]

\* Indices of the gases of mixture m that function i changes: those it asks for,
\* or the gases that burn and what becomes of them.
Burning(m) == {k \in has[m] : gases[k] \in Fuel \cup Oxidizer}

ProductsOf(m) == UNION {Products[gases[k]] : k \in Burning(m)}

Changes(i, m) ==
    IF i = Generic
      THEN Burning(m) \cup {k \in 1..Len(gases) : gases[k] \in ProductsOf(m)}
      ELSE {k \in 1..Len(gases) : gases[k] \in Asks[i]}

\* Every gas the function names is registered, and generic_fire has fuel and
\* oxidizer to begin with.
CanRun(i, m) ==
    /\ Asks[i] \subseteq ToSet(gases)
    /\ i = Generic => Burnable(m) /\ ProductsOf(m) \subseteq ToSet(gases)

\* The function fails before it has changed anything, and with it the hook.
FunctionFails ==
    /\ InFunction("native")
    /\ ~CanRun(Function, Head(stack).mix)
    /\ HookReturns
    /\ NothingTouched

\* fusion has read the mixture and calls set_analyzer_results.
Analyze ==
    /\ InFunction("native")
    /\ Function = Fusion /\ CanRun(Function, Head(stack).mix)
    /\ GoesOnAs([Head(stack) EXCEPT !.at = "analyze"])
    /\ NothingTouched

\* The mixture is changed.  Then the function calls fire_expose, radiation_burn or
\* fusion_ball, or it is done; or its reaction_results cannot be read, which
\* only fusion does not do.
Burn ==
    LET top == Head(stack)
        m   == top.mix
    IN  /\ \/ InFunction("native") /\ Function # Fusion /\ CanRun(Function, m)
           \/ InFunction("write")
        /\ \E left \in SUBSET Changes(Function, m) :
                has' = [has EXCEPT ![m] = (@ \ Changes(Function, m)) \cup left]
        /\ \E h \in BOOLEAN : hot' = [hot EXCEPT ![m] = h]
        /\ \/ GoesOnAs([top EXCEPT !.at = "dm"])
           \/ top.pending # << >> /\ GoesOnAs([top EXCEPT !.running = NoDatum, !.at = "dm"])
           \/ (top.pending = << >> \/ Function # Fusion) /\ HookReturns
        /\ untouched' = LookedElsewhere(m) \cap 1..Len(stack')

-----------------------------------------------------------------------------
\* DM changes the gases and the temperature of a mixture, by hooks of the
\* registered gases only.
ChangeMix(m) ==
    /\ DMRuns
    /\ \E S \in SUBSET (1..Len(gases)) : has' = [has EXCEPT ![m] = S]
    /\ \E h \in BOOLEAN : hot' = [hot EXCEPT ![m] = h]
    /\ untouched' = LookedElsewhere(m)
    /\ UNCHANGED <<registry, reactions, list, stack, panicked>>

SetList ==
    /\ DMRuns
    /\ list' \in Lists
    /\ UNCHANGED <<registry, reactions, mixtures, stack, panicked>>

Next ==
    \/ \E g \in GasIds : RegisterGas(g)
    \/ \E gs \in Inits : HookInit(gs)
    \/ UpdateReactions
    \/ \E m \in Mixes : React(m) \/ ChangeMix(m)
    \/ FinalizeGasRefs
    \/ ReactNext
    \/ Returned
    \/ FunctionFails
    \/ Analyze
    \/ Burn
    \/ SetList

Spec == Init /\ [][Next]_vars

-----------------------------------------------------------------------------
\* A hook calls the datums whose requirements it has looked at: no reaction
\* that runs before can put another datum in the place of one that is still to
\* run, and none that was looked up is missing.
RunsWhatMatched ==
    \A k \in 1..Len(stack) : \A j \in 1..Len(stack[k].pending) :
        values[stack[k].pending[j].id] = stack[k].pending[j].datum

\* Unless a gas was registered after the reactions were read, a reaction asks
\* for every gas its datum requires and that is registered, by the index under
\* which mixtures hold it.
RequirementsCurrent ==
    loaded /\ ~stale =>
        \A p \in DOMAIN info : info[p].need = Required(info[p].datum, gases)

\* generic_fire "passed oxidizer check" and "passed fuel check", as its errors say:
\* it finds both unless the mixture was changed since react_hook looked at it,
\* by reactions before it or by others that run inside those.
FireFindsReagents ==
    /\ InFunction("native") /\ Function = Generic
    /\ Head(stack).running \in OnFire /\ Len(stack) \in untouched
    => Burnable(Head(stack).mix)

\* Every reaction of the list that was read either has its priority to itself
\* or DM is told that it is ignored.
IgnoredAreReported ==
    \A k \in 1..Len(listed) :
        listed[k] \in sent \/ \E p \in DOMAIN info : info[p].datum = listed[k]
=============================================================================
