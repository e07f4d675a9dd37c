--------------------------------- MODULE Fdm ---------------------------------
(***************************************************************************)
(* Gas diffusion (fdm in src/turfs/processing.rs): a loop of steps, each in *)
(* two passes that rayon's workers go through in parallel.  The first pass  *)
(* saves, for every turf that is worth it, an eighth of its neighbours' gas;*)
(* collect() waits for all of it.  The second takes away what the neighbours*)
(* were to get and adds what was saved.                                     *)
(*                                                                          *)
(* Moles are whole numbers of a unit so small that the eighths of MaxSteps  *)
(* steps are whole too.  One gas stands for all of them and its pressure for*)
(* the pressure; the temperature, which decides along with the moles whether*)
(* a turf is worth it, is left out.  The first pass takes its locks with    *)
(* try_read and nobody writes while it runs, so none of them fails.         *)
(***************************************************************************)
EXTENDS Integers, FiniteSets, FiniteSetsExt, Functions

CONSTANTS
    Turfs, Edges, Enabled,                      \* see FdmStencil
    Divisor, MinDelta, HighDelta,
    Levels,         \* moles a turf may start with
    Spaces,         \* the sets of turfs that may be immutable
    MaxSteps,       \* share_max_steps
    NoCell          \* nothing is saved for the turf

Cells == [end_gas : Int, adj_amount : Nat, pressures : UNION {[S -> Int] : S \in SUBSET Turfs}]

\* A turf has at most six neighbours, fewer than GAS_DIFFUSION_CONSTANT allows.
ASSUME FdmAssumption ==
    /\ IsFiniteSet(Turfs)
    /\ \A t \in Turfs : Cardinality({u \in Turfs : <<u, t>> \in Edges}) <= Divisor
    /\ NoCell \notin Cells
    /\ Edges \subseteq Turfs \X Turfs
    /\ Enabled \subseteq Turfs
    /\ Spaces \subseteq SUBSET Turfs
    /\ Levels \subseteq Int
    /\ Divisor \in Nat \ {0}
    /\ MinDelta \in Nat
    /\ HighDelta \in Nat
    /\ MaxSteps \in Nat

VARIABLES
    gas,            \* gas[t]: moles in the mixture of turf t
    immutable,      \* turfs whose mixture is immutable
    equalize,       \* equalize_enabled
    low, high,      \* low_pressure_turfs, high_pressure_turfs
    calls,          \* calls of consider_pressure_difference sent to BYOND
    cur,            \* cur_count
    phase,          \* "top", "archive", "write", "done"
    todo,           \* turfs the workers have not taken up in this pass
    saved,          \* turfs_to_save: saved[t] or NoCell
    diffs,          \* what the second pass makes of the pressures of a cell
    base            \* history: the gases at the top of the loop

setting == <<immutable, equalize>>

vars == <<gas, setting, low, high, calls, cur, phase, todo, saved, diffs, base>>

-----------------------------------------------------------------------------
Takers(t) == {u \in Turfs : <<t, u>> \in Edges}
Givers(t) == {u \in Turfs : <<u, t>> \in Edges}

Distance(a, b) == IF a < b THEN b - a ELSE a - b

\* should_process: enabled, and unlike one of the turfs its edges lead to.
ShouldProcess(t) ==
    /\ t \in Enabled
    /\ \E u \in Takers(t) : Distance(gas[t], gas[u]) >= MinDelta

\* Mutant: the turf itself is counted among its neighbours.
ProcessCellWithSelf(t) ==
    [end_gas |-> SumFunctionOnSet(gas, Givers(t)) \div Divisor,
     adj_amount |-> Cardinality(Givers(t)) + 1,
     pressures |-> [u \in Givers(t) |-> -gas[u]]]

\* process_cell: it follows the edges that lead to t.
ProcessCell(t) ==
    [end_gas |-> SumFunctionOnSet(gas, Givers(t)) \div Divisor,
     adj_amount |-> Cardinality(Givers(t)),
     pressures |-> [u \in Givers(t) |-> -gas[u]]]

Init ==
    /\ gas \in [Turfs -> Levels]
    /\ immutable \in Spaces
    /\ equalize \in BOOLEAN
    /\ low = {} /\ high = {} /\ calls = {}
    /\ cur = 1
    /\ phase = "top"
    /\ todo = {}
    /\ saved = [t \in Turfs |-> NoCell]
    /\ diffs = [t \in Turfs |-> NoCell]
    /\ base = gas

BeginStep ==
    /\ phase = "top"
    /\ cur <= MaxSteps
    /\ phase' = "archive"
    /\ todo' = Turfs
    /\ saved' = [t \in Turfs |-> NoCell]
    /\ diffs' = [t \in Turfs |-> NoCell]
    /\ UNCHANGED <<setting, gas, low, high, calls, cur, base>>

\* A worker filters and maps turf t.
Archive(t) ==
    /\ phase = "archive"
    /\ t \in todo
    /\ todo' = todo \ {t}
    /\ saved' = IF ShouldProcess(t) THEN [saved EXCEPT ![t] = ProcessCell(t)] ELSE saved
    /\ UNCHANGED <<setting, gas, low, high, calls, cur, phase, diffs, base>>

\* collect(): the second pass begins when the first is over.
Collect ==
    /\ phase = "archive"
    /\ todo = {}
    /\ phase' = "write"
    /\ todo' = {t \in Turfs : saved[t] # NoCell}
    /\ UNCHANGED <<setting, gas, low, high, calls, cur, saved, diffs, base>>

\* Mutant: the gas of the neighbours is read now and not when it was saved.
DiffuseUnsaved(t, cell) ==
    IF t \in immutable THEN gas[t]
    ELSE gas[t] - ((cell.adj_amount * gas[t]) \div Divisor) + ProcessCell(t).end_gas

\* Mutant: however many the neighbours, one share is taken away.
DiffuseOneShare(t, cell) ==
    IF t \in immutable THEN gas[t]
    ELSE gas[t] - (gas[t] \div Divisor) + cell.end_gas

\* multiply(1 - adj_amount / 8), then merge(end_gas); both leave an immutable
\* mixture alone.
Diffuse(t, cell) ==
    IF t \in immutable THEN gas[t]
    ELSE gas[t] - ((cell.adj_amount * gas[t]) \div Divisor) + cell.end_gas

\* A worker takes up the cell that was saved for t: the pressure of its gas is
\* read before the gas is changed.
Write(t) ==
    LET cell == saved[t] IN
    /\ phase = "write"
    /\ t \in todo
    /\ todo' = todo \ {t}
    /\ diffs' = [diffs EXCEPT ![t] =
                    [u \in DOMAIN cell.pressures |-> cell.pressures[u] + gas[t]]]
    /\ gas' = [gas EXCEPT ![t] = Diffuse(t, cell)]
    /\ UNCHANGED <<setting, low, high, calls, cur, phase, saved, base>>

\* The cells are partitioned by their largest pressure difference, and unless
\* katmos is to look after them the high ones are reported to BYOND.  A turf
\* reports in either direction.
EndStep ==
    LET limit    == HighDelta * Divisor
        cells    == {t \in Turfs : saved[t] # NoCell}
        steep    == {t \in cells : \E u \in DOMAIN diffs[t] : Distance(diffs[t][u], 0) > limit}
        pushes   == {e \in Turfs \X Turfs :
                        e[1] \in steep /\ e[2] \in DOMAIN diffs[e[1]] /\ diffs[e[1]][e[2]] > limit}
        pushed   == {e \in Turfs \X Turfs :
                        e[2] \in steep /\ e[1] \in DOMAIN diffs[e[2]] /\ diffs[e[2]][e[1]] < -limit}
    IN  /\ phase = "write"
        /\ todo = {}
        /\ low' = low \cup (cells \ steep)
        /\ high' = high \cup steep
        /\ calls' = IF equalize THEN calls ELSE calls \cup pushes \cup pushed
        /\ cur' = cur + 1
        /\ phase' = "top"
        /\ base' = gas
        /\ UNCHANGED <<setting, gas, todo, saved, diffs>>

\* The loop ends after share_max_steps or, at its top, when the time is over.
Stop ==
    /\ phase = "top"
    /\ phase' = "done"
    /\ UNCHANGED <<setting, gas, low, high, calls, cur, todo, saved, diffs, base>>

Next ==
    \/ BeginStep
    \/ \E t \in Turfs : Archive(t) \/ Write(t)
    \/ Collect
    \/ EndStep
    \/ Stop

Spec == Init /\ [][Next]_vars

-----------------------------------------------------------------------------
\* Whatever order the workers take the turfs in, a step moves all gases at
\* once: refinement of FdmStencil, whose step happens when the last is written.
Stencil == INSTANCE FdmStencil WITH gas <- base, edges <- Edges, enabled <- Enabled
StencilSpec == Stencil!Spec

\* Diffusion is stable: no step takes a turf out of the range of the gases it
\* started from, so none falls below zero and none oscillates.  This is what
\* GAS_DIFFUSION_CONSTANT is chosen for.
WithinRange ==
    \A t \in Turfs : \E u, v \in Turfs : base[u] <= gas[t] /\ gas[t] <= base[v]

Total(g) == SumFunctionOnSet(g, Turfs)

\* All turfs are alike but for their gas, and DM has declared both directions.
Sealed ==
    /\ immutable = {}
    /\ Enabled = Turfs
    /\ \A e \in Edges : <<e[2], e[1]>> \in Edges

\* The neighbours of t that a step passes over.
PassedOver(t) == {u \in Givers(t) : saved[u] = NoCell}

\* The eighths of t and of its neighbours are not whole numbers.
Rounds(t) ==
    \/ (Cardinality(Givers(t)) * base[t]) % Divisor # 0
    \/ SumFunctionOnSet(base, Givers(t)) % Divisor # 0

\* What a step that changes t may lose or make.
Leak == [t \in Turfs |-> MinDelta * Cardinality(PassedOver(t)) + (IF Rounds(t) THEN Divisor ELSE 0)]

\* A step keeps the gas of a sealed room, up to the rounding of the model and to
\* what crosses between a turf it changes and one it passes over, which is below
\* the threshold for each.
NearlyConserved ==
    [][EndStep /\ Sealed =>
            Divisor * Distance(Total(gas), Total(base))
                    <= SumFunctionOnSet(Leak, {t \in Turfs : saved[t] # NoCell})]_vars
=============================================================================
