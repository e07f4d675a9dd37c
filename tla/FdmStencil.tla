----------------------------- MODULE FdmStencil -----------------------------
(***************************************************************************)
(* One step of gas diffusion as the comments of fdm describe it: every turf *)
(* that differs from a neighbour takes an eighth of each neighbour's gas and*)
(* gives an eighth of its own to each, all turfs at once.  There are no     *)
(* workers, no archive and no order.                                        *)
(***************************************************************************)
EXTENDS Integers, FiniteSets, FiniteSetsExt, Functions

CONSTANTS
    Turfs,
    Divisor,        \* 1 / GAS_DIFFUSION_CONSTANT (8)
    MinDelta,       \* MINIMUM_MOLES_DELTA_TO_MOVE
    HighDelta       \* pressure difference above which a turf is a high one (5.0)

VARIABLES
    gas,            \* gas[t]: moles of turf t
    edges,          \* pairs <<t, u>>: u is an adjacent turf of t
    enabled,        \* turfs with a simulation flag
    immutable,      \* turfs whose mixture is immutable, as that of space is
    equalize,       \* katmos looks after the high pressure turfs
    low, high,      \* the turfs fdm hands on to the groups and to katmos
    calls           \* pairs <<t, u>>: t is told to push things towards u

vars == <<gas, edges, enabled, immutable, equalize, low, high, calls>>

Givers(t) == {u \in Turfs : <<u, t>> \in edges}

Distance(a, b) == IF a < b THEN b - a ELSE a - b

\* The turfs a step changes when the gases are g.
Active(g) ==
    {t \in enabled : \E u \in Turfs : <<t, u>> \in edges /\ Distance(g[t], g[u]) >= MinDelta}

Diffused(g, t) ==
    IF t \in immutable THEN g[t]
    ELSE g[t] - ((Cardinality(Givers(t)) * g[t]) \div Divisor)
              + (SumFunctionOnSet(g, Givers(t)) \div Divisor)

\* The gas of a pushes towards b.
Pushes(g, a, b) == g[a] - g[b] > HighDelta * Divisor

Steep(g) == {t \in Active(g) : \E u \in Givers(t) : Pushes(g, t, u) \/ Pushes(g, u, t)}

Calls(g) ==
    IF equalize THEN {}
    ELSE {e \in Turfs \X Turfs : Pushes(g, e[1], e[2]) /\
            \/ e[1] \in Active(g) /\ e[2] \in Givers(e[1])
            \/ e[2] \in Active(g) /\ e[1] \in Givers(e[2])}

Init ==
    /\ gas \in [Turfs -> Int]
    /\ edges \in SUBSET (Turfs \X Turfs)
    /\ enabled \in SUBSET Turfs
    /\ immutable \in SUBSET Turfs
    /\ equalize \in BOOLEAN
    /\ low = {}
    /\ high = {}
    /\ calls = {}

Step ==
    /\ gas' = [t \in Turfs |-> IF t \in Active(gas) THEN Diffused(gas, t) ELSE gas[t]]
    /\ low' = low \cup (Active(gas) \ Steep(gas))
    /\ high' = high \cup Steep(gas)
    /\ calls' = calls \cup Calls(gas)
    /\ UNCHANGED <<edges, enabled, immutable, equalize>>

Spec == Init /\ [][Step]_vars
=============================================================================
