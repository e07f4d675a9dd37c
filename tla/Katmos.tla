-------------------------------- MODULE Katmos --------------------------------
(***************************************************************************)
(* Katmos (equalize in src/turfs/katmos.rs): from the high pressure turfs it*)
(* floods zones one after the other, decides in parallel what has to flow in*)
(* each, and then moves the gas, again in parallel.  A zone that meets an   *)
(* immutable turf is open to space: a callback is to decompress it, and it  *)
(* is not levelled.  A zone on a planet stops growing at a limit and keeps  *)
(* turfs at its border that another zone may have as well.  The arena is    *)
(* locked for reading over all of it.                                       *)
(*                                                                          *)
(* Moles are whole numbers, every turf has a mixture of its own, and edges  *)
(* lead both ways.                                                          *)
(***************************************************************************)
EXTENDS TurfAir, ZoneFlow

CONSTANTS
    Worlds,         \* what the arena may be, see WorldType
    MinShare,       \* a turf with less does not start a zone (10.0)
    Limit,          \* equalize_hard_turf_limit
    NoTask          \* the zone holds no lock

WorldType ==
    [adjacent : [Turfs -> Seq(Turfs)], enabled : SUBSET Turfs, immutable : SUBSET Turfs,
     planetary : SUBSET Turfs, firelocks : SUBSET (Turfs \X Turfs), high : SUBSET Turfs]

ASSUME KatmosAssumption ==
    /\ Turfs \subseteq Nat
    /\ IsFiniteSet(Turfs)
    /\ Worlds \subseteq WorldType
    /\ \A w \in Worlds, t, u \in Turfs :
            u \in ToSet(w.adjacent[t]) <=> t \in ToSet(w.adjacent[u])
    /\ Levels \subseteq Nat
    /\ MinShare \in Nat \ {0}
    /\ MinDelta \in Nat
    /\ Limit \in Nat

VARIABLES
    world,          \* the arena, which nothing changes while it is locked
    phase,          \* "search", "fill", "process", "finalize", "done"
    todo,           \* high pressure turfs that had no turn yet
    found,          \* found_turfs
    fill,           \* the zone that is being flooded
    zones,          \* zoned_turfs, with what the workers add to each
    sent,           \* callbacks: decompressions and planets
    late            \* is_cancelled

katmosVars == <<world, gas, phase, todo, found, fill, zones, sent, late>>

Neighbours(t) == world.adjacent[t]

Distance(a, b) == IF a < b THEN b - a ELSE a - b

\* adj_mixture.enabled()
Simulated(seq) == Among(seq, world.enabled)

\* flood_fill_zones begins with one turf.
Begun(nodes) ==
    [border |-> nodes, nodes |-> nodes, out |-> [u \in Turfs |-> << >>], total |-> 0,
     planet |-> FALSE, ignored |-> FALSE]

KatmosInit ==
    /\ world \in Worlds
    /\ gas \in {g \in [Turfs -> Levels] : \A t \in world.immutable : g[t] = 0}
    /\ phase = "search"
    /\ todo = world.high
    /\ found = {}
    /\ fill = Begun(<< >>)
    /\ zones = << >>
    /\ sent = {}
    /\ late = FALSE

-----------------------------------------------------------------------------
\* Whether turf t starts a zone.
Starts(t) ==
    /\ t \notin found
    /\ t \in world.enabled
    /\ gas[t] >= MinShare
    /\ \E u \in ToSet(Neighbours(t)) : Distance(gas[t], gas[u]) >= MinDelta

\* The next high pressure turf, in the order of the BTreeSet.
Search ==
    LET t == Min(todo) IN
    /\ phase = "search"
    /\ todo # {}
    /\ todo' = todo \ {t}
    /\ \/ ~Starts(t) /\ UNCHANGED <<phase, found, fill>>
       \/ Starts(t) /\ phase' = "fill" /\ found' = found \cup {t} /\ fill' = Begun(<<t>>)
    /\ UNCHANGED <<world, gas, zones, sent, late>>

\* The turfs found next to cur that are looked at: none if the zone is ignored
\* already, and none after the first that opens it to space.
LookedAt(fresh) ==
    {fresh[k] : k \in {i \in 1..Len(fresh) :
        ~fill.ignored /\ \A j \in 1..(i - 1) : fresh[j] \notin world.immutable}}

\* A turf leaves the border: its edges join the graph, and those of its
\* neighbours that nobody found before join the border.
FillTurn ==
    LET cur    == Head(fill.border)
        planet == fill.planet \/ cur \in world.planetary
        near   == Simulated(Neighbours(cur))
        fresh  == Among(Neighbours(cur), Turfs \ found)
        seen   == LookedAt(fresh)
    IN  /\ phase = "fill"
        /\ fill.border # << >>
        /\ ~(planet /\ Len(fill.nodes) > Limit)
        /\ fill' = [fill EXCEPT
                !.border = Tail(@) \o Simulated(fresh),
                !.planet = planet,
                !.nodes = @ \o Among(near, Turfs \ ToSet(@)),
                !.out[cur] = near,
                !.total = @ + gas[cur],
                !.ignored = @ \/ seen \cap world.immutable # {}]
        /\ found' = found \cup ToSet(fresh)
        /\ sent' = sent
             \cup {<<"decompress", cur>> : u \in seen \cap world.immutable}
             \cup {<<"planet", cur>> : u \in {v \in seen \cap world.planetary :
                                                <<cur, v>> \in world.firelocks}}
    /\ UNCHANGED <<world, gas, phase, todo, zones, late>>

NewZone ==
    [nodes |-> fill.nodes, out |-> fill.out, total |-> fill.total,
     info |-> << >>, flow |-> << >>, tasks |-> << >>, lock |-> NoTask]

\* The border is empty, or the zone is on a planet and has grown beyond the
\* limit: then the turfs of the border stay in it without their edges.
Flooded ==
    /\ phase = "fill"
    /\ fill.border # << >> =>
         /\ Len(fill.nodes) > Limit
         /\ fill.planet \/ Head(fill.border) \in world.planetary

\* Mutant: a zone that is open to space is levelled all the same.
FillEndOpen ==
    /\ Flooded
    /\ phase' = "search"
    /\ zones' = Append(zones, NewZone)
    /\ UNCHANGED <<world, gas, todo, found, fill, sent, late>>

\* Mutant: what was found and got no turn may be found again.
FillEndReleased ==
    /\ Flooded
    /\ phase' = "search"
    /\ zones' = IF fill.ignored THEN zones ELSE Append(zones, NewZone)
    /\ found' = found \ ToSet(fill.border)
    /\ UNCHANGED <<world, gas, todo, fill, sent, late>>

FillEnd ==
    /\ Flooded
    /\ phase' = "search"
    /\ zones' = IF fill.ignored THEN zones ELSE Append(zones, NewZone)
    /\ UNCHANGED <<world, gas, todo, found, fill, sent, late>>

\* The time is over at a turn of the fill: the zones are dropped with what is
\* left to do, and only the callbacks that were sent remain.
FillLate ==
    /\ phase = "fill"
    /\ fill.border # << >>
    /\ phase' = "done"
    /\ late' = TRUE
    /\ UNCHANGED <<world, gas, todo, found, fill, zones, sent>>

EndSearch ==
    /\ phase = "search"
    /\ todo = {}
    /\ \/ phase' = "process" /\ UNCHANGED late
       \/ phase' = "done" /\ late' = TRUE
    /\ UNCHANGED <<world, gas, todo, found, fill, zones, sent>>

-----------------------------------------------------------------------------
\* A worker takes up a zone.
Prepare(z) ==
    /\ phase = "process"
    /\ zones[z].info = << >>
    /\ zones' = [zones EXCEPT
            ![z].info = Prepared(zones[z], gas, zones[z].total \div Len(zones[z].nodes))]
    /\ UNCHANGED <<world, gas, phase, todo, found, fill, sent, late>>

\* It finds the flow; all that is left of the zone is its graph.
Process(z) ==
    /\ phase = "process"
    /\ zones[z].info # << >>
    /\ zones[z].flow = << >>
    /\ zones' = [zones EXCEPT
            ![z].flow = ZoneFlow(zones[z], zones[z].info),
            ![z].tasks = [k \in 1..Len(zones[z].nodes) |-> <<"node", zones[z].nodes[k]>>]]
    /\ UNCHANGED <<world, gas, phase, todo, found, fill, sent, late>>

\* collect()
EndProcess ==
    /\ phase = "process"
    /\ \A z \in 1..Len(zones) : zones[z].flow # << >>
    /\ \/ phase' = "finalize" /\ UNCHANGED late
       \/ phase' = "done" /\ late' = TRUE
    /\ UNCHANGED <<world, gas, todo, found, fill, zones, sent>>

-----------------------------------------------------------------------------
(***************************************************************************)
(* finalize_eq calls itself.  What it has left to do is a stack of tasks:   *)
(*   <<"node", n>>            finalize_eq(n)                                *)
(*   <<"give", n, a, m, owed>> its turn for the target a                    *)
(*   <<"move", n, a, m>>       the rest of that turn                        *)
(***************************************************************************)
LockedByOther(z, t) == \E y \in 1..Len(zones) : y # z /\ zones[y].lock = t

Task(z) == Head(zones[z].tasks)

Doing(z, kind) ==
    /\ phase = "finalize"
    /\ zones[z].tasks # << >>
    /\ Task(z)[1] = kind

Do(z, tasks, flow) ==
    /\ zones' = [zones EXCEPT ![z].tasks = tasks \o Tail(@), ![z].flow = flow]
    /\ UNCHANGED <<world, gas, phase, todo, found, fill, sent, late>>

\* The weights of the edges of n are taken and set to zero, so that no call
\* further down takes them again.
FinalizeNode(z) ==
    LET n    == Task(z)[2]
        flow == zones[z].flow
        out  == zones[z].out[n]
        owed == Among(out, {a \in ToSet(out) : flow[n, a] < 0})
        gets == Among(out, {a \in ToSet(out) : flow[n, a] > 0})
    IN  /\ Doing(z, "node")
        /\ Do(z, [k \in 1..Len(gets) |-> <<"give", n, gets[k], flow[n, gets[k]], owed>>],
                 [e \in DOMAIN flow |-> IF e[1] = n THEN 0 ELSE flow[e]])

\* Mutant: a turf gives what it has, without asking for what it is owed.
FinalizeGiveAtOnce(z) ==
    /\ Doing(z, "give")
    /\ ~LockedByOther(z, Task(z)[2])
    /\ Do(z, << <<"move", Task(z)[2], Task(z)[3], Task(z)[4]>> >>, zones[z].flow)

\* Mutant: the mixture is still locked when the others are asked.
FinalizeGiveHolding(z) ==
    LET n    == Task(z)[2]
        owed == Task(z)[5]
        move == << <<"move", n, Task(z)[3], Task(z)[4]>> >>
    IN  /\ Doing(z, "give")
        /\ ~LockedByOther(z, n)
        /\ zones' = [zones EXCEPT
                ![z].lock = IF gas[n] < Task(z)[4] THEN n ELSE @,
                ![z].tasks = (IF gas[n] < Task(z)[4]
                                THEN [k \in 1..Len(owed) |-> <<"node", owed[k]>>] \o move
                                ELSE move) \o Tail(@)]
        /\ UNCHANGED <<world, gas, phase, todo, found, fill, sent, late>>

\* If n has less than it is to give, the turfs that owe it give theirs first.
FinalizeGive(z) ==
    LET n    == Task(z)[2]
        owed == Task(z)[5]
        move == << <<"move", n, Task(z)[3], Task(z)[4]>> >>
    IN  /\ Doing(z, "give")
        /\ ~LockedByOther(z, n)
        /\ Do(z, IF gas[n] < Task(z)[4]
                    THEN [k \in 1..Len(owed) |-> <<"node", owed[k]>>] \o move ELSE move,
                 zones[z].flow)

\* with_gas_mixtures_mut locks the mixture of the giver before the other.
FinalizeLock(z) ==
    LET n == Task(z)[2]
        a == Task(z)[3]
    IN  /\ Doing(z, "move")
        /\ zones[z].lock = NoTask
        /\ ~LockedByOther(z, n)
        /\ zones' = [zones EXCEPT ![z].lock = n,
                                  ![z].flow = [e \in DOMAIN @ |-> IF e = <<a, n>> THEN 0 ELSE @[e]]]
        /\ UNCHANGED <<world, gas, phase, todo, found, fill, sent, late>>

\* The rest of the turn, with both locks: remove gives no more than there is,
\* merge adds it.
FinalizeMove(z) ==
    LET n     == Task(z)[2]
        a     == Task(z)[3]
        moved == Min({Task(z)[4], gas[n]})
    IN  /\ Doing(z, "move")
        /\ zones[z].lock = n
        /\ ~LockedByOther(z, a)
        /\ gas' = [gas EXCEPT ![n] = @ - moved, ![a] = @ + moved]
        /\ zones' = [zones EXCEPT ![z].lock = NoTask, ![z].tasks = Tail(@)]
        /\ UNCHANGED <<world, phase, todo, found, fill, sent, late>>

EndFinalize ==
    /\ phase = "finalize"
    /\ \A z \in 1..Len(zones) : zones[z].tasks = << >>
    /\ phase' = "done"
    /\ UNCHANGED <<world, gas, todo, found, fill, zones, sent, late>>

Finalize(z) ==
    FinalizeNode(z) \/ FinalizeGive(z) \/ FinalizeLock(z) \/ FinalizeMove(z)

Alone == Search \/ FillTurn \/ FillEnd \/ FillLate \/ EndSearch \/ EndProcess \/ EndFinalize

KatmosNext == Alone \/ \E z \in 1..Len(zones) : Prepare(z) \/ Process(z) \/ Finalize(z)

KatmosSpec == KatmosInit /\ [][KatmosNext]_katmosVars

\* The hook goes on, and rayon's workers with every zone that can go on.
FairSpec ==
    /\ KatmosSpec
    /\ WF_katmosVars(Alone)
    /\ \A z \in 1..Cardinality(Turfs) :
            WF_katmosVars(z \in 1..Len(zones) /\ (Prepare(z) \/ Process(z) \/ Finalize(z)))

-----------------------------------------------------------------------------
\* Whatever the order in which the workers move gas, and although zones share
\* turfs and turfs pass on more than they have, a turf has what it is to give
\* when it gives it: what BYOND is told about the pressure is what has moved.
NeverShort ==
    \A z \in 1..Len(zones) :
        Doing(z, "move") /\ zones[z].lock # NoTask => gas[Task(z)[2]] >= Task(z)[4]

\* Every turf of the zone had its turn in the fill.
Whole(z) ==
    \A t \in ToSet(zones[z].nodes) : zones[z].out[t] = Simulated(Neighbours(t))

\* Katmos levels: in the end every turf of a zone whose turfs all had their turn
\* has the average of the zone, although they pass on more than they have.
Levelled ==
    phase = "done" /\ ~late =>
        \A z \in 1..Len(zones) : Whole(z) =>
            \A t \in ToSet(zones[z].nodes) : gas[t] * Len(zones[z].nodes) = zones[z].total

\* A turf is in two zones only if it is at the border of both: its own edges
\* are in neither, so that no worker moves gas out of it for another zone.
SharedAtBorder ==
    \A y, z \in 1..Len(zones) : y # z =>
        \A t \in ToSet(zones[y].nodes) \cap ToSet(zones[z].nodes) :
            zones[y].out[t] = << >> /\ zones[z].out[t] = << >>

\* A zone next to space is levelled as if it were sealed only if another zone
\* found that turf of space before it, and a callback is to decompress that
\* zone: it starts from a turf that had its turn there and not in this one.
OpenZonesIgnored ==
    \A z \in 1..Len(zones) : \A t \in ToSet(zones[z].nodes) :
        zones[z].out[t] # << >> /\ ToSet(Neighbours(t)) \cap world.immutable # {} =>
            \E v \in Turfs : zones[z].out[v] = << >> /\ <<"decompress", v>> \in sent

\* However the turfs owe each other and whichever locks the workers hold, the
\* calls that call themselves come to an end.
Terminates == <>(phase = "done")
=============================================================================
