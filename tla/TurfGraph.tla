------------------------------ MODULE TurfGraph ------------------------------
(***************************************************************************)
(* The turf arena (src/turfs.rs, TurfGases): a stable directed graph whose  *)
(* nodes are turfs and a map from a turf's BYOND reference to its node.     *)
(* The graph is petgraph's StableDiGraph: removing a node leaves a vacant   *)
(* index that a later node gets again, so an index means nothing without    *)
(* the map.  The hooks that change the arena run on BYOND's main thread     *)
(* under the arena's write lock, one action each.                           *)
(***************************************************************************)
EXTENDS Integers

CONSTANTS
    TurfIDs,        \* BYOND references of turfs
    Mixes,          \* indices of mixtures of the gas arena
    Planets,        \* hashes of initial_gas_mix strings
    Gases,          \* what the gas of a mixture can be
    NoTurf,         \* see TurfNet
    NoNode,         \* a turf without an entry in the map
    Vacant,         \* a node index of the graph without a node
    NoPlanet,       \* planetary_atmos: None
    NoAtmos         \* a planet whose atmosphere is not known yet

\* TurfMixture; its id is the key, flags and vis_hash are left to other modules.
Weights == [mix : Mixes, planet : Planets \cup {NoPlanet}]

ASSUME TurfAssumption ==
    /\ NoTurf \notin Weights
    /\ NoNode \notin Nat
    /\ Vacant \notin [id : TurfIDs, weight : Weights]
    /\ NoPlanet \notin Planets
    /\ NoAtmos \notin Gases

VARIABLES
    map,        \* map[t]: the node of turf t, or NoNode
    bound,      \* number of node indices the graph has ever used
    nodes,      \* nodes[n]: id and weight of node n, or Vacant
    edges,      \* pairs of node indices
    atmos       \* PLANETARY_ATMOS

graphVars == <<map, bound, nodes, edges, atmos>>

Indices == 0..(bound - 1)

Occupied == {n \in Indices : nodes[n] # Vacant}

GraphInit ==
    /\ map = [t \in TurfIDs |-> NoNode]
    /\ bound = 0
    /\ nodes = << >>
    /\ edges = {}
    /\ atmos = [p \in Planets |-> NoAtmos]

\* The index add_node uses: a vacant one as long as there is any.
NewIndices == IF Occupied = Indices THEN {bound} ELSE Indices \ Occupied

\* Mutant: a known turf is taken out of the graph and added again.
InsertAnew(t, w) ==
    \/ /\ map[t] # NoNode
       /\ nodes' = [nodes EXCEPT ![map[t]] = [id |-> t, weight |-> w]]
       /\ edges' = {e \in edges : e[1] # map[t] /\ e[2] # map[t]}
       /\ UNCHANGED <<map, bound>>
    \/ /\ map[t] = NoNode
       /\ \E n \in NewIndices :
            /\ map' = [map EXCEPT ![t] = n]
            /\ bound' = IF n = bound THEN bound + 1 ELSE bound
            /\ nodes' = [m \in 0..(bound' - 1) |->
                            IF m = n THEN [id |-> t, weight |-> w] ELSE nodes[m]]
       /\ UNCHANGED edges

\* insert_turf: a known turf keeps its node, and with it its edges.
InsertTurf(t, w) ==
    \/ /\ map[t] # NoNode
       /\ nodes' = [nodes EXCEPT ![map[t]] = [id |-> t, weight |-> w]]
       /\ UNCHANGED <<map, bound, edges>>
    \/ /\ map[t] = NoNode
       /\ \E n \in NewIndices :
            /\ map' = [map EXCEPT ![t] = n]
            /\ bound' = IF n = bound THEN bound + 1 ELSE bound
            /\ nodes' = [m \in 0..(bound' - 1) |->
                            IF m = n THEN [id |-> t, weight |-> w] ELSE nodes[m]]
       /\ UNCHANGED edges

\* Mutant: get in place of shift_remove, the map keeps the turf.
RemoveNodeOnly(t) ==
    \/ /\ map[t] # NoNode
       /\ nodes' = [nodes EXCEPT ![map[t]] = Vacant]
       /\ edges' = {e \in edges : e[1] # map[t] /\ e[2] # map[t]}
       /\ UNCHANGED <<map, bound>>
    \/ /\ map[t] = NoNode
       /\ UNCHANGED <<map, bound, nodes, edges>>

\* remove_turf: remove_node drops the edges in both directions.
RemoveTurf(t) ==
    \/ /\ map[t] # NoNode
       /\ map' = [map EXCEPT ![t] = NoNode]
       /\ nodes' = [nodes EXCEPT ![map[t]] = Vacant]
       /\ edges' = {e \in edges : e[1] # map[t] /\ e[2] # map[t]}
       /\ UNCHANGED bound
    \/ /\ map[t] = NoNode
       /\ UNCHANGED <<map, bound, nodes, edges>>

\* update_air_ref of an open turf: a planet's atmosphere is an immutable copy
\* g of the gas of the first turf that is registered with it.
HookRegister(t, w, g) ==
    /\ InsertTurf(t, w)
    /\ atmos' = [p \in Planets |->
                    IF p = w.planet /\ atmos[p] = NoAtmos THEN g ELSE atmos[p]]

\* update_air_ref of a turf that blocks air or has a negative flag.
HookRemove(t) ==
    /\ RemoveTurf(t)
    /\ UNCHANGED atmos

\* __update_auxtools_turf_adjacency_info: us is atmos_adjacent_turfs, empty if
\* it is no list.  Only the edges out of t are replaced, and a turf of the list
\* that the map does not know is passed over.
HookInfos(t, us) ==
    /\ map[t] # NoNode
    /\ edges' = {e \in edges : e[1] # map[t]}
                \cup {<<map[t], map[u]>> : u \in {v \in us : map[v] # NoNode}}
    /\ UNCHANGED <<map, bound, nodes, atmos>>

GraphNext ==
    \E t \in TurfIDs :
        \/ \E w \in Weights, g \in Gases : HookRegister(t, w, g)
        \/ HookRemove(t)
        \/ \E us \in SUBSET TurfIDs : HookInfos(t, us)

GraphSpec == GraphInit /\ [][GraphNext]_graphVars

-----------------------------------------------------------------------------
GraphTypeOK ==
    /\ bound \in Nat
    /\ map \in [TurfIDs -> Nat \cup {NoNode}]
    /\ nodes \in [Indices -> [id : TurfIDs, weight : Weights] \cup {Vacant}]
    /\ edges \in SUBSET (Nat \X Nat)
    /\ atmos \in [Planets -> Gases \cup {NoAtmos}]

\* The map and the graph name the same turfs: the node of a turf is occupied
\* by that turf, and every node can be found under the turf it holds.  fdm
\* goes over the map and unwraps each node; katmos goes from node to turf.
MapMatchesNodes ==
    /\ \A t \in TurfIDs :
        map[t] # NoNode => map[t] \in Occupied /\ nodes[map[t]].id = t
    /\ \A n \in Occupied : map[nodes[n].id] = n

\* No edge outlives a node it touches, so none can lead to the turf that gets
\* the index next.
EdgesOccupied == \A e \in edges : e[1] \in Occupied /\ e[2] \in Occupied

Net == INSTANCE TurfNet WITH
        turfs <- [t \in TurfIDs |->
                    IF map[t] = NoNode THEN NoTurf ELSE nodes[map[t]].weight],
        adjacent <- {<<nodes[e[1]].id, nodes[e[2]].id>> : e \in edges}

\* The graph shows the turfs and adjacencies that were declared, whatever
\* indices its nodes have had before.
NetSpec == Net!Spec
=============================================================================
