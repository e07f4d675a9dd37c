------------------------------ MODULE Decompress ------------------------------
(***************************************************************************)
(* The callbacks that katmos sends (explosively_depressurize and            *)
(* planet_equalize in src/turfs/katmos.rs).  They run on BYOND's thread when*)
(* it drains the channel.  Each floods from its turf, and between two turfs *)
(* of the flood it lets go of the arena and calls consider_firelocks, which *)
(* may close a door or change turfs: the node indices it has gathered are   *)
(* used again afterwards.  A decompression then floods back from the turfs  *)
(* of space, and clears what it reaches from its far end.                   *)
(***************************************************************************)
EXTENDS Integers, Sequences, FiniteSets, FiniteSetsExt, SequencesExt

CONSTANTS
    Turfs,          \* BYOND references, which are numbers
    Worlds,         \* what the arena may be at first, see WorldType
    Jobs,           \* callbacks that may be waiting: sequences of <<kind, turf>>
    Levels,         \* moles a turf may start with
    Limit,          \* equalize_hard_turf_limit
    NoDir           \* curr_transfer_dir: None

WorldType ==
    [edges : SUBSET (Turfs \X Turfs), firelocks : SUBSET (Turfs \X Turfs),
     enabled : SUBSET Turfs, immutable : SUBSET Turfs, planetary : SUBSET Turfs]

ASSUME DecompressAssumption ==
    /\ Turfs \subseteq Nat
    /\ IsFiniteSet(Turfs)
    /\ Worlds \subseteq WorldType
    /\ Jobs \subseteq Seq({"decompress", "planet"} \X Turfs)
    /\ Levels \subseteq Nat
    /\ Limit \in Nat
    /\ NoDir \notin Turfs

VARIABLES
    world,          \* the turfs' flags and planets
    registered,     \* turfs of the arena
    edges,          \* its adjacencies
    gas,            \* gas[t]: moles of turf t
    target,         \* target[t]: pressure_specific_target of turf t
    jobs,           \* callbacks that wait; the first one runs
    pc,             \* "idle", "fill", "spread", "clear", "rip"
    turfs,          \* what the first flood has found
    at,             \* cur_queue_idx
    calls,          \* firelock_considerations
    spaces,         \* space_turfs, or for a planet planet_turfs
    warned,         \* warned_about_planet_atmos, or _space
    order,          \* progression_order
    dir,            \* curr_transfer_dir
    ripped          \* floor_rip_turfs

arena == <<world, registered, edges>>
first == <<turfs, at, calls, spaces, warned>>
second == <<order, dir, ripped>>
vars == <<arena, gas, target, jobs, pc, first, second>>

Kind == jobs[1][1]

Init ==
    /\ world \in Worlds
    /\ registered = Turfs
    /\ edges = world.edges
    /\ gas \in {[t \in Turfs |-> IF t \in world.immutable THEN 0 ELSE g[t]] :
                    g \in [Turfs -> Levels]}
    /\ target = [t \in Turfs |-> NoDir]
    /\ jobs \in Jobs
    /\ pc = "idle"
    /\ turfs = << >> /\ at = 0 /\ calls = << >> /\ spaces = << >> /\ warned = FALSE
    /\ order = << >> /\ dir = [t \in Turfs |-> NoDir] /\ ripped = << >>

\* The turfs of the arena that t has an edge to.  The order in which the arena
\* walks them means nothing here; it is that of SetToSeq.
Near(t) == {u \in registered : <<t, u>> \in edges}

-----------------------------------------------------------------------------
\* Mutant: a callback whose turf has gone is left for later.
BeginLater ==
    /\ pc = "idle"
    /\ jobs # << >>
    /\ jobs[1][2] \in registered
    /\ pc' = "fill"
    /\ turfs' = <<jobs[1][2]>>
    /\ at' = 0 /\ calls' = << >> /\ spaces' = << >> /\ warned' = FALSE
    /\ order' = << >> /\ dir' = [t \in Turfs |-> NoDir] /\ ripped' = << >>
    /\ UNCHANGED <<arena, gas, target, jobs>>

\* The callback begins, unless its turf has gone since it was sent.
Begin ==
    /\ pc = "idle"
    /\ jobs # << >>
    /\ \/ /\ jobs[1][2] \in registered
          /\ pc' = "fill" /\ jobs' = jobs
          /\ turfs' = <<jobs[1][2]>>
       \/ /\ jobs[1][2] \notin registered
          /\ pc' = "idle" /\ jobs' = Tail(jobs)
          /\ turfs' = << >>
    /\ at' = 0 /\ calls' = << >> /\ spaces' = << >> /\ warned' = FALSE
    /\ order' = << >> /\ dir' = [t \in Turfs |-> NoDir] /\ ripped' = << >>
    /\ UNCHANGED <<arena, gas, target>>

Filling == pc = "fill" /\ calls = << >>

\* planet_equalize also stops when it has met no turf of a planet yet, which at
\* its first turf is as a rule the case.
Stopped == warned \/ (Kind = "planet" /\ at > 0 /\ spaces = << >>)

\* A turf of a queue is passed over, or its neighbours join the queue and those
\* behind a firelock are to be considered.
Expand(cur) ==
    LET fresh == Near(cur) \ ToSet(turfs)
    IN  IF cur \notin world.enabled \/ at + 1 > Limit THEN UNCHANGED <<turfs, calls>>
        ELSE /\ turfs' = turfs \o SetToSeq(fresh)
             /\ calls' = SetToSeq({<<cur, u>> : u \in fresh} \cap world.firelocks)

\* Turfs that are told that they are space.
OpenSpace == world.immutable \ world.planetary

FillTurn ==
    LET cur    == turfs[at + 1]
        space  == cur \in world.immutable
        planet == cur \in world.planetary
    IN  /\ Filling /\ ~Stopped
        /\ at < Len(turfs)
        /\ at' = at + 1
        /\ \/ /\ cur \notin registered
              /\ UNCHANGED <<turfs, calls, spaces, warned, target>>
           \/ /\ cur \in registered /\ Kind = "decompress"
              /\ warned' = planet
              /\ spaces' = IF cur \in OpenSpace THEN Append(spaces, cur) ELSE spaces
              /\ target' = IF cur \in OpenSpace THEN [target EXCEPT ![cur] = cur] ELSE target
              /\ IF planet \/ space THEN UNCHANGED <<turfs, calls>> ELSE Expand(cur)
           \/ /\ cur \in registered /\ Kind = "planet"
              /\ warned' = space
              /\ spaces' = IF planet THEN Append(spaces, cur) ELSE spaces
              /\ IF space THEN UNCHANGED <<turfs, calls>> ELSE Expand(cur)
              /\ UNCHANGED target
    /\ UNCHANGED <<arena, gas, jobs, pc, second>>

\* consider_firelocks: the door between the two closes or not; as it is DM code
\* that runs, any turf may also be replaced by something without air.
Consider ==
    LET a == Head(calls)[1]
        b == Head(calls)[2]
    IN  /\ pc = "fill"
        /\ calls # << >>
        /\ calls' = Tail(calls)
        /\ \/ UNCHANGED <<registered, edges>>
           \/ edges' = edges \ {<<a, b>>, <<b, a>>} /\ UNCHANGED registered
           \/ \E gone \in registered :
                /\ registered' = registered \ {gone}
                /\ edges' = {e \in edges : gone \notin {e[1], e[2]}}
    /\ UNCHANGED <<world, gas, target, jobs, pc, turfs, at, spaces, warned, second>>

\* The end of the first flood: of the callback, or the second flood begins.
FillEnding(quits, sources) ==
    /\ Filling
    /\ Stopped \/ at = Len(turfs)
    /\ IF quits THEN pc' = "idle" /\ jobs' = Tail(jobs) /\ UNCHANGED order
       ELSE pc' = "spread" /\ order' = sources /\ UNCHANGED jobs
    /\ at' = 0
    /\ UNCHANGED <<arena, gas, target, turfs, calls, spaces, warned, dir, ripped>>

\* The turfs of space that are still there.
Kept(s, t) == IF t \in registered THEN Append(s, t) ELSE s

Present == FoldLeft(Kept, << >>, spaces)

\* Mutant: the turfs of space are taken as they were found.
FillEndUnfiltered == FillEnding(Kind = "planet" \/ warned \/ spaces = << >>, spaces)

\* Mutant: a planet does not keep the turfs from being cleared.
FillEndUnwarned == FillEnding(Kind = "planet" \/ spaces = << >>, Present)

\* Of the turfs of space, those that are still there are what it begins with.
FillEnd == FillEnding(Kind = "planet" \/ warned \/ spaces = << >>, Present)

-----------------------------------------------------------------------------
\* The second flood reaches some turfs from cur, and gives them a target.
Spreading(reached, aim) ==
    LET cur == order[at + 1]
        new == IF at + 1 > Limit THEN {}
               ELSE reached \ (world.immutable \cup ToSet(order))
    IN  /\ pc = "spread"
        /\ at' = at + 1
        /\ order' = order \o SetToSeq(new)
        /\ dir' = [u \in Turfs |-> IF u \in new THEN cur ELSE dir[u]]
        /\ target' = [u \in Turfs |-> IF u \in new THEN aim ELSE target[u]]
        /\ UNCHANGED <<arena, gas, jobs, pc, turfs, calls, spaces, warned, ripped>>

\* Mutant: the edges are those there were when katmos looked.
SpreadTurnBefore ==
    /\ at < Len(order)
    /\ Spreading({u \in registered : <<order[at + 1], u>> \in world.edges}, target[order[at + 1]])

\* Mutant: a turf is told to aim at the next one.
SpreadTurnNext ==
    /\ at < Len(order)
    /\ Spreading(Near(order[at + 1]), order[at + 1])

SpreadTurn ==
    /\ at < Len(order)
    /\ Spreading(Near(order[at + 1]), target[order[at + 1]])

SpreadEnd ==
    /\ pc = "spread"
    /\ at = Len(order)
    /\ pc' = "clear"
    /\ UNCHANGED <<arena, gas, target, jobs, first, second>>

\* From the end of the order: the turf is cleared, and its pressure is that of
\* the turf it gives to.
ClearTurn ==
    LET cur == order[at] IN
    /\ pc = "clear"
    /\ at > 0
    /\ at' = at - 1
    /\ IF dir[cur] = NoDir THEN UNCHANGED <<gas, ripped>>
       ELSE /\ gas' = [gas EXCEPT ![cur] = 0]
            /\ ripped' = Append(ripped, <<cur, gas'[dir[cur]]>>)
    /\ UNCHANGED <<arena, target, jobs, pc, turfs, calls, spaces, warned, order, dir>>

ClearEnd ==
    /\ pc = "clear"
    /\ at = 0
    /\ pc' = "rip"
    /\ UNCHANGED <<arena, gas, target, jobs, first, second>>

\* handle_decompression_floor_rip, and the next callback of the drain.
Rip ==
    /\ pc = "rip"
    /\ pc' = "idle"
    /\ jobs' = Tail(jobs)
    /\ UNCHANGED <<arena, gas, target, first, second>>

\* A call into BYOND fails, and the callback with it, with what it has done.
Fail ==
    /\ \/ pc \in {"spread", "clear"}
       \/ pc = "fill" /\ calls # << >>
       \/ /\ Filling /\ ~Stopped /\ at < Len(turfs)
          /\ Kind = "decompress" /\ turfs[at + 1] \in registered \cap OpenSpace
    /\ pc' = "idle"
    /\ jobs' = Tail(jobs)
    /\ UNCHANGED <<arena, gas, target, first, second>>

Next ==
    \/ Begin \/ FillTurn \/ Consider \/ FillEnd
    \/ SpreadTurn \/ SpreadEnd \/ ClearTurn \/ ClearEnd \/ Rip \/ Fail

\* A callback runs until it ends.
Spec == Init /\ [][Next]_vars /\ WF_vars(Next)

-----------------------------------------------------------------------------
\* The second flood and the clearing ask the arena for turfs that were found
\* before BYOND was called, and unwrap what it says: all of them are there.
NoPanic == pc \in {"spread", "clear"} => ToSet(order) \subseteq registered

\* What space the callback has found reaches now, not through other space.
Exposed(t) ==
    \A S \in SUBSET Turfs :
        (/\ ToSet(spaces) \cap registered \subseteq S
         /\ \A e \in edges : e[1] \in S /\ e[2] \notin world.immutable => e[2] \in S)
            => t \in S

\* A firelock that closes while the callback looks around saves the air behind
\* it: only turfs that are open to space when the air goes lose it.
SealedKeepAir == [][\A t \in Turfs : gas'[t] # gas[t] => Exposed(t)]_vars

\* If the flood has met a planet, or no space, nothing loses its air, and
\* planet_equalize changes no air at all.
NothingIfPlanet ==
    [][gas' # gas => Kind = "decompress" /\ ~warned
                     /\ ToSet(turfs) \cap world.immutable \cap registered # {}]_vars

\* A cleared turf is told to blow things towards a turf of space that the
\* callback has found, on the way its air goes.
TargetsAreSpace ==
    \A k \in 1..Len(ripped) :
        LET t == ripped[k][1] IN
        /\ target[t] \in ToSet(spaces)
        /\ dir[t] # target[t] => target[dir[t]] = target[t]

\* Every callback comes to an end, whatever BYOND changes in between.
CallbacksEnd == <>(jobs = << >>)
=============================================================================
