----------------------------- MODULE Superconduct -----------------------------
(***************************************************************************)
(* Heat of the solid part of turfs (src/turfs/superconduct.rs): a thread of *)
(* its own, started once, that waits on a channel of one message, conducts  *)
(* heat between turfs while it holds three locks, and sends closures to the *)
(* callback channel.  It is the one thread that sends while BYOND's thread  *)
(* drains, registers turfs, or shuts the library down.                      *)
(*                                                                          *)
(* Temperatures are whole numbers, conductivities are percentages, and what *)
(* a division leaves is dropped.  A panic aborts the program, as Cargo.toml *)
(* asks for.                                                                *)
(***************************************************************************)
EXTENDS Callbacks, FiniteSets, FiniteSetsExt, Functions

CONSTANTS
    Turfs,          \* turfs of the map that may conduct heat
    Near,           \* Near[t]: the turfs next to t that nothing blocks
    Conduct,        \* Conduct[t]: thermal_conductivity in percent
    Capacity,       \* Capacity[t]: heat_capacity
    Spacey,         \* turfs that should_conduct_to_space
    Initial,        \* Initial[t]: initial_temperature
    Airy,           \* turfs whose air is enabled
    AirCapacity,    \* AirCapacity[t]: heat capacity of the air of t
    AirInitial,     \* AirInitial[t]: temperature of that air
    TCMB, T20C,     \* temperature of space; room temperature
    MinSuper,       \* MINIMUM_TEMPERATURE_FOR_SUPERCONDUCTION
    MinStart,       \* MINIMUM_TEMPERATURE_START_SUPERCONDUCTION
    MinDelta,       \* MINIMUM_TEMPERATURE_DELTA_TO_CONSIDER
    Vacuum,         \* HEAT_CAPACITY_VACUUM
    OpenPercent,    \* OPEN_HEAT_TRANSFER_COEFFICIENT in percent
    Watched,        \* turfs that hooks on BYOND's thread may be reading, or
                    \* whose air they may be using, at any time
    Changing,       \* turfs the DM code registers and removes
    Workers,        \* workers of rayon's pool besides the heat thread
    MaxNotices,     \* bound of the model: calls of process_turf_heat
    MaxHooks,       \* bound of the model: other hooks called
    MaxHookSent     \* bound of the model: closures when hooks stop to send any

ASSUME SuperconductAssumption ==
    /\ IsFiniteSet(Turfs)
    /\ Near \in [Turfs -> SUBSET Turfs]
    /\ Conduct \in [Turfs -> 1..100]
    /\ Capacity \in [Turfs -> Nat \ {0}]
    /\ Spacey \subseteq Turfs /\ Airy \subseteq Turfs
    /\ AirCapacity \in [Airy -> Nat \ {0}]
    /\ {TCMB, T20C, MinSuper, MinStart, MinDelta} \subseteq Nat
    /\ TCMB <= T20C /\ T20C <= MinSuper /\ MinSuper <= MinStart
    /\ \A t \in Turfs : Initial[t] \in Nat /\ Initial[t] >= TCMB
    /\ \A t \in Airy : AirInitial[t] \in Nat /\ AirInitial[t] >= TCMB
    /\ Vacuum \in Nat \ {0}
    /\ OpenPercent \in 0..100
    /\ Watched \subseteq Turfs /\ Changing \subseteq Turfs
    /\ Workers \in Nat \ {0}
    /\ {MaxNotices, MaxHooks, MaxHookSent} \subseteq Nat

VARIABLES
    live,       \* TURF_HEAT is Some
    temp,       \* temp[t]: temperature of t, for the turfs of TURF_HEAT
    edges,      \* the directed edges of its graph
    air,        \* air[t]: temperature of the air of t
    asked,      \* HEAT_CHANNEL holds a message
    phase,      \* where the heat thread is
    todo,       \* turfs this pass has not come to
    listed,     \* adjacencies_to_consider
    jobs,       \* turfs the workers are at in this pass
    main,       \* the hook BYOND's thread is in, and how far
    gasesHeld,  \* main holds TURF_GASES for writing
    hooks,      \* hooks called so far
    notices,    \* history: calls of process_turf_heat,
    started,    \*   those made before the last tick began,
    finished,   \*   and before the last finished tick began
    aborted     \* the program panicked

channel  == vars
passes   == <<temp, air, todo, listed, jobs>>
history  == <<notices, started, finished>>
mainVars == <<main, gasesHeld, hooks>>
heatVars == <<live, edges, asked, phase, passes, mainVars, history, aborted>>
allVars  == <<channel, heatVars>>

Known == DOMAIN temp

\* Locks the heat thread holds for reading: TASKS from the time a tick began
\* until its cost is sent, TURF_HEAT and TURF_GASES around both passes.
ReadsTasks == phase \in {"tasks", "heat", "first", "second", "cost"}
ReadsHeat  == phase \in {"heat", "first", "second"}
ReadsGases == phase \in {"first", "second"}

Out(t) == {u \in Known : <<t, u>> \in edges}

HeatInit ==
    /\ Init
    /\ live = TRUE
    /\ temp = [t \in Turfs |-> Initial[t]]
    /\ edges = {e \in Turfs \X Turfs : e[2] \in Near[e[1]] \ {e[1]}}
    /\ air = [t \in Airy |-> AirInitial[t]]
    /\ asked = FALSE
    /\ phase = "receive"
    /\ todo = {} /\ listed = {} /\ jobs = {}
    /\ main = [at |-> "free"]
    /\ gasesHeld = FALSE
    /\ hooks = 0
    /\ notices = 0 /\ started = 0 /\ finished = 0
    /\ aborted = FALSE

-----------------------------------------------------------------------------
(***************************************************************************)
(* Hooks, on BYOND's thread: also from closures it is draining.             *)
(***************************************************************************)

\* Mutant: a message is handed over only if the thread waits for one.
NotifyRendezvous ==
    /\ main.at = "free" /\ live
    /\ notices < MaxNotices
    /\ notices' = notices + 1
    /\ asked' = (asked \/ phase = "receive")
    /\ UNCHANGED <<channel, live, edges, phase, passes, mainVars, started, finished, aborted>>

\* process_heat_notify: try_send, which fails if a message waits already.
Notify ==
    /\ main.at = "free" /\ live
    /\ notices < MaxNotices
    /\ notices' = notices + 1
    /\ asked' = TRUE
    /\ UNCHANGED <<channel, live, edges, phase, passes, mainVars, started, finished, aborted>>

CallHook(hook) ==
    /\ main.at = "free"
    /\ hooks < MaxHooks
    /\ hooks' = hooks + 1
    /\ main' = hook
    /\ UNCHANGED <<channel, live, edges, asked, phase, passes, gasesHeld, history, aborted>>

\* hook_register_turf and hook_infos change the turf arena first.
CallTurfHook(t, kind) == live /\ CallHook([at |-> "gases", turf |-> t, kind |-> kind])

LockTurfGases ==
    /\ main.at = "gases" /\ ~gasesHeld
    /\ ~ReadsGases
    /\ gasesHeld' = TRUE
    /\ UNCHANGED <<channel, live, edges, asked, phase, passes, main, hooks, history, aborted>>

\* Mutant: the lock is kept for what follows.
KeepTurfGases ==
    /\ main.at = "gases" /\ gasesHeld
    /\ main' = [main EXCEPT !.at = "solid"]
    /\ UNCHANGED <<channel, live, edges, asked, phase, passes, gasesHeld, hooks, history, aborted>>

UnlockTurfGases ==
    /\ main.at = "gases" /\ gasesHeld
    /\ gasesHeld' = FALSE
    /\ main' = [main EXCEPT !.at = "solid"]
    /\ UNCHANGED <<channel, live, edges, asked, phase, passes, hooks, history, aborted>>

Return == main' = [at |-> "free"] /\ gasesHeld' = FALSE /\ UNCHANGED hooks

\* supercond_update_ref fails when should_conduct_to_space does; the turf arena
\* has been changed by then.
UpdateRefFails ==
    /\ main.at = "solid" /\ main.kind = "ref"
    /\ Return
    /\ UNCHANGED <<channel, live, edges, asked, phase, passes, history, aborted>>

\* supercond_update_ref: a turf that conducts is inserted, or keeps the
\* temperature it has; one that does not is removed with its edges.
UpdateRef(conducts) ==
    /\ main.at = "solid" /\ main.kind = "ref"
    /\ ~ReadsHeat
    /\ LET t == main.turf IN
        IF conducts
          THEN /\ temp' = [u \in Known \cup {t} |-> IF u \in Known THEN temp[u] ELSE Initial[u]]
               /\ UNCHANGED edges
          ELSE /\ temp' = Restrict(temp, Known \ {t})
               /\ edges' = {e \in edges : t \notin {e[1], e[2]}}
    /\ Return
    /\ UNCHANGED <<channel, live, asked, phase, air, todo, listed, jobs, history, aborted>>

\* supercond_update_adjacencies: the edges out of the turf are replaced.
UpdateAdjacencies(blocked) ==
    /\ main.at = "solid" /\ main.kind = "adjacencies"
    /\ ~ReadsHeat
    /\ LET t == main.turf IN
        edges' = {e \in edges : e[1] # t} \cup
                 (({t} \cap Known) \X ((Near[t] \cap Known) \ (blocked \cup {t})))
    /\ Return
    /\ UNCHANGED <<channel, live, asked, phase, passes, history, aborted>>

CallShutdown == live /\ CallHook([at |-> "wait"])

\* wait_for_tasks gets the lock on TASKS, or panics after five seconds.
WaitForTasks ==
    /\ main.at = "wait"
    /\ IF ReadsTasks
         THEN aborted' = TRUE /\ UNCHANGED main
         ELSE main' = [at |-> "clear"] /\ UNCHANGED aborted
    /\ UNCHANGED <<channel, live, edges, asked, phase, passes, gasesHeld, hooks, history>>

\* The rest of shutdown_turfs.
ClearTurfs ==
    /\ main.at = "clear"
    /\ ~ReadsHeat
    /\ live' = FALSE
    /\ temp' = << >>
    /\ edges' = {}
    /\ Return
    /\ UNCHANGED <<channel, asked, phase, air, todo, listed, jobs, history, aborted>>

\* initialize_heat_statics of the next round; the thread is not started again.
InitializeHeat ==
    /\ main.at = "free" /\ ~live
    /\ live' = TRUE
    /\ UNCHANGED <<channel, edges, asked, phase, passes, mainVars, history, aborted>>

-----------------------------------------------------------------------------
(***************************************************************************)
(* The loop of process_heat_start.                                          *)
(***************************************************************************)
Receive ==
    /\ phase = "receive" /\ asked
    /\ asked' = FALSE
    /\ phase' = "taken"
    /\ started' = notices
    /\ UNCHANGED <<channel, live, edges, passes, mainVars, notices, finished, aborted>>

LockTasks ==
    /\ phase = "taken"
    /\ phase' = "tasks"
    /\ UNCHANGED <<channel, live, edges, asked, passes, mainVars, history, aborted>>

\* with_turf_heat_read unwraps what a shutdown has taken away.
LockTurfHeat ==
    /\ phase = "tasks"
    /\ IF live THEN phase' = "heat" /\ UNCHANGED aborted
               ELSE aborted' = TRUE /\ UNCHANGED phase
    /\ UNCHANGED <<channel, live, edges, asked, passes, mainVars, history>>

ReadTurfGases ==
    /\ phase = "heat"
    /\ ~gasesHeld
    /\ phase' = "first"
    /\ todo' = Known
    /\ listed' = {}
    /\ UNCHANGED <<channel, live, edges, asked, temp, air, jobs, mainVars, history, aborted>>

Apart(a, b) == (IF a < b THEN b - a ELSE a - b) > MinDelta

\* What a body at temperature a gains from one at temperature b: get_share_energy
\* over its heat capacity.
Gain(percent, a, b, capA, capB) == (percent * (b - a) * capB) \div (100 * (capA + capB))

Radiated(t) ==
    IF t \in Spacey /\ temp[t] > T20C
      THEN temp[t] + Gain(Conduct[t], temp[t], TCMB, Capacity[t], Vacuum)
      ELSE temp[t]

AtLeastSpace(a) == IF a < TCMB THEN TCMB ELSE a

\* temperature_share_non_gas, as the temperatures of the solid and of the air.
SharedWithAir(t, solid) ==
    LET percent == (Conduct[t] * OpenPercent) \div 100
    IN  IF ~Apart(air[t], solid) THEN <<solid, air[t]>>
        ELSE << AtLeastSpace(solid + Gain(percent, solid, air[t], Capacity[t], AirCapacity[t])),
                AtLeastSpace(air[t] + Gain(percent, air[t], solid, AirCapacity[t], Capacity[t])) >>

DiffersFromNear(t) == \E u \in Out(t) : Apart(temp[t], temp[u])

\* A turf is worth the second filter if it differs from a turf next to it, or
\* is hot and open, or has hot air.
Worthwhile(t) ==
    \/ DiffersFromNear(t)
    \/ temp[t] > MinSuper /\ t \in Spacey \cup Airy
    \/ temp[t] <= MinSuper /\ t \in Airy /\ air[t] >= MinSuper /\ Apart(temp[t], air[t])

TooHot(t, solid) == solid > MinStart /\ solid > Capacity[t]

\* The first pass: a worker looks at turf t.  If it is worthwhile the worker goes
\* on with it, and knows whether it differs from those next to it.
Look(t) ==
    /\ phase = "first" /\ t \in todo
    /\ Cardinality(jobs) < Workers
    /\ todo' = todo \ {t}
    /\ jobs' = IF Worthwhile(t) THEN jobs \cup {[turf |-> t, differs |-> DiffersFromNear(t)]}
               ELSE jobs
    /\ UNCHANGED <<channel, live, edges, asked, phase, temp, air, listed, mainVars, history, aborted>>

\* The turf is left out if somebody reads its temperature at the time: a hook,
\* or the worker that looks at a turf next to it.
PassBy(j) ==
    /\ phase = "first" /\ j \in jobs
    /\ j.turf \in Watched \/ \E u \in todo : j.turf \in Out(u)
    /\ jobs' = jobs \ {j}
    /\ UNCHANGED <<channel, live, edges, asked, phase, temp, air, todo, listed, mainVars, history, aborted>>

\* It shares its heat with space and with its air, if airFree: if the lock on the
\* mixture is free.  In this pass nobody else changes it.
Consider(j, airFree) ==
    LET t      == j.turf
        shared == IF airFree THEN SharedWithAir(t, Radiated(t)) ELSE <<Radiated(t)>>
    IN  /\ phase = "first" /\ j \in jobs
        /\ t \in Airy \ Watched => airFree
        /\ airFree => t \in Airy
        /\ temp' = [temp EXCEPT ![t] = shared[1]]
        /\ air' = IF airFree THEN [air EXCEPT ![t] = shared[2]] ELSE air
        /\ IF TooHot(t, shared[1]) THEN Send ELSE UNCHANGED channel
        /\ listed' = IF j.differs THEN listed \cup {t} ELSE listed
        /\ jobs' = jobs \ {j}
        /\ UNCHANGED <<live, edges, asked, phase, todo, mainVars, history, aborted>>

BeginSecond ==
    /\ phase = "first" /\ todo = {} /\ jobs = {}
    /\ phase' = "second"
    /\ todo' = listed
    /\ listed' = {}
    /\ UNCHANGED <<channel, live, edges, asked, temp, air, jobs, mainVars, history, aborted>>

\* Turfs whose temperature a worker has locked for writing.
Locked == UNION {{j.turf} \cup j.with : j \in jobs}

\* A worker comes to turf t: it locks it, or passes it by.
TakeTurf(t, locks) ==
    /\ phase = "second" /\ t \in todo
    /\ Cardinality(jobs) < Workers
    /\ locks => t \notin Locked
    /\ ~locks => t \in Locked \cup Watched
    /\ todo' = todo \ {t}
    /\ jobs' = IF locks THEN jobs \cup {[turf |-> t, left |-> Out(t), with |-> {},
                                             gains |-> <<0, 0>>]} ELSE jobs
    /\ UNCHANGED <<channel, live, edges, asked, phase, temp, air, listed, mainVars, history, aborted>>

\* What turf t and its neighbour u gain from one another, at the lesser of their
\* conductivities.
Gains(t, u) ==
    LET percent == Min({Conduct[t], Conduct[u]})
    IN  << Gain(percent, temp[t], temp[u], Capacity[t], Capacity[u]),
           Gain(percent, temp[u], temp[t], Capacity[u], Capacity[t]) >>

\* Mutant: the neighbour is only read under its lock.
LockNearBriefly(j, u, locks) ==
    /\ j \in jobs /\ j.with = {} /\ u \in j.left
    /\ jobs' = (jobs \ {j}) \cup
                {[j EXCEPT !.left = @ \ {u},
                           !.with = IF locks THEN {u} ELSE {},
                           !.gains = IF locks THEN Gains(j.turf, u) ELSE <<0, 0>>]}
    /\ UNCHANGED <<channel, live, edges, asked, phase, temp, air, todo, listed, mainVars, history, aborted>>

\* The worker at turf j.turf comes to its neighbour u: it locks it too and reads
\* both temperatures, or passes it by.
LockNear(j, u, locks) ==
    /\ j \in jobs /\ j.with = {} /\ u \in j.left
    /\ locks => u \notin Locked
    /\ ~locks => u \in Locked \cup Watched
    /\ jobs' = (jobs \ {j}) \cup
                {[j EXCEPT !.left = @ \ {u},
                           !.with = IF locks THEN {u} ELSE {},
                           !.gains = IF locks THEN Gains(j.turf, u) ELSE <<0, 0>>]}
    /\ UNCHANGED <<channel, live, edges, asked, phase, temp, air, todo, listed, mainVars, history, aborted>>

ShareNear(j, u) ==
    /\ j \in jobs /\ j.with = {u}
    /\ temp' = [temp EXCEPT ![j.turf] = @ + j.gains[1], ![u] = @ + j.gains[2]]
    /\ jobs' = (jobs \ {j}) \cup {[j EXCEPT !.with = {}, !.gains = <<0, 0>>]}
    /\ UNCHANGED <<channel, live, edges, asked, phase, air, todo, listed, mainVars, history, aborted>>

LeaveTurf(j) ==
    /\ j \in jobs /\ j.with = {} /\ j.left = {}
    /\ jobs' = jobs \ {j}
    /\ UNCHANGED <<channel, live, edges, asked, phase, temp, air, todo, listed, mainVars, history, aborted>>

EndSecond ==
    /\ phase = "second" /\ todo = {} /\ jobs = {}
    /\ phase' = "cost"
    /\ UNCHANGED <<channel, live, edges, asked, passes, mainVars, history, aborted>>

\* The closure that updates cost_superconductivity is sent, TASKS is unlocked.
SendCost ==
    /\ phase = "cost"
    /\ Send
    /\ phase' = "receive"
    /\ finished' = started
    /\ UNCHANGED <<live, edges, asked, passes, mainVars, notices, started, aborted>>

-----------------------------------------------------------------------------
FirstPass ==
    \/ \E t \in todo : Look(t)
    \/ \E j \in jobs : PassBy(j) \/ \E airFree \in BOOLEAN : Consider(j, airFree)

SecondPass ==
    \/ \E t \in todo, locks \in BOOLEAN : TakeTurf(t, locks)
    \/ phase = "second" /\ \E j \in jobs :
        \/ \E u \in j.left, locks \in BOOLEAN : LockNear(j, u, locks)
        \/ \E u \in j.with : ShareNear(j, u)
        \/ LeaveTurf(j)

HeatThread ==
    /\ ~aborted
    /\ \/ Receive \/ LockTasks \/ LockTurfHeat \/ ReadTurfGases
       \/ FirstPass \/ BeginSecond \/ SecondPass \/ EndSecond
       \/ SendCost

HookGoesOn ==
    /\ ~aborted
    /\ \/ LockTurfGases \/ UnlockTurfGases
       \/ UpdateRefFails
       \/ \E conducts \in BOOLEAN : UpdateRef(conducts)
       \/ \E blocked \in SUBSET Turfs : UpdateAdjacencies(blocked)
       \/ WaitForTasks \/ ClearTurfs

HookCalled ==
    /\ ~aborted
    /\ \/ Notify
       \/ \E t \in Changing, kind \in {"ref", "adjacencies"} : CallTurfHook(t, kind)
       \/ CallShutdown
       \/ InitializeHeat

\* A drain goes on when no hook is under way on the same thread.
Drains ==
    /\ ~aborted
    /\ main.at = "free"
    /\ \/ Begin \/ EndDrained \/ EndExpired
       \/ \E n \in 0..MaxNested, late \in BOOLEAN :
            (n > 0 => sent + n <= MaxHookSent) /\ CallNext(n, late)
    /\ UNCHANGED heatVars

HookSends == ~aborted /\ main.at = "free" /\ sent < MaxHookSent /\ Send /\ UNCHANGED heatVars

HeatNext == HeatThread \/ HookGoesOn \/ HookCalled \/ Drains \/ HookSends

\* The heat thread runs as long as it has something to do, and so does BYOND's
\* thread, which drains the channel every tick.
HeatSpec ==
    /\ HeatInit /\ [][HeatNext]_allVars
    /\ WF_allVars(HeatThread) /\ WF_allVars(HookGoesOn) /\ WF_allVars(Drains)

-----------------------------------------------------------------------------
\* Every call of process_turf_heat is followed by a whole tick that began after
\* it, though a call that finds a message waiting sends none: unless the
\* program was shut down while the message waited.  (The calls stop in the model.)
NotifyServed == (finished < notices) ~> (finished = notices \/ aborted)

\* Every closure that was sent is called in the end, whichever thread sent it and
\* whatever hooks are called in between, unless the program panics.  (Those who
\* send stop in the model, so that the channel is empty then.)
SentRunsOrAborted == (queue # << >>) ~> (queue = << >> \/ aborted)

\* A hook that needs the locks of a tick gets them and returns: the two threads
\* take TURF_HEAT and TURF_GASES in opposite orders but never hold the first of
\* them while they wait for the second.
HooksReturn == (main.at # "free") ~> (main.at = "free" \/ aborted)

\* Temperatures there were to begin with.
Start == {Initial[t] : t \in Turfs} \cup {AirInitial[t] : t \in Airy}

Within(a) == a >= TCMB /\ \E b \in Start : a <= b

\* Heat goes from the hotter to the colder: whatever the workers do at the same
\* time, no turf and no air becomes hotter than all were or colder than space.
HeatWithinRange ==
    /\ \A t \in Known : Within(temp[t])
    /\ \A t \in Airy : Within(air[t])
=============================================================================
