# auxmos in TLA+

auxmos is the atmospherics of Space Station 13: a Rust library, loaded by the
game engine BYOND, that keeps every gas mixture and every turf (a tile of the
map) of the game and moves gas between them. This directory models its core
logic in TLA+, checks the models with TLC and proves with TLAPS what matters
most about them for every value of the constants. Paths below are those of the repository (`gas.rs` is
`src/src/gas.rs` in `PROJECT.json`, which also says for every definition which
lines it stands for).

- [1 The system](#1-the-system)
- [2 Modules](#2-modules)
- [3 Runs](#3-runs)
- [4 Fairness](#4-fairness)
- [5 Proofs](#5-proofs)
- [6 Where code and comments disagree](#6-where-code-and-comments-disagree)
- [7 What is not modelled](#7-what-is-not-modelled)
- [8 Plan](#8-plan)

## 1 The system

BYOND runs the game code (DM) on one thread. It calls hooks of the library, and
the library calls DM procs, on that thread only. Inside some hooks rayon's
workers share the work; a hook returns only when its workers have. With the feature
`superconductivity` one thread runs beside all this: it conducts heat between the solid
parts of turfs whenever DM asks for a tick.

| component | source | state | operations |
|---|---|---|---|
| Gas arena | `gas.rs` | `GAS_MIXTURES`, a vector of locked mixtures; `NEXT_GAS_IDS`, a stack of free indices; the index each DM datum keeps | `register_mix`, `unregister_mix`, `with_mix*`, `amt_gases` |
| Mixtures | `gas/mixture.rs`, hooks in `lib.rs` | moles per gas, temperature, volume, minimum and cached heat capacity, immutable mark | about 40 hooks: set, adjust, merge, remove, transfer, scrub, share, equalize, copy, parse |
| Registry and reactions | `gas/types.rs`, `reaction.rs`, `react_hook` | gases and their indices, reactions by priority | register, update, look up, run |
| Callback channel | `crates/auxcallback` | an unbounded FIFO of closures | send from anywhere, drain on BYOND's thread |
| Turf arena | `turfs.rs` | a stable directed graph of turfs, a map from BYOND references to nodes, atmospheres of planets | register and remove turfs, replace adjacencies, `update_visuals` |
| Diffusion | `turfs/processing.rs` | the gas of all turfs; sets of low and high pressure turfs | `process_turf_hook`: `fdm`, `post_process`, `planet_process` |
| Excited groups | `turfs/groups.rs` | a channel with one set of turfs | `groups_hook`: flood, average |
| Katmos | `turfs/katmos.rs` | a channel with one set; zones and flows of one call | `equalize_hook`; the callbacks `explosively_depressurize` and `planet_equalize` |
| Native reactions | `reaction/citadel.rs`, `reaction/yogs.rs` | none | four functions that change a mixture and call DM |
| Superconductivity | `turfs/superconduct.rs` | `TURF_HEAT`, a graph of turfs with a locked temperature each; a channel of one message; a thread that never ends | request a tick, conduct heat, register turfs, shut down |
| Older equalisers | `turfs/monstermos.rs`, `turfs/putnamos.rs` | | in no build |
| Parser, SIMD macro | `parser.rs`, `crates/auxmacros` | none | text to gases; code generation |

How they interact. A turf refers to a mixture of the gas arena by index. A cycle
of the DM subsystem SSair calls `process_turf_hook`, which diffuses gas, hands
the turfs it found to the groups and to katmos through two channels that hold one
set each, and sends callbacks for overlays and reactions; DM then calls
`groups_hook`, `equalize_hook` and the drain of the callback channel, with a time
limit each, and changes turfs in between. Katmos sends callbacks too, and these
call DM in the middle of their work. The heat thread reads the turf arena, changes the
gas of turfs, and sends callbacks, while DM goes on; the hooks that register turfs change
its graph too, and a lock (`TASKS`) tells a shutdown that a tick is under way.

What is hard about it:

- *Indices and references outlive what they name.* Datum indices, node indices,
  sets of turfs in channels, closures in the queue and hashes of a gas are all used
  later than they were made.
- *Parallel passes over shared gas.* fdm reads the neighbours of a turf while it
  changes turfs; katmos' workers recurse through zones and lock two mixtures at a
  time; the workers of a heat tick try the locks of two turfs at a time.
- *Two threads and three locks.* A heat tick and the hooks on BYOND's thread take the same
  locks in different orders.
- *Time limits.* Every loop can be cut short, and what is left has to be kept,
  dropped or replaced.
- *Calls into DM.* A closure can fail, send more closures, close a firelock, or
  remove the turf that is being worked on; a reaction can read the reactions again, register
  gases, or change the mixture the next reaction was looked up for.
- *Caches.* The heat capacity, the overlay hash, the shared set of found turfs.
- *Edges of arithmetic.* Ratios outside 0 to 1 or no number at all, refills of vectors, shares
  that add up to more than there is.

`PROJECT.json` lists these as hazards, each at its line and with the properties
that would catch it going wrong.

What makes each component correct:

- *Gas arena*: each registered datum has a mixture of its own that starts clean; no
  slot leaks.
- *Mixtures*: the cached heat capacity is the true one, no negative moles, no NaN from
  gas, what moves gas conserves it, immutable means immutable.
- *Registry and reactions*: the datum that runs is the one whose requirements were
  checked, those are current, and a fire finds what it was looked up for.
- *Callbacks*: each runs once, in order, and in the end.
- *Superconductivity*: heat goes from hot to cold and no further, every request for a tick is
  served, and no hook waits for ever.
- *Turf arena*: the graph shows what DM declared, whatever indices were reused.
- *Diffusion*: the result does not depend on the workers; it is stable and, but for
  the threshold, conserves gas.
- *Overlays*: the overlays follow the gas.
- *Cycle, groups*: each set is worked on once, groups conserve gas and change only
  what is switched on.
- *Katmos*: zones end level, nobody gives what it has not, no deadlock; only turfs
  open to space lose air, none next to a planet, and no index is used when its turf has
  gone.

## 2 Modules

Every module's header says what its variables and actions stand for, and comments
with the name of the Rust function precede the definitions that are not named after
it. Definitions under a comment that begins with "Mutant" are not part of the
specification: they are plausible mistakes, used to see that a property can fail.

| module | models | notes |
|---|---|---|
| `MixPool` | the promise of the gas arena | a private mixture per datum; no indices |
| `GasArena` | `gas.rs` | refills, growth of the two Rust vectors, reuse; implements `MixPool` |
| `Mixtures` | `gas/mixture.rs`, `lib.rs` | methods as operators on a record, hooks as actions |
| `Reactions` | `gas/types.rs`, `reaction.rs`, `reaction/citadel.rs`, `react_hook` | tables of gases and reactions, and the stack of `react` calls with DM or a native function running inside |
| `Callbacks` | `crates/auxcallback` | both drains, nested sends, failures, the timer |
| `Superconduct` | `turfs/superconduct.rs`, `wait_for_tasks` | composes `Callbacks` with the heat thread and the hooks that share its locks |
| `TurfNet` | the promise of the turf arena | turfs and adjacencies; no nodes |
| `TurfGraph` | `TurfGases` and its hooks in `turfs.rs` | petgraph's `StableDiGraph` as nodes, vacant indices and edges; implements `TurfNet` |
| `FdmStencil` | one diffusion step as the comments of `fdm` describe it | all turfs at once |
| `Fdm` | `fdm` | the passes of the workers turf by turf; implements `FdmStencil` |
| `Visuals` | `post_process`, `update_visuals`, `react_hook` | hashes, callbacks and what is shown |
| `TurfAir` | | what `Groups` and `Katmos` have in common: turfs and their gas |
| `Groups` | `excited_group_processing` | flood fill and average as functions |
| `AirCycle` | `process_turf_hook`, `groups_hook`, `equalize_hook` and both channels | composes `Groups` and `FdmStencil` with the DM code in between |
| `ZoneFlow` | `process_zone` and what it calls | the flow in one zone as functions |
| `Katmos` | `equalize` | composes `ZoneFlow` with the flood fill, the workers, locks and the recursion of `finalize_eq` |
| `Decompress` | `explosively_depressurize`, `planet_equalize` | turn by turn, with calls into DM that change the arena |
| `ArenaProofs`, `SuperconductProofs`, `ReactionsProofs`, `MixturesProofs`, `FdmProofs`, `DecompressProofs`, `CycleProofs` | | theorems, see section 5; `ArenaProofs` is about `GasArena`, `TurfGraph` and `Visuals`, `SuperconductProofs` also about `Callbacks`, `CycleProofs` about `Groups`, `AirCycle` and `Katmos` |
| `InductionLemmas` | | what the proofs need to know of sums over finite sets, folds and the elements of sequences |
| `MC*` | | instances for TLC |

Which operations are one action follows from the locks and threads. A hook that
makes no call into DM and uses no workers is one action: DM runs on its thread.
The passes of `fdm` are one action per turf, because that is what rayon hands out;
`finalize_eq` is an action per lock, and its recursion is a stack of tasks;
a callback of katmos is one action per turf of its floods, and its calls into DM are
actions in which the arena may change; a native reaction is an action up to each
proc it calls. Of a heat tick every lock is an action, and in its passes so is every
try of a worker at a turf. In `AirCycle` a turn of the groups is one
action, for the time limit is looked at between turns.

What is abstracted:

- *Moles are whole numbers* and instances choose them so that the divisions that occur
  are exact, or the property says by how much rounding may differ (`GroupsKeepGas`).
  What floating point adds in error is not modelled. One gas stands for all of them
  where only pressure matters (`Fdm`, `Groups`, `AirCycle`, `Katmos`), and
  pressure for moles at the same volume and temperature.
- *NaN* is modelled in `Mixtures`, for the moles of a gas (the field `nan` of a mixture, the set of gases lost to it) and for
  a ratio (`NoNumber`), because the code makes it of ordinary arguments: an amount of 0 divided by the moles of an
  empty mixture. Infinite ratios (another amount divided by these moles) are clamped as any ratio above one or below zero. What DM
  passes to the hooks is a finite number, and `divide` is not by 0 (see section 6). The room a vector of moles has is not kept: `add` and `transfer_gases_to`, to which
  entries of zero matter, are given any set of entries that has those that are not zero.
- *Temperature* is a whole number in `Mixtures` and `Superconduct`: hooks of `Mixtures` whose
  result is another number are left out (the operators say `Broken`), and the shares of
  `Superconduct` are rounded down. In `Reactions` a mixture is hot or not. In `Fdm`
  and what is built on it temperature is left out; there it only adds turfs to those that are
  worth processing.
- *Try-locks* in `Superconduct` fail only for a reason the model has: another worker at the
  turf or next to it, or one of the turfs in `Watched`, which hooks may be reading at any time.
- *The look of a gas* stands for the gas and its hash in `Visuals`: hashes do not
  collide.
- *Firelocks* and *planets* are what a turf or an edge of `Katmos` and
  `Decompress` has or not; what DM does with pressures and floors is outside.
- In `GasArena` the DM side is a constant: with `Disciplined = TRUE` it
  unregisters a datum once, as its destructor does; otherwise again and again,
  which `unregister_mix` does not notice.

## 3 Runs

All bounds are constants of the `.cfg` files or definitions of the MC modules.
Times are with two workers.

| run | instance | states | time |
|---|---|---|---|
| `arena` | 3 datums, room for 2 in the arena and 3 on the stack before they grow, a DM side that unregisters once | 51 665 | 7 s |
| `callbacks` | 3 turfs, 2 workers, 2 requests, 1 other hook, up to 6 closures of which 2 fail, each sending up to 1 | 285 576 | 110 s |
| `turf_graph` | 3 turfs, any of them a planet's | 9 350 | 13 s |
| `fdm` | 4 turfs, sealed or with space at one, 3 steps | 25 020 | 8 s |
| `mixtures` | 2 mixtures, the larger twice the smaller, which may be immutable; 2 gases, one with twice the specific heat; up to 2 moles, and NaN | 28 800 | 130 s |
| `mixtures_immutable` | the same; violated | | 1 s |
| `reactions` | 2 mixtures, 2 gases, 5 datums in 3 lists, calls 2 deep | 621 399 | 45 s |
| `visuals` | 2 turfs, one of which loses its air, 2 looks, 1 closure of overlays at a time | 338 544 | 120 s |
| `visuals_missed` | the same; violated | | 1 s |
| `cycle` | 4 turfs, 2 cycles | 500 908 | 19 s |
| `katmos` | 4 worlds of 6 turfs | 86 819 | 18 s |
| `decompress` | 5 turfs, doors in 3 places, callbacks in pairs | 157 711 | 22 s |

**arena.** `SlotsPartition`: every slot is free once or owned by one datum.
`AmtCountsLive`: the difference of two lengths counts the datums. `PoolSpec`: refinement of `MixPool`; it
fails if a reused slot shows anything of its former owner, the immutable mark in
particular, which `clear_with_vol` has to lift before it clears. `ArenaCapacity` and
`IdsCapacity` are so small that three datums cause refills with and without room left
in the vector; in the program 240 000 mixtures come before the second kind. The run assumes that DM unregisters
a datum once (`Disciplined`): a second time nothing in `gas.rs` would notice, two datums would share a slot, and the
first two properties would fail.

**callbacks.** `Superconduct` over `Callbacks`: three turfs in a row, one next to space, one
so hot that it is to be destroyed, one with warm air; two workers, two requests for
ticks, one other hook (it may register or remove a turf, replace adjacencies, or shut down) and
closures of which two in a row fail. `InOrderOnce` says that what ran followed by what
waits is exactly what was sent, though a tick sends while a drain is on. `ErrorsReported`: a
failing closure is reported even if the time limit has passed, and takes no other along.
`SentRunsOrAborted` (liveness): with a limit of zero, one closure per drain, all closures run.
`HeatWithinRange`: whichever pairs of turfs the workers come to at the same time, no turf and no
air leaves the range of the temperatures there were; it fails if a neighbour is read
under a lock and written under another. `NotifyServed` (liveness): a request that is dropped because
another one waits is served by the tick that one starts. `HooksReturn` (liveness): the locks of
a tick and those of hooks cannot block each other; it fails if a hook holds `TURF_GASES`
while it waits for `TURF_HEAT`. All three allow for an abort, which
a shutdown during a tick can cause, see section 6.

**turf_graph.** `NetSpec` refines `TurfNet`: a turf that gets the node index of a
former turf gets none of its edges, a turf that is registered again keeps its own,
and unknown neighbours are passed over. `MapMatchesNodes` is what `fdm`'s and katmos'
`unwrap`s rest on. The first registered turf of a planet decides on its
atmosphere, with whatever its mixture holds by then; nothing is claimed of that. Three turfs are the least with an edge that bypasses the removed one.

**fdm.** `StencilSpec`: for every order of the workers a step is the simultaneous one,
and the sets of turfs and the pressure calls are those of the step.
`WithinRange`: a turf stays within what it and the others had: an eighth per
neighbour is stable for up to eight neighbours, the code has six.
`NearlyConserved`: see section 6. Levels are 0, 64 and 192, so that pairs are below the
threshold, above it and high; two steps of eighths stay whole, the second starts
from any outcome of the first, and the third is there for the rounding.

**mixtures.** `CacheFresh`: the kept heat capacity is the one that would be computed; what holds NaN has
none of its own, but what is kept then is gone when its moles are numbers again. `NoNegativeMoles`: whatever amounts and ratios.
`NaNFromNothing`: moles become NaN only in a mixture that is empty or holds NaN already, or that takes from one that does. The empty mixture is
the case of section 6, in which `__remove_by_flag` divides 0 by 0; from there NaN spreads by `merge`, `share_ratio` and copies until
something collects it. The property fails if the amount is divided by the moles of the flagged gases, as the doc
comment of the hook would suggest. `MovesConserve`: in every state the hooks can lead to, transfers,
scrubbing, conduction and equalize_all among mutable mixtures without NaN keep the moles of each gas and the energy, for which the
cached capacities have to be right; the ratios are those of the run and those that its amounts come to, but for NaN, by which
scrubbing an empty mixture leaves NaN.
The amounts are -3, 0 and 1, the ratios -1/2, 1/2 and 2: less than nothing, nothing, a part, and more than there is. Arguments that split
a mole or a degree are excluded. Temperatures are 1, 8 and 15, so that mixtures of hot and cold and halves of the way are whole.
Both arguments may be the same mixture. `MaxHeat` bounds the heat capacity that is kept beside NaN, the only number that
`MaxMoles` does not bound. Minimal heat capacities are 0 here, see section 6.

**reactions.** What a reaction requires is kept by its priority and the datum that is called by
its id, in two tables that are written at different moments. `RunsWhatMatched`: the datum that is called is the
one whose requirements were checked, although the reactions before it may have others read.
That holds because `react_by_id` keeps the map borrowed (the reading panics, and the model ends there), and because the
reactions of a list have different ids, which is assumed. `RequirementsCurrent`: what is kept is what the datums say in
terms of the indices in use, unless a gas was registered since; it fails if
`auxtools_atmos_init` reads the reactions before the gases. `FireFindsReagents`: `generic_fire` finds both fuel and oxidizer, as its
errors suppose, if nothing changed the mixture since the hook looked at it, neither a reaction before it
nor one of another hook inside that; if something did, it may fail, and the run has that too.
A native function fails for a gas that is not registered, changes only the gases it names, and calls
DM in the middle: `fusion` before it writes what it computed from the mixture as it was, `generic_fire` with
`GAS_INFO_BY_IDX` locked, so that a gas that is registered from there never returns (the model ends in
`Panic`). `IgnoredAreReported`: no reaction is
dropped without DM being told. Two gases and calls two deep are enough for a gas that is registered late and a hook that waits
for another.

**visuals.** `FirstLookPending`: no order of registrations, cycles and drains loses a
turf's first overlay. `NewLookShown` (liveness): what differs from the stored hash is
shown in the end unless it changes again. Both except turfs without air and callbacks that fail
because BYOND does: nobody tries again for these, and the hash is stored. The workers of a
`post_process` send in any order, but the two closures of a turf in one (`SentInOrder`); DM takes the air of one turf
only (`Stripped`), which leaves the other to be compared with. `visuals_missed` shows what does *not* hold, of
turfs with air whose last update did not fail either, see section 6. One more turf or look adds no new relation between hash, queue and overlay;
each turf has its own hash, and the queue serves turfs in order.

**cycle.** `OncePerCycle`: no set is worked on twice or out of order, and the groups'
is always the latest, although hooks are cut short and `equalize_enabled` changes.
`Gentle`: a run of the groups moves no turf by as much as the pressure goal, which fails if
a turf is averaged twice or the spread is taken wrongly. `GroupsKeepGas`.
`OnlyEnabledChange`: between the hook that filled the channel and the one that works on
it turfs are switched off and removed; they and immutable turfs keep their gas. The
largest group (3) is less than the four turfs, so that the fill is also cut off by
size, and two cycles show one set meeting the leftover of another.

**katmos.** Four worlds: a room of two by three, the same with a turf that is not
simulated, a planet that is flooded from both ends and cut off by the turf limit so that
zones share border turfs, and two rooms on either side of space. `Levelled`: every zone
that is complete ends at its average. `NeverShort`: a turf gives what it was asked for, so
that the pressures reported to DM are those of the gas that moved.
`SharedAtBorder`: zones overlap at border turfs only. `OpenZonesIgnored`: a zone beside
space is levelled only when another zone found that turf of space and sent a
decompression. `Terminates` (liveness): no deadlock of two-mixture locks, no endless
recursion. Six turfs suffice for both sides of `process_zone`'s choice, for the fast
process, for flows over several turfs and for turfs that pass on more than they have.

**decompress.** Doors in any subset of three places; any call into DM may close its
door or remove any turf; callbacks come in pairs, the second on an arena the first has
changed. `SealedKeepAir`: only turfs that are open to space when the air goes lose
it. `NothingIfPlanet`: a planet found late, or no space found, and nothing is lost;
`planet_equalize` changes no gas. `TargetsAreSpace`: the direction a turf is told to
blow leads to a turf of space this callback found, though it is read from turf
variables that other callbacks wrote. `NoPanic`: after DM was called the second flood
only unwraps turfs that are there. `CallbacksEnd` (liveness).

Deadlock is checked in `arena`, `turf_graph`, `mixtures`, `visuals` and
`cycle`. `fdm`, `katmos` and `decompress` are models of one call, or a list of them, that
ends, `reactions` ends with a panic, and `callbacks` when hooks stop to ask (what must not
block there is `HooksReturn`).

Bounds. `MaxArena`, `MaxIds`: a refill needs the stack to be empty, so that what happens after the
second refill repeats what happened after the first. `MaxSent`, `MaxHookSent`: the queue is a
FIFO without limit. `MaxNotices`, `MaxHooks`: two requests are the least of which one is dropped; a hook and a tick
are the least that can block each other. `MaxMoles`: states beyond it are not reached, but every hook with every
argument is tried at and below it. `MaxQueue`: a `post_process` on a longer queue waits.
`MaxCycles`, `MaxSteps`: a cycle or step depends on the earlier ones through the gas and the channels
only. `Limit` is 3 and 4 for katmos and decompression, so that it is met by six and five turfs.

## 4 Fairness

Safety is checked without fairness where the run has no liveness property.

- `Superconduct`: weak fairness of the heat thread (`HeatThread`), of a hook that has begun
  (`HookGoesOn`) and of the drains (`Drains`): SSair calls the drain every tick, and what has
  begun runs on a thread of its own. Sending, asking for ticks and calling hooks is not fair. `parking_lot`'s
  locks do not starve a writer for ever; the fairness of `HookGoesOn` asks for less, for no tick begins
  again without a request.
- `Visuals`: weak fairness of `PostProcess` (SSair starts cycles for ever) and of the
  calls of closures (as above). Changes of gas and registrations are not fair.
- `Katmos`: weak fairness of the hook and of each zone's worker: rayon runs a task
  that is not blocked. `parking_lot`'s locks do not starve a waiting writer for ever,
  and weak fairness of the zone asks for less, for it only helps a zone that stays enabled.
- `Decompress`: weak fairness of `Next`: a callback is a loop on the main thread.

## 5 Proofs

TLAPS proves the following for any constants that meet the named assumptions.
Where a module is about several models it extends them all; each of its theorems is about one of them and uses
the assumptions of that one. TLC found `KatmosInv` and `CycleInv` to hold on the instances of section 3 before
they were proved.

| theorem | module | assumes | says |
|---|---|---|---|
| `TypeCorrect` | `ArenaProofs` | `ArenaAssumption` | `Spec => []TypeOK` |
| `PoppedIndexExists` | | `ArenaAssumption` | `Spec => []FreeIdsExist` |
| `SlotsArePartitioned` | | and `Disciplined` | `Spec => []SlotsPartition` |
| `AmtGasesIsExact` | | and `Disciplined` | `Spec => []AmtCountsLive` |
| `ArenaImplementsPool` | | and `Disciplined` | `Spec => PoolSpec` |
| `GraphInvariant` | | `TurfAssumption` | types, map and nodes agree, edges join occupied nodes |
| `GraphImplementsNet` | | `TurfAssumption` | `GraphSpec => NetSpec` |
| `FirstLooksPend` | | `VisualsAssumption` | `VisualsSpec => []FirstLookPending` |
| `CallbacksInOrderOnce` | `SuperconductProofs` | `CallbacksAssumption` | `Spec => []InOrderOnce` |
| `CallbacksReportErrors` | | `CallbacksAssumption` | `Spec => []ErrorsReported` |
| `HeatUsesChannel` | | none | `HeatSpec => Spec`, that of the channel |
| `HeatInOrderOnce` | | `CallbacksAssumption` | `HeatSpec => []InOrderOnce` |
| `HeatErrorsReported` | | `CallbacksAssumption` | `HeatSpec => []ErrorsReported` |
| `HeatStaysWithinRange` | | `SuperconductAssumption` | `HeatSpec => []HeatWithinRange` |
| `TablesAndCallsMatch` | `ReactionsProofs` | `ReactionsAssumption` | `Spec => []Inv`, what the next one rests on |
| `ReactionsRunWhatMatched` | | `ReactionsAssumption` | `Spec => []RunsWhatMatched` |
| `RequirementsAreCurrent` | | `ReactionsAssumption` | `Spec => []RequirementsCurrent` |
| `IgnoredAreTold` | | `ReactionsAssumption` | `Spec => []IgnoredAreReported` |
| `FireFinds` | | `ReactionsAssumption` | `Spec => []FireFindsReagents` |
| `NeverNegative` | `MixturesProofs` | `MixturesAssumption` | `Spec => []NoNegativeMoles` |
| `NaNOnlyFromNothing` | | `MixturesAssumption` | `Spec => NaNFromNothing` |
| `CacheNeverStale` | | and `Minima \subseteq {0}` | `Spec => []CacheFresh` |
| `MovesKeepGasAndHeat` | | and no coefficient exceeds 1 | `Spec => []MovesConserve` |
| `DiffusionIsStable` | `FdmProofs` | `FdmAssumption` | `Spec => []WithinRange` |
| `WorkersImplementStencil` | | `FdmAssumption` | `Spec => StencilSpec` |
| `RoomKeepsGas` | | `FdmAssumption` | `Spec => NearlyConserved` |
| `NeverPanics` | `DecompressProofs` | `DecompressAssumption` | `Spec => []NoPanic` |
| `AimsAtSpace` | | `DecompressAssumption` | `Spec => []TargetsAreSpace` |
| `SealedTurfsKeepAir` | | `DecompressAssumption` | `Spec => SealedKeepAir` |
| `NothingLost` | | `DecompressAssumption` | `Spec => NothingIfPlanet` |
| `CycleInvariant` | `CycleProofs` | `GroupsAssumption`, `AirCycleAssumption` | `Spec => []CycleInv`, what the next four rest on |
| `WorkedOnOnce` | | the same | `Spec => []OncePerCycle` |
| `GroupsAreGentle` | | the same | `Spec => []Gentle` |
| `OthersKeepGas` | | the same | `Spec => OnlyEnabledChange` |
| `AveragingKeepsGas` | | the same | `Spec => GroupsKeepGas` |
| `KatmosInvariant` | | `KatmosAssumption` | `KatmosSpec => []KatmosInv`, what the next two rest on |
| `ZonesShareTheirBorders` | | `KatmosAssumption` | `KatmosSpec => []SharedAtBorder` |
| `SpaceIsNotMissed` | | `KatmosAssumption` | `KatmosSpec => []OpenZonesIgnored` |

*Gas arena.* The invariants are proved as a tower, each with the ones below it as
hypotheses. `Typed` adds to the types that the length is within the capacity and that
a refill leaves the stack some room (`Roomy`): the size of a refill is a natural number only
because of that. `InBounds` adds that the index of a datum, registered or not, exists, for
that is what `Unregister` pushes. It needs no discipline of the DM code: even one that
unregisters twice cannot make `register_mix` panic (`PoppedIndexExists`). No run checks this, for with discipline it is a part of
`SlotsPartition`. `Partition` adds the four parts of
`SlotsPartition` and that registered datums have an index. `Counted` adds that
registered datums are finitely many, which makes their number grow by one. For the
refinement, a step of each action is a step of `MixPool` or leaves all mixtures of datums
alone; `ClearWithVolIsFresh` is the fact that a reused mixture is a new one.

*Callbacks.* `InOrderOnce` with the types is inductive. The lemmas are about
concatenation: the head moves from the queue to the end of what ran, and new numbers
continue the old. `ErrorsReported` rests on it: a closure that is called has a number no
other had, so that none is counted twice.

*Superconductivity.* The heat thread is a sender like others: every step of `HeatNext`
takes a step of the channel or leaves it alone (`HeatStep`), so `HeatSpec` implements `Spec` and
inherits what is proved of it. `HeatStaysWithinRange` has two parts. `GainBounds` is arithmetic: what
a body gains from another, rounded down, is between nothing and the whole difference, for any capacities
and percentage; `Cancel` and `Scale` are there because the provers do not multiply by
unknowns themselves. `HeatInv` is about the locks: turfs are inserted and removed only outside
the passes; in the second pass two workers never have a turf in common (`LocksApart`), and therefore what a worker
has computed from the two temperatures it read is still what those temperatures say when it writes
(`GainsAsRead`). That second conjunct is not inductive without the first: a worker at one of the two
turfs would change its temperature in between.

*Turf arena.* `GraphInvariant` is inductive: the map gives the node of a turf, each
occupied node is the map's node of the turf in it, and edges have occupied ends. The last part
is what makes index reuse harmless: a vacant index has no edge. Each action
is shown to map to the action of `TurfNet` on references instead of nodes.

*Overlays.* `FirstLookPending` is inductive with its types. Its steps are about the queue: what a `post_process` appends
holds the message of every turf whose hash it stores for the first time, wherever the workers put it, and a message leaves the queue
only at its head, when it is called.

*Reactions.* `RunsWhatMatched` is not inductive: a reload replaces values, and that it cannot
happen while a reaction waits to be run follows from the shape of the stack. `Inv` adds it: only
the innermost hook can be between two reactions (`CallsMatch`), so DM code runs only if a
reaction runs, and while one runs, `REACTION_VALUES` is borrowed and a reload that would change
it panics (`LoadKeepsValues`). The other part, `TablesMatch`, says that what is kept of a
reaction agrees with the value under its id; there the assumption is needed that no two
reactions of one list have the same id. The other two theorems use only
`TablesMatch` and `ReadOrKept`: a step reads all reactions with the gases there are after it,
or keeps them and the gases, or marks them stale. `FireFindsReagents` needs `FireInv`, which adds
`UntouchedReady`: as long as nothing has changed the mixture of a call since it was looked up, a fire that is still to
be run in that call is ready, with a fuel and an oxidizer among the gases of the mixture. Gases are only ever appended
(`Extends`), so that the indices found at look-up stay those of the same gases. The theorems hold for any depth of
nesting; the run stops at two.

*Mixtures.* The invariant `Inv` is about every mixture by itself: `Sound` says that its moles are not negative
and that, if it keeps a heat capacity, this is the one of its moles. Every method is shown to leave sound what was
(`SoundMerge`, `SoundShare`, ...), then every hook (`SingleKeeps`, `PairKeeps`, `EqualizeKeeps`). Most
methods throw the kept value away; the two that replace it by a sum (`merge`, `share_ratio`) need the
heat capacity to be linear in the moles (`HeatOfPlus`, `HeatOfScaled`), the second also that no mole is split. The
hypothesis `Minima \subseteq {0}` of `CacheNeverStale` is the exception of section 6 (`mixture.rs:125`): with another
minimum the property is false. `NeverNegative` needs no hypothesis: ratios are clamped, NaN is not negative, and what is
adjusted is collected. It says of every gas that its moles are NaN or a number that is not negative. `NaNOnlyFromNothing` follows what each
operation may make NaN (`NaNOfMultiply`, `NaNOfMerge`, ...): most make none (`Quiet`), `merge`, `share_ratio` and
`copy_from` take it from the other mixture (`LosesFrom`), and `transfer_gases_to` makes it if its ratio is NaN, which is so only
if the amount is divided by no moles or by NaN (`NoPart`). `MovesKeepGasAndHeat` rests on the same invariant and on whole temperatures: in
each state, what `transfer_ratio`, `transfer_gases_to`, `temperature_share` and `equalize_all` would make
of mutable mixtures without NaN has the same moles and heat, by any ratio or part that is a number. `Weighed` is the step all share: a temperature that is heat by
heat capacity gives that heat again, also where `set_temperature` does nothing because there is none. In
`temperature_share` what one loses the other gains (`HeatExchanged`), but only if neither is
cut off at the temperature of space, which `NoColder` shows from the coefficient not exceeding 1, as
the comment in `constants.rs` demands; a DM caller that passes more makes heat from nothing. `Portions` and `HeatOfSum` are
about the shares of `equalize_all`.

*Diffusion.* `WorkersImplementStencil` holds for any number of turfs, edges and steps. `Inv` says that nobody writes
before the first pass is over (`Untouched`), that what is saved so far is what the gases at the top of the loop
give (`SavedFromBase`), and that a turf whose cell was taken up has what the stencil gives and all others
what they had (`WrittenOnce`). At the end of a step this is the whole `Step` of the stencil, for each
part of it (`low`, `high`, `calls` too); all else stutters. `DiffusionIsStable` is from the same invariant and the arithmetic
of a share: with n givers, n not above `Divisor`, the result lies between the least and the
largest of the turf and its givers, rounding included. That n is at most `Divisor` (8) is assumed for the six
directions a turf has; the comment of `GAS_DIFFUSION_CONSTANT` asks for the same. `FdmStencil` rounds as the code's
two operations do, so the refinement hides no difference.
`RoomKeepsGas` adds up what the invariant says of each turf. In eighths, a turf gains what it is below each of its
neighbours (`Pull`): what it takes from those that change, what it takes from those that were passed over, and
what rounding adds. The second is below the threshold for each of them, for a turf that is passed over differs by less from all
turfs next to it, and DM declares both directions; the third is below one unit, and none if nothing had to be rounded (`TurfLeak`). The first cancels in the
sum over all turfs that change: `PullsCancel`, by induction over the set of turfs, for what the next turf takes from the others
they take from it.

*Decompression.* `Inv` follows the callback through its phases. `SpaceFound`: what the first flood found of
space is a turf that blows to itself (`FreshFlood`). The second flood begins with those of them that are still
registered and does no more than set variables of turfs before it has cleared, so that `Reached` is inductive: all turfs in its order are registered
and `Exposed`, as every step follows an edge from such a turf. `Aiming` says that a turf
aims at the same turf of space as the one it was reached from, whatever stale targets callbacks before have left:
these are overwritten before they are read, because only turfs of the order are read. `NoDir \notin Turfs` is needed there.
Doors, removals and failures may come at any call, for any arena and any list of callbacks.

*Cycle and groups.* `CycleInv` has three parts. `InOrder`: what each hook has worked on rises with the calls of `process_turf_hook` and stays below
what its channel still holds; `OncePerCycle` alone says nothing of the channel of katmos and would not survive the next take. `Eased`: a turf that
differs from what it was when the groups began was found in this run, and by less than the goal; the first half keeps a second group
from moving it again. The turns of a flood fill are a fold, and `Gathered` is what holds of the group after any number of
them: its members were found, by this group and none before it, are enabled and known, and lie within a range narrower than
the goal. `GroupIsEven` and `AveragedSum` are the arithmetic of the average: it lies in that range, and times the members it is
their sum but for a remainder.

*Katmos.* `KatmosInv` is about the floods, one after the other; the workers that come later leave the graphs of
the zones alone (`WorkersKeepGraphs`). The key is `Enclosed`: whatever lies next to a turf that had its turn is found. As `found_turfs` is
shared by all zones, a later flood never has such a neighbour in its border, so that a node of one
zone never had its turn in another (`ZonesApart`, and `FillApart` for the flood that is under way). `SpaceOpens` says that a turf of space can
only have been found by a turn that sent a callback, and never by the zone that is levelled beside it. It rests on
space having no gas, which keeps it from starting a zone, and on edges leading both ways.
The limit, the planets, the time and the order of the queue do not matter to either.

*Lemmas.* The library's induction theorems take an operator as a parameter, which the installed provers cannot
instantiate. `InductionLemmas` therefore does induction with sets: `Induction` says that a set of numbers with 0 and every
successor has all numbers, `FiniteInduction` the same of the subsets of a finite set, and both are proved from the least number
principle. From these, a sum over a finite set (`SumFunctionOnSet`, whose definition is a `CHOOSE` of a recursive
function) is shown to exist and to do what a sum does: remove an element (`SumRemove`), distribute (`SumPlus`,
`SumScaled`), split (`SumSplit`), be bounded (`SumBounds`).

Only model-checked:

- liveness, as fairness and `ENABLED` are not in the prover's reach: `SentRunsOrAborted`, `NotifyServed`, `HooksReturn`, `NewLookShown`,
  `Terminates`, `CallbacksEnd`;
- `Levelled` and `NeverShort`, which are about what the nested folds of `ZoneFlow` compute: a proof would need an invariant of searches inside
  searches. `Levelled` moreover needs averages that are whole numbers, as those of the run are;
- `ImmutableKept` and `SentIfItShould`, which are false.

## 6 Where code and comments disagree

With a run that TLC finds violated:

- `mixtures_immutable`: `mark_immutable` "will never change" (`lib.rs:422`), but
  `transfer_gases_to` (`mixture.rs:302`) never asks the giver for its mark. Scrubbing an
  immutable mixture takes gas out of it.
- `visuals_missed`: `post_process` promises a callback for a turf that "should update visuals"
  (`processing.rs:378`). The callback shows the gas as it is when it runs and the hash is of the gas
  as it was. A gas that changes before the callback and changes back after it leaves the overlay of the
  look in between, with a hash that agrees: nothing corrects it until the look changes again. In TLC's trace the change before is the
  turf's own reaction, which runs ahead of its overlays.

Seen while modelling, without a run of their own:

- `processing.rs:283`: what a turf loses is "precisely equal to the amount the surrounding
  tiles' end_gas have taken". A neighbour that `should_process` passes over takes nothing.
  The gas that is lost this way is below the threshold per pair, which is what `NearlyConserved`
  states, up to the rounding of the model: turf by turf, `Leak` is the threshold for each neighbour it passes over and
  one mole if its eighths are not whole. The edges a turf looks along are also the other way round in `process_cell` than in
  `should_process`; DM declares both directions.
- `__remove_by_flag` divides the amount by the moles of the mixture (`lib.rs:370-371`). For an amount of 0, which is also the default,
  and an empty mixture that is NaN. `clamp` keeps NaN (`mixture.rs:303`), and the mixture is left with NaN moles of the flagged gases
  it has an entry of (line 311); it is not garbage collected. `merge` hands them on, the total and the pressure are NaN,
  and the next `multiply` or a removal collects them; a removal by amount then takes all of the gas, for its ratio is NaN too.
  `remove` and `transfer_to` divide in the same way, but collect what they have made. `set_moles_hook` takes care that DM passes no NaN
  (`lib.rs:228`); here none is passed. `NaNFromNothing` says that, of finite moles and arguments, this is the only way.
- `divide_hook` with 0 (`lib.rs:342`) multiplies by infinity, which leaves infinite moles; `Ratios` are finite.
- `set_min_heat_capacity` (`mixture.rs:125`, hook at `lib.rs:59`) leaves the cached heat capacity as
  it is. With a minimum other than 0, `CacheFresh` does not hold until the next change of the moles. The
  run sets a minimum of 0 only.
- `equalize_all` (`lib.rs:590`) with an immutable mixture among the others counts its gas in the total and
  leaves it as it is: gas is made or lost. `MovesConserve` is about mutable mixtures.
- `process_turf_hook` says that it returns whether it was interrupted (`processing.rs:21`); it returns
  null.
- `katmos.rs` says planet atmosphere goes before space, and the first flood of a decompression does; but its
  second flood starts from space that was found in another order and may clear planetary
  turfs that a limit or a firelock hid from the first.
- `planet_equalize` stops after its first turf unless that turf is planetary itself: the
  condition that no planet was found yet holds then. The model has it so.
- In the clearing loop of a decompression the adjacency list is built with the turf's own reference, and the
  pressure that is passed on is that of the neighbour.
- `consider_firelocks` is only called for turfs that are new to the flood: a firelock between two turfs
  that were found on other ways is not considered.
- Of two reactions with the same id *and* the same priority the second "will be ignored" (`types.rs:306`), but
  `from_byond_reaction` has put it in the place of the first by then: the requirements of the first decide and the
  second runs. `Reactions` assumes that the ids in a list differ.
- `react_hook` looks at the conditions of all reactions before the first runs. A later one runs even if an earlier one
  has used up what it requires; `citadel.rs:314` says of that case "even though it passed oxidizer check!".
- A gas that is registered again may get another specific heat (`types.rs:250`). Mixtures keep the heat capacity they have
  computed.
- `oxidation_power_hook` (`lib.rs:541`) with a temperature sets that of a clone, and the clone of an immutable mixture
  is immutable: the argument has no effect there.
- `adjust_heat` (`mixture.rs:586`) has no lower bound: taking more heat than there is makes the temperature
  negative, while taking exactly all of it changes nothing, for `set_temperature` refuses 0.
- A shutdown while a tick is under way panics after five seconds if the tick takes longer, and one that comes
  between the message and the tick makes the heat thread unwrap `None` (`superconduct.rs:38`); either
  aborts the program. The properties of `callbacks` allow for it.
- `generic_fire` keeps `GAS_INFO_BY_IDX` locked while it calls DM (`citadel.rs`): a gas that is registered from there waits
  for ever on its own thread.
- The heat thread is spawned on rayon's pool and never returns, which takes one of its workers away; a pool of
  one would never run a parallel pass again.
- The indices of gases are kept by BYOND's number of the string of their id (`CACHED_GAS_IDS`), and nothing keeps that
  string alive.
- `parse_gas_string` clears the mixture and gives up at the first unknown gas, so that a failed call
  leaves a part of the string in the mixture.

## 7 What is not modelled

- *In `Reactions`*: the cache of gas ids by BYOND string, and that a gas that is registered again may get other fire information
  (`types.rs:248-251`): which gases are fuel and oxidizer is constant. `destroy_gas_info_structs` has no caller in the library.
- *Native reactions*: how much they burn and how hot it gets, sequential formulas over floating-point numbers. What
  they leave may be anything in the model.
- *In `Superconduct`*: `rebuild_turf_graph` and `auxtools`, which the file calls and the crate no longer has. The
  file is behind a feature that is off by default and needs small changes to build. `hook_turf_temperature` and other
  readers are only present as turfs that may be locked (`Watched`), and what a removed turf's air does as `Airy`, which
  is fixed.
- *Monstermos and putnamos*: their `mod` lines are commented out, no feature builds them.
- *Parser, SIMD macro, bindings*: pure text processing and code generation. What
  `parse_gas_string` does to a mixture is in `Mixtures`.
- `shut_down_gases`, `shutdown_turfs` of `turfs.rs`, `clean_callbacks`, `flush_groups_channel`,
  `flush_equalize_channel`: no caller.
- *In `Mixtures`*: `set_volume`, the hook of the `zas_hooks` feature.
- *In `TurfGraph`*: the firelock flag of an edge, `_auxtools_turf_infos` of turfs that are not open.
- *In `Decompress`*: a turf that is registered by DM while a callback runs and gets the node index of one that
  was removed; slow decompression (another feature).

## 8 Plan

Order of the modules, the most important behaviour first. All of it is done.

1. `GasArena` over `MixPool`, with its proofs.
2. `Callbacks`, with its proofs.
3. `TurfGraph` over `TurfNet`, with its proofs.
4. `Fdm` over `FdmStencil`.
5. `Mixtures` with temperature and heat, `Visuals` with turfs that lose their air and failures of BYOND.
6. `AirCycle` over `Groups` and `FdmStencil`.
7. `Katmos` over `ZoneFlow`.
8. `Decompress`.
9. `Reactions` with the native functions, and its proofs.
10. `Superconduct` over `Callbacks`, with its proofs.
11. Proofs of `FireFindsReagents`, and of `Mixtures`, `Fdm` and `Decompress`.
12. Proofs for `Visuals`, `AirCycle` and `Katmos`, and of `NearlyConserved` for any gases.

What would be worth adding: an invariant of the searches in `ZoneFlow`, from which `NeverShort` could be proved; `set_volume`; and the heat
of the gas that diffusion and the groups move.
