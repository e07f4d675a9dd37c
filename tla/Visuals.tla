------------------------------- MODULE Visuals -------------------------------
(***************************************************************************)
(* How a turf's overlays follow its gas (src/turfs/processing.rs and        *)
(* src/turfs.rs).  post_process, at the end of every cycle, stores a hash of*)
(* the visible gases of each enabled turf and, when the hash is another than*)
(* the one stored before, sends a callback; if the gas can react it sends   *)
(* another one before that.  BYOND's main thread calls them later, in slices*)
(* of a tick between which its own code and the next cycle change the gas.  *)
(* A callback reads the gas as it is by then, and the hash stays as it was: *)
(* also when the callback fails, or the turf has lost its air by then.      *)
(*                                                                          *)
(* What a gas looks like stands for the gas and for its hash, for which no  *)
(* two looks collide and none is 0.                                         *)
(***************************************************************************)
EXTENDS Integers, Sequences, FiniteSets, SequencesExt

CONSTANTS
    Turfs,
    Looks,          \* what the visible gases of a mixture can be
    Reacting,       \* the looks of gases that can react
    Stripped,       \* turfs the DM code takes the air of
    NoHash,         \* vis_hash is 0: registered since the last post_process
    NoOverlay,      \* the turf has no overlays: not yet, or no longer
    MaxQueue        \* bound of the model: callbacks waiting at a post_process

ASSUME VisualsAssumption ==
    /\ IsFiniteSet(Turfs)
    /\ Reacting \subseteq Looks
    /\ Stripped \subseteq Turfs
    /\ NoHash \notin Looks
    /\ NoOverlay \notin Looks
    /\ MaxQueue \in Nat

VARIABLES
    gas,            \* gas[t]: the look of the gas of turf t
    airless,        \* turfs whose variable air is null
    enabled,        \* the turfs with a simulation flag
    hash,           \* hash[t]: vis_hash of turf t
    queue,          \* the callback channel: pairs of a kind and a turf
    shown,          \* shown[t]: the overlays of turf t
    missed          \* history: turfs whose last update read no gas

visualsVars == <<gas, airless, enabled, hash, queue, shown, missed>>

VisualsInit ==
    /\ gas \in [Turfs -> Looks]
    /\ airless = {}
    /\ enabled = Turfs
    /\ hash = [t \in Turfs |-> NoHash]
    /\ queue = << >>
    /\ shown = [t \in Turfs |-> NoOverlay]
    /\ missed = {}

\* A hook, fdm, the groups or katmos changes the gas of a turf.
ChangeGas(t, look) ==
    /\ look # gas[t]
    /\ gas' = [gas EXCEPT ![t] = look]
    /\ UNCHANGED <<airless, enabled, hash, queue, shown, missed>>

\* DM code takes the air of a turf away or gives it back, before it calls
\* update_air_ref or not at all.
SwitchAir(t) ==
    /\ airless' = SymDiff(airless, {t})
    /\ UNCHANGED <<gas, enabled, hash, queue, shown, missed>>

\* update_air_ref: insert_turf puts a fresh TurfMixture in the place of the old,
\* and remove_turf takes it away.  The hook fails if there is no air to insert.
Register(t, on) ==
    /\ on => t \notin airless
    /\ enabled' = IF on THEN enabled \cup {t} ELSE enabled \ {t}
    /\ hash' = [hash EXCEPT ![t] = NoHash]
    /\ UNCHANGED <<gas, airless, queue, shown, missed>>

\* Mutant: a hash of 0 passes for no hash to compare with.
ChangedOnce(t) == hash[t] # NoHash /\ hash[t] # gas[t]

Changed(t) == hash[t] = NoHash \/ hash[t] # gas[t]

\* Mutant: a turf that is to react is not updated as well.
SentEither(t) ==
    IF gas[t] \in Reacting THEN {<<"react", t>>}
    ELSE IF Changed(t) THEN {<<"vis", t>>} ELSE {}

\* What a worker sends for turf t.
Sent(t) ==
    (IF gas[t] \in Reacting THEN {<<"react", t>>} ELSE {})
    \cup (IF Changed(t) THEN {<<"vis", t>>} ELSE {})

\* The workers send side by side, but for a turf its reaction first.
SentInOrder(sends) ==
    \A i, j \in 1..Len(sends) :
        sends[i][2] = sends[j][2] /\ sends[i][1] = "react" /\ sends[j][1] = "vis" => i < j

\* post_process: the hashes of all enabled turfs are swapped, then workers send.
PostProcess ==
    /\ Len(queue) <= MaxQueue
    /\ \E sends \in SetToSeqs(UNION {Sent(t) : t \in enabled}) :
            SentInOrder(sends) /\ queue' = queue \o sends
    /\ hash' = [t \in Turfs |-> IF t \in enabled THEN gas[t] ELSE hash[t]]
    /\ UNCHANGED <<gas, airless, enabled, shown, missed>>

TakeNext(kind) == queue # << >> /\ Head(queue)[1] = kind /\ queue' = Tail(queue)

\* update_visuals reads the gas of the turf and sets its overlays, or clears them
\* if there is none.  It may fail, for want of overlays or in set_visuals, and
\* does nothing to a turf that has become one without such a variable; nobody
\* tries again.
CallUpdateVisuals(misses) ==
    /\ TakeNext("vis")
    /\ LET t == Head(queue)[2] IN
        /\ missed' = IF misses \/ t \in airless THEN missed \cup {t} ELSE missed \ {t}
        /\ shown' = IF misses THEN shown
                    ELSE [shown EXCEPT ![t] = IF t \in airless THEN NoOverlay ELSE gas[t]]
    /\ UNCHANGED <<gas, airless, enabled, hash>>

\* react_hook: the reactions, looked up for the gas as it is now, make of it
\* what they like, also when one of them fails.  Nothing happens without air.
CallReact ==
    /\ TakeNext("react")
    /\ LET t == Head(queue)[2] IN
        IF t \notin airless /\ gas[t] \in Reacting
          THEN \E look \in Looks : gas' = [gas EXCEPT ![t] = look]
          ELSE UNCHANGED gas
    /\ UNCHANGED <<airless, enabled, hash, shown, missed>>

Call == (\E misses \in BOOLEAN : CallUpdateVisuals(misses)) \/ CallReact

VisualsNext ==
    \/ \E t \in Turfs, look \in Looks : ChangeGas(t, look)
    \/ \E t \in Stripped : SwitchAir(t)
    \/ \E t \in Turfs, on \in BOOLEAN : Register(t, on)
    \/ PostProcess
    \/ Call

\* SSair starts a cycle and drains the callbacks every few ticks.  A cycle that
\* finds a full channel waits in the model only, see MaxQueue.
Fairness == WF_visualsVars(PostProcess) /\ WF_visualsVars(Call)

VisualsSpec == VisualsInit /\ [][VisualsNext]_visualsVars
FairSpec == VisualsSpec /\ Fairness

-----------------------------------------------------------------------------
Pending(t) == <<"vis", t>> \in ToSet(queue)

\* Once post_process has stored a hash for a turf, the turf has overlays or a
\* callback for it is waiting, unless the last one failed or found no air: no
\* order of registrations, cycles and drains stores the first hash and loses the
\* first callback.
FirstLookPending ==
    \A t \in Turfs :
        hash[t] # NoHash /\ shown[t] = NoOverlay => Pending(t) \/ t \in missed

\* A look that differs from the one post_process saw last is shown in the end,
\* unless it changes again, the turf is switched off or loses its air before
\* that, or the callback fails.
NewLookShown ==
    \A t \in Turfs, look \in Looks :
        (gas[t] = look /\ Changed(t) /\ t \in enabled)
            ~> \/ shown[t] = look \/ gas[t] # look
               \/ t \notin enabled \/ t \in airless \/ t \in missed

\* post_process, says its comment, checks if a turf should update its visuals
\* and sends a callback if it should: after it every enabled turf shows its gas
\* or will.  Not meant are turfs without air and those whose last update failed or
\* found none, of which post_process hears nothing.
SentIfItShould ==
    [][PostProcess =>
        \A t \in enabled \ (airless \cup missed) : shown[t] = gas[t] \/ Pending(t)']_visualsVars
=============================================================================
