------------------------------- MODULE ZoneFlow -------------------------------
(***************************************************************************)
(* How katmos decides what moves inside a zone (process_zone and what it    *)
(* calls in src/turfs/katmos.rs): every turf has a surplus or a want against*)
(* the average of the zone, and the flow along the edges that levels them is*)
(* found by searching from each turf of the smaller side.  No gas moves yet.*)
(*                                                                          *)
(* A zone is its nodes, in the order they joined the graph, and for each the*)
(* sequence of the nodes its edges lead to.  Moles are whole numbers.       *)
(***************************************************************************)
EXTENDS Integers, Sequences, FiniteSets, FiniteSetsExt, SequencesExt

CONSTANT NoDir      \* curr_transfer_dir: None

\* FoldLeft, with every value on the way computed once.
Run(op(_, _), base, seq) ==
    LET after[k \in 0..Len(seq)] ==
            IF k = 0 THEN base
            ELSE CHOOSE v \in {op(s, seq[k]) : s \in {after[k - 1]}} : TRUE
    IN  after[Len(seq)]

\* floor(log2(n)) of n > 0
Log2(n) == Max({k \in 0..n : 2^k <= n})

HasEdge(zone, a, b) == b \in ToSet(zone.out[a])

\* adjust_eq_movement: the edges there are, in one direction or both.
Moved(zone, flow, a, b, amount) ==
    [e \in DOMAIN flow |->
        IF e = <<a, b>> /\ HasEdge(zone, a, b) THEN flow[e] + amount
        ELSE IF e = <<b, a>> /\ HasEdge(zone, b, a) THEN flow[e] - amount
        ELSE flow[e]]

\* The nodes' MonstermosInfo and the weights of the edges: delta is mole_delta,
\* sum is curr_transfer_amount.
Fresh(zone, gas, average) ==
    [delta |-> [n \in ToSet(zone.nodes) |-> gas[n] - average],
     sum   |-> [n \in ToSet(zone.nodes) |-> 0],
     dir   |-> [n \in ToSet(zone.nodes) |-> NoDir],
     done  |-> {},
     flow  |-> [e \in ToSet(zone.nodes) \X ToSet(zone.nodes) |-> 0]]

\* monstermos_fast_process of all nodes in turn: a surplus is divided among the
\* neighbours that have not had their turn.
FastProcessed(zone, info) ==
    Run(
        LAMBDA s, n :
            LET eligible == SelectSeq(zone.out[n], LAMBDA a : a \notin s.done \cup {n})
                share    == s.delta[n] \div Len(eligible)
            IN  IF s.delta[n] <= 0 \/ eligible = << >>
                  THEN [s EXCEPT !.done = @ \cup {n}]
                  ELSE Run(
                        LAMBDA r, a :
                            [r EXCEPT !.delta[n] = @ - share, !.delta[a] = @ + share,
                                      !.flow = Moved(zone, @, n, a, share)],
                        [s EXCEPT !.done = @ \cup {n}], eligible),
        info, zone.nodes)

\* Whether a turf has something left to settle: a giver has a positive
\* delta left, a taker a negative one.
Unsettled(delta, kind) == IF kind = "giver" THEN delta > 0 ELSE delta < 0

\* A search from turf n reaches turf a by way of turf cur, and settles as much
\* of the delta of n against that of a as goes.
Settled(s, kind, n, cur, a) ==
    LET r    == [s EXCEPT !.queue = Append(@, a), !.dir[a] = cur, !.sum[a] = 0]
        most == IF kind = "giver" THEN -r.delta[a] > r.delta[n] ELSE r.delta[a] > -r.delta[n]
        amt  == IF most THEN -r.delta[n] ELSE r.delta[a]
    IN  IF r.delta[a] = 0 \/ Unsettled(r.delta[a], kind) THEN r
        ELSE [r EXCEPT !.sum[a] = amt, !.delta[a] = @ - amt, !.delta[n] = @ + amt]

\* So many turns of the while loop over the queue, and in each the neighbours of
\* a node, until nothing is left to settle.
SearchedFor(turns, zone, info, kind, n) ==
    Run(LAMBDA s, k :
            IF k > Len(s.queue) THEN s
            ELSE LET cur == s.queue[k] IN
                 Run(LAMBDA r, a :
                        IF Unsettled(r.delta[n], kind) /\ a \notin ToSet(r.queue)
                        THEN Settled(r, kind, n, cur, a) ELSE r,
                     s, zone.out[cur]),
        [delta |-> info.delta, sum |-> [info.sum EXCEPT ![n] = 0],
         dir |-> [info.dir EXCEPT ![n] = NoDir], flow |-> info.flow, queue |-> <<n>>],
        [k \in 1..turns |-> k])

\* Mutant: only the turfs next to n are searched.
SearchedNear(zone, info, kind, n) == SearchedFor(1, zone, info, kind, n)

\* Every node enters the queue once at most.
Searched(zone, info, kind, n) == SearchedFor(Len(zone.nodes), zone, info, kind, n)

\* A node passes what has come together at it one node back towards n.
PassedBack(zone, s, n) ==
    IF s.sum[n] = 0 \/ s.dir[n] = NoDir THEN s
    ELSE [s EXCEPT !.flow = Moved(zone, @, n, s.dir[n], s.sum[n]),
                   !.sum[s.dir[n]] = @ + s.sum[n],
                   !.sum[n] = 0]

\* The queue is drained from its end.
Drained(zone, s) ==
    Run(LAMBDA r, k : IF k > Len(r.queue) THEN r
                      ELSE PassedBack(zone, r, r.queue[Len(r.queue) + 1 - k]),
        s, [k \in 1..Len(zone.nodes) |-> k])

\* give_to_takers and take_from_givers
Matched(zone, info, kind, turfs) ==
    Run(LAMBDA s, n : Drained(zone, Searched(zone, s, kind, n)), info, turfs)

Givers(zone, info) == SelectSeq(zone.nodes, LAMBDA n : info.delta[n] > 0)
Takers(zone, info) == SelectSeq(zone.nodes, LAMBDA n : info.delta[n] <= 0)

\* process_zone, up to the choice of a side: large zones are processed fast first.
Prepared(zone, gas, average) ==
    LET start == Fresh(zone, gas, average)
        most  == Log2(Len(zone.nodes))
    IN  IF Len(Givers(zone, start)) > most /\ Len(Takers(zone, start)) > most
          THEN FastProcessed(zone, start) ELSE start

\* process_zone, the rest: the flow that levels the zone.
ZoneFlow(zone, info) ==
    LET gs == Givers(zone, info)
        ts == Takers(zone, info)
    IN  IF Len(gs) < Len(ts) THEN Matched(zone, info, "giver", gs).flow
                             ELSE Matched(zone, info, "taker", ts).flow
=============================================================================
