-------------------------------- MODULE Groups --------------------------------
(***************************************************************************)
(* Excited groups (src/turfs/groups.rs): the turfs fdm found to differ by   *)
(* little are gathered into groups by a flood fill that takes in every turf *)
(* whose pressure keeps the spread of the group below a goal, and the group *)
(* is given its average.  One lock on the arena covers a group, from its    *)
(* flood fill to the last write.                                            *)
(*                                                                          *)
(* The moles of one gas stand for the mixture and for its pressure, and the *)
(* average is rounded down to a whole number of them.                       *)
(***************************************************************************)
EXTENDS TurfAir, FiniteSets, FiniteSetsExt, Functions

CONSTANTS
    Adjacent,   \* Adjacent[t]: the turfs next to turf t, in the order of its edges
    Immutable,  \* turfs whose mixture is immutable
    Goal,       \* excited_group_pressure_goal
    MaxGroup    \* turfs of a group, after which the flood fill stops (2500)

ASSUME GroupsAssumption ==
    /\ Turfs \subseteq Nat
    /\ IsFiniteSet(Turfs)
    /\ Adjacent \in [Turfs -> Seq(Turfs)]
    /\ Immutable \subseteq Turfs
    /\ Goal \in Nat
    /\ MaxGroup \in Nat \ {0}

\* Mutant: a turf is compared with the least pressure only.
StretchedAbove(group, p) == [min |-> Min({group.min, p}), max |-> p]

\* The pressures of a group with one more turf.
Stretched(group, p) == [min |-> Min({group.min, p}), max |-> Max({group.max, p})]

\* The turf at the head of the border joins the group, and its neighbours the
\* border, unless it would stretch the group too far.  A turf counts as found
\* when it joins the border.
Visit(group, moles, known, enabled) ==
    LET t     == Head(group.border)
        span  == Stretched(group, moles[t])
        fresh == Among(Adjacent[t], known \ group.found)
    IN  IF span.max - span.min >= Goal
          THEN [group EXCEPT !.border = Tail(@)]
          ELSE [group EXCEPT
                !.border = Tail(@) \o Among(fresh, enabled),
                !.found = @ \cup ToSet(fresh),
                !.members = @ \cup {t},
                !.min = span.min,
                !.max = span.max]

\* The flood fill from turf t, when the turfs in found have been found before:
\* no turf enters the border twice, so there are no more turns than turfs.
GroupOf(t, moles, known, enabled, found) ==
    FoldLeft(
        LAMBDA group, k :
            IF group.border = << >> \/ Cardinality(group.members) >= MaxGroup THEN group
            ELSE Visit(group, moles, known, enabled),
        [border |-> <<t>>, found |-> found \cup {t}, members |-> {},
         min |-> moles[t], max |-> moles[t]],
        [k \in 1..Cardinality(Turfs) |-> k])

\* Mutant: the mark of an immutable mixture is overlooked.
AveragedAll(moles, members) ==
    LET total == SumFunctionOnSet(moles, members)
    IN  [t \in Turfs |->
            IF t \in members THEN total \div Cardinality(members) ELSE moles[t]]

\* Mutant: the empty mixture the others are merged into is counted as well.
AveragedOneMore(moles, members) ==
    LET total == SumFunctionOnSet(moles, members)
    IN  [t \in Turfs |->
            IF t \in members \ Immutable THEN total \div (Cardinality(members) + 1) ELSE moles[t]]

\* Every mutable member becomes a copy of the mix of all members, immutable
\* ones included.
Averaged(moles, members) ==
    LET total == SumFunctionOnSet(moles, members)
    IN  [t \in Turfs |->
            IF t \in members \ Immutable THEN total \div Cardinality(members) ELSE moles[t]]
=============================================================================
