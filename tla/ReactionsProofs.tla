--------------------------- MODULE ReactionsProofs ---------------------------
(***************************************************************************)
(* Proofs about Reactions: a hook runs the datums whose requirements it has *)
(* checked, what is kept of a reaction is current, and none is dropped      *)
(* silently, for any number of gases, reactions and calls inside each other.*)
(***************************************************************************)
EXTENDS Reactions, InductionLemmas, FiniteSetTheorems, SequenceTheorems, TLAPS

-----------------------------------------------------------------------------
(***************************************************************************)
(* Sequences as stacks.                                                     *)
(***************************************************************************)
LEMMA Pushed ==
    ASSUME NEW S, NEW f \in S, NEW s \in Seq(S)
    PROVE  /\ <<f>> \o s \in Seq(S)
           /\ Len(<<f>> \o s) = Len(s) + 1
           /\ (<<f>> \o s)[1] = f
           /\ \A k \in 2..(Len(s) + 1) : (<<f>> \o s)[k] = s[k - 1]
<1>1. <<f>> \in Seq(S) /\ Len(<<f>>) = 1 /\ <<f>>[1] = f
  OBVIOUS
<1>2. Len(s) \in Nat
  BY LenProperties
<1>3. /\ <<f>> \o s \in Seq(S)
      /\ Len(<<f>> \o s) = Len(<<f>>) + Len(s)
      /\ \A i \in 1..(Len(<<f>>) + Len(s)) :
            (<<f>> \o s)[i] = IF i <= Len(<<f>>) THEN <<f>>[i] ELSE s[i - Len(<<f>>)]
  BY <1>1, ConcatProperties, Zenon
<1> DEFINE t == <<f>> \o s
           one == <<f>>
<1> HIDE DEF t, one
<1>4. /\ t \in Seq(S) /\ Len(t) = 1 + Len(s) /\ one[1] = f
      /\ \A i \in 1..(1 + Len(s)) : t[i] = IF i <= 1 THEN one[i] ELSE s[i - 1]
  BY <1>1, <1>3, Zenon DEF t, one
<1>5. t \in Seq(S) /\ Len(t) = Len(s) + 1 /\ t[1] = f
  BY <1>2, <1>4
<1>6. \A k \in 2..(Len(s) + 1) : t[k] = s[k - 1]
  BY <1>2, <1>4
<1> QED
  BY <1>5, <1>6, Zenon DEF t

LEMMA Popped ==
    ASSUME NEW S, NEW s \in Seq(S), s # << >>
    PROVE  /\ Tail(s) \in Seq(S)
           /\ Len(s) \in Nat \ {0}
           /\ Len(Tail(s)) = Len(s) - 1
           /\ Head(s) = s[1] /\ s[1] \in S
           /\ \A k \in 1..(Len(s) - 1) : Tail(s)[k] = s[k + 1]
<1>1. Len(s) \in Nat \ {0}
  BY EmptySeq, LenProperties
<1>2. s[1] \in S
  BY <1>1, ElementOfSeq
<1>3. Head(s) = s[1] /\ Tail(s) \in Seq(S) /\ Len(Tail(s)) = Len(s) - 1
  BY HeadTailProperties, <1>1
<1>4. \A k \in 1..(Len(s) - 1) : Tail(s)[k] = s[k + 1]
  BY HeadTailProperties, <1>1, <1>3
<1> QED
  BY <1>1, <1>2, <1>3, <1>4

-----------------------------------------------------------------------------
(***************************************************************************)
(* Reading the list of reactions.                                           *)
(***************************************************************************)
Entries ==
    {r \in [datum : Datums, id : Ids, need : SUBSET Int, warm : SUBSET BOOLEAN,
            energy : BOOLEAN, fire : BOOLEAN] : r.fire = (r.datum \in OnFire)}

\* What the calls of react_hook rest on in the two tables of reactions.
TablesMatch ==
    /\ list \in Lists
    /\ values \in [Ids -> Datums \cup {NoDatum}]
    /\ IsFiniteSet(DOMAIN info)
    /\ \A p \in DOMAIN info : info[p] \in Entries /\ values[info[p].id] = info[p].datum

\* A list that may be read is a sequence of datums with an id each.
LEMMA ListFacts ==
    ASSUME ReactionsAssumption, list \in Lists
    PROVE  /\ Len(list) \in Nat
           /\ \A k \in 1..Len(list) : list[k] \in Datums /\ Id[list[k]] \in Ids
           /\ \A j, k \in 1..Len(list) : Id[list[j]] = Id[list[k]] => j = k
<1>1. list \in Seq(Datums)
  BY DEF ReactionsAssumption
<1>2. Len(list) \in Nat /\ \A k \in 1..Len(list) : list[k] \in Datums
  BY <1>1, LenProperties, ElementOfSeq
<1>3. \A k \in 1..Len(list) : Id[list[k]] \in Ids
  BY <1>2 DEF Ids
<1> QED
  BY <1>2, <1>3 DEF ReactionsAssumption

\* Two taken reactions have different priorities, and each is known under its own.
LEMMA TakenFacts ==
    ASSUME ReactionsAssumption, list \in Lists, NEW gs, Load(gs)
    PROVE  /\ DOMAIN info' = {Priority[list[k]] : k \in Taken}
           /\ \A k \in Taken : info'[Priority[list[k]]] = Known(list[k], gs)
<1>1. DOMAIN info' = {Priority[list[k]] : k \in Taken}
  BY DEF Load
<1>2. ASSUME NEW k \in Taken PROVE info'[Priority[list[k]]] = Known(list[k], gs)
  <2> DEFINE p == Priority[list[k]]
             c == CHOOSE j \in Taken : Priority[list[j]] = p
  <2>1. c \in Taken /\ Priority[list[c]] = p
    OBVIOUS
  <2>2. k \in Readable /\ c \in Readable /\ ~Duplicate(k) /\ ~Duplicate(c)
    BY <2>1 DEF Taken
  <2>3. k \in Nat /\ c \in Nat
    BY <2>2, ListFacts DEF Readable
  <2>4. ~(c < k) /\ ~(k < c)
    BY <2>1, <2>2 DEF Duplicate
  <2>5. c = k
    BY <2>3, <2>4
  <2>6. info'[p] = Known(list[c], gs)
    BY DEF Load
  <2> QED
    BY <2>5, <2>6
<1> QED
  BY <1>1, <1>2

LEMMA LoadKeepsTables ==
    ASSUME ReactionsAssumption, TablesMatch, NEW gs, Load(gs), list' = list
    PROVE  TablesMatch'
<1>1. list \in Lists /\ values \in [Ids -> Datums \cup {NoDatum}]
  BY DEF TablesMatch
<1>2. Readable \subseteq 1..Len(list) /\ Taken \subseteq Readable
  BY DEF Readable, Taken
<1>3. values' \in [Ids -> Datums \cup {NoDatum}]
  <2>1. ASSUME NEW i \in Ids
        PROVE  (IF \E k \in Readable : Id[list[k]] = i
                THEN list[CHOOSE k \in Readable : Id[list[k]] = i] ELSE values[i])
                    \in Datums \cup {NoDatum}
    <3>1. CASE \E k \in Readable : Id[list[k]] = i
      <4>1. (CHOOSE k \in Readable : Id[list[k]] = i) \in Readable
        BY <3>1
      <4> QED
        BY <3>1, <4>1, <1>1, <1>2, ListFacts
    <3>2. CASE ~\E k \in Readable : Id[list[k]] = i
      BY <3>2, <1>1
    <3> QED
      BY <3>1, <3>2
  <2> QED
    BY <2>1 DEF Load
<1>4. IsFiniteSet(DOMAIN info')
  <2>1. IsFiniteSet(1..Len(list))
    BY <1>1, ListFacts, FS_Interval
  <2>2. IsFiniteSet(Taken)
    BY <2>1, <1>2, FS_Subset
  <2> DEFINE f == [k \in Taken |-> Priority[list[k]]]
  <2>3. f \in Surjection(Taken, {Priority[list[k]] : k \in Taken})
    BY DEF Surjection
  <2>4. IsFiniteSet({Priority[list[k]] : k \in Taken})
    BY <2>2, <2>3, FS_Surjection
  <2> QED
    BY <2>4 DEF Load
<1>5. ASSUME NEW p \in DOMAIN info'
      PROVE  info'[p] \in Entries /\ values'[info'[p].id] = info'[p].datum
  <2>1. PICK k \in Taken : p = Priority[list[k]]
    BY DEF Load
  <2> DEFINE d == list[k]
  <2>2. info'[p] = [datum |-> d, id |-> Id[d], need |-> Required(d, gs),
                    warm |-> Warm[d], energy |-> d \in Energetic, fire |-> d \in OnFire]
    BY <2>1, <1>1, TakenFacts DEF Known
  <2>3. k \in Readable /\ d \in Datums /\ Id[d] \in Ids
    BY <1>1, <1>2, ListFacts
  <2>4. /\ Required(d, gs) \in SUBSET Int
        /\ Warm[d] \in SUBSET BOOLEAN /\ (d \in OnFire) \in BOOLEAN
    BY <2>3 DEF Required, ReactionsAssumption
  <2>5. values'[Id[d]] = d
    <3> DEFINE c == CHOOSE j \in Readable : Id[list[j]] = Id[d]
    <3>1. c \in Readable /\ Id[list[c]] = Id[d]
      BY <2>3
    <3>2. c = k
      BY <3>1, <2>3, <1>1, <1>2, ListFacts
    <3>3. values'[Id[d]] = list[c]
      BY <2>3 DEF Load
    <3> QED
      BY <3>2, <3>3
  <2> QED
    BY <2>2, <2>3, <2>4, <2>5 DEF Entries
<1> QED
  BY <1>1, <1>3, <1>4, <1>5 DEF TablesMatch

\* The map is not borrowed when it is changed: nothing waits for its values.
LEMMA LoadKeepsValues ==
    ASSUME TablesMatch, NEW gs, Load(gs), DMRuns,
           stack # << >> => Len(stack) \in Nat \ {0} /\ Head(stack) = stack[1]
    PROVE  stack = << >> \/ values' = values
<1>1. CASE Readable = {}
  <2>1. values \in [Ids -> Datums \cup {NoDatum}]
    BY DEF TablesMatch
  <2>2. values' = [i \in Ids |-> values[i]]
    BY <1>1 DEF Load
  <2> QED
    BY <2>1, <2>2
<1>2. CASE ~Borrowed
  <2>1. SUFFICES ASSUME stack # << >> PROVE FALSE
    OBVIOUS
  <2>2. 1 \in 1..Len(stack) /\ stack[1].running # NoDatum
    BY <2>1 DEF DMRuns
  <2> QED
    BY <2>2, <1>2 DEF Borrowed
<1> QED
  BY <1>1, <1>2 DEF Load

-----------------------------------------------------------------------------
(***************************************************************************)
(* The calls of react_hook that are under way.                              *)
(***************************************************************************)
Frames ==
    [mix : Mixes, pending : Seq(Entries), running : Datums \cup {NoDatum},
     at : {"dm", "native", "analyze", "write"}]

\* A hook between two reactions has one left, and those left are in the map,
\* which is vals.
Good(vals, f) ==
    /\ f.running = NoDatum => f.pending # << >>
    /\ \A j \in 1..Len(f.pending) : vals[f.pending[j].id] = f.pending[j].datum

\* Only the innermost hook can be between two reactions.
CallsMatch ==
    /\ stack \in Seq(Frames)
    /\ \A k \in 1..Len(stack) : Good(values, stack[k])
    /\ \A k \in 2..Len(stack) : stack[k].running # NoDatum

LEMMA CallsStay ==
    ASSUME CallsMatch, stack = << >> \/ values' = values, stack' = stack
    PROVE  CallsMatch'
<1>1. CASE stack = << >>
  <2>1. Len(stack) = 0
    BY <1>1, EmptySeq
  <2> QED
    BY <2>1 DEF CallsMatch
<1>2. CASE values' = values
  BY <1>2 DEF CallsMatch
<1> QED
  BY <1>1, <1>2

LEMMA CallPopped ==
    ASSUME CallsMatch, values' = values, stack # << >>, stack' = Tail(stack)
    PROVE  CallsMatch'
<1>1. stack \in Seq(Frames)
  BY DEF CallsMatch
<1>2. /\ stack' \in Seq(Frames)
      /\ Len(stack) \in Nat \ {0}
      /\ Len(stack') = Len(stack) - 1
      /\ \A k \in 1..(Len(stack) - 1) : stack'[k] = stack[k + 1]
  BY <1>1, Popped
<1>3. \A k \in 1..Len(stack') :
        stack'[k] = stack[k + 1] /\ k + 1 \in 2..Len(stack) /\ k + 1 \in 1..Len(stack)
  BY <1>2
<1>4. \A k \in 2..Len(stack') : k \in 1..Len(stack')
  BY <1>2
<1>5. \A k \in 1..Len(stack') : Good(values, stack[k + 1]) /\ stack'[k].running # NoDatum
  BY <1>3 DEF CallsMatch
<1>6. \A k \in 1..Len(stack') : Good(values, stack'[k])
  BY <1>3, <1>5
<1> QED
  BY <1>2, <1>4, <1>5, <1>6 DEF CallsMatch

LEMMA CallPushed ==
    ASSUME CallsMatch, values' = values, NEW f \in Frames, Good(values, f),
           stack # << >> => Head(stack).running # NoDatum, stack' = <<f>> \o stack
    PROVE  CallsMatch'
<1>1. stack \in Seq(Frames) /\ Len(stack) \in Nat
  BY LenProperties DEF CallsMatch
<1>2. /\ stack' \in Seq(Frames)
      /\ Len(stack') = Len(stack) + 1
      /\ stack'[1] = f
      /\ \A k \in 2..(Len(stack) + 1) : stack'[k] = stack[k - 1]
  BY <1>1, Pushed
<1>3. ASSUME NEW k \in 1..Len(stack), stack[k].running = NoDatum PROVE FALSE
  <2>1. k = 1
    BY <1>1, <1>3 DEF CallsMatch
  <2>2. stack # << >> /\ Head(stack) = stack[1]
    BY <1>1, <2>1, EmptySeq, Popped
  <2> QED
    BY <1>3, <2>1, <2>2
<1>4. \A k \in 2..Len(stack') : stack'[k] = stack[k - 1] /\ k - 1 \in 1..Len(stack)
  BY <1>1, <1>2
<1>5. \A k \in 2..Len(stack') : stack'[k].running # NoDatum /\ Good(values, stack[k - 1])
  BY <1>3, <1>4 DEF CallsMatch
<1>6. ASSUME NEW k \in 1..Len(stack') PROVE Good(values, stack'[k])
  <2>1. CASE k = 1
    BY <1>2, <2>1
  <2>2. CASE k # 1
    <3>1. k \in 2..Len(stack')
      BY <1>1, <1>2, <2>2
    <3> QED
      BY <1>4, <1>5, <3>1
  <2> QED
    BY <2>1, <2>2
<1> QED
  BY <1>2, <1>5, <1>6 DEF CallsMatch

\* Instead of the innermost call there is f.
LEMMA CallReplaced ==
    ASSUME CallsMatch, values' = values, NEW f \in Frames, Good(values, f),
           stack # << >>, stack' = <<f>> \o Tail(stack)
    PROVE  CallsMatch'
<1>1. stack \in Seq(Frames)
  BY DEF CallsMatch
<1>2. /\ Tail(stack) \in Seq(Frames)
      /\ Len(stack) \in Nat \ {0}
      /\ Len(Tail(stack)) = Len(stack) - 1
      /\ \A k \in 1..(Len(stack) - 1) : Tail(stack)[k] = stack[k + 1]
  BY <1>1, Popped
<1>3. /\ stack' \in Seq(Frames)
      /\ Len(stack') = Len(Tail(stack)) + 1
      /\ stack'[1] = f
      /\ \A k \in 2..(Len(Tail(stack)) + 1) : stack'[k] = Tail(stack)[k - 1]
  BY <1>2, Pushed
<1>4. Len(stack') = Len(stack)
  BY <1>2, <1>3
<1>5. ASSUME NEW k \in 2..Len(stack) PROVE stack'[k] = stack[k]
  <2>1. k \in 2..(Len(Tail(stack)) + 1) /\ k - 1 \in 1..(Len(stack) - 1) /\ (k - 1) + 1 = k
    BY <1>2
  <2>2. stack'[k] = Tail(stack)[k - 1]
    BY <1>3, <2>1
  <2>3. Tail(stack)[k - 1] = stack[(k - 1) + 1]
    BY <1>2, <2>1
  <2> QED
    BY <2>1, <2>2, <2>3
<1>6. ASSUME NEW k \in 1..Len(stack) PROVE Good(values, stack'[k])
  <2>1. CASE k = 1
    BY <1>3, <2>1
  <2>2. CASE k # 1
    <3>1. k \in 2..Len(stack)
      BY <1>2, <2>2
    <3> QED
      BY <1>5, <3>1 DEF CallsMatch
  <2> QED
    BY <2>1, <2>2
<1>7. \A k \in 2..Len(stack) : stack'[k].running # NoDatum
  BY <1>5 DEF CallsMatch
<1> QED
  BY <1>3, <1>4, <1>6, <1>7 DEF CallsMatch

-----------------------------------------------------------------------------
(***************************************************************************)
(* Every step keeps both.                                                   *)
(***************************************************************************)
Inv == TablesMatch /\ CallsMatch

\* What all_reactable returns is in the map.
LEMMA ReactableFacts ==
    ASSUME TablesMatch, NEW m \in Mixes, NEW found \in AllReactable(m)
    PROVE  /\ found \in Seq(Entries)
           /\ \A j \in 1..Len(found) : values[found[j].id] = found[j].datum
<1> DEFINE ps == {p \in DOMAIN info : Matches(info[p], m)}
           n == Cardinality(ps)
<1>1. IsFiniteSet(ps)
  BY FS_Subset DEF TablesMatch
<1>2. n \in Nat
  BY <1>1, FS_CardinalityType
<1>3. ps \subseteq DOMAIN info
  OBVIOUS
<1>4. PICK o \in [1..n -> ps] : found = [k \in 1..n |-> info[o[k]]]
  BY DEF AllReactable
<1> HIDE DEF n, ps
<1>5. \A k \in 1..n : o[k] \in DOMAIN info
  BY <1>3, <1>4
<1>6. \A k \in 1..n : found[k] \in Entries /\ values[found[k].id] = found[k].datum
  BY <1>4, <1>5 DEF TablesMatch
<1>7. found \in [1..n -> Entries]
  BY <1>4, <1>6
<1>8. found \in Seq(Entries) /\ Len(found) = n
  BY <1>2, <1>7
<1> QED
  BY <1>6, <1>8

LEMMA InitInv ==
    ASSUME ReactionsAssumption, Init
    PROVE  Inv
<1>1. IsFiniteSet(DOMAIN info) /\ DOMAIN info = {}
  BY FS_EmptySet DEF Init
<1>2. TablesMatch
  BY <1>1 DEF Init, TablesMatch
<1>3. stack \in Seq(Frames) /\ Len(stack) = 0
  BY DEF Init
<1>4. CallsMatch
  BY <1>3 DEF CallsMatch
<1> QED
  BY <1>2, <1>4 DEF Inv

\* A step that leaves the tables of reactions and the calls alone.
LEMMA NothingRead ==
    ASSUME Inv, list' \in Lists, UNCHANGED <<info, values, stack>>
    PROVE  Inv'
BY DEF Inv, TablesMatch, CallsMatch

\* A step that reads the reactions.
LEMMA LoadKeepsInv ==
    ASSUME ReactionsAssumption, Inv, NEW gs, Load(gs), DMRuns, list' = list, stack' = stack
    PROVE  Inv'
<1>1. TablesMatch'
  BY LoadKeepsTables DEF Inv
<1>2. stack # << >> => Len(stack) \in Nat \ {0} /\ Head(stack) = stack[1]
  BY Popped DEF Inv, CallsMatch
<1>3. stack = << >> \/ values' = values
  BY <1>2, LoadKeepsValues DEF Inv
<1>4. CallsMatch'
  BY <1>3, CallsStay DEF Inv
<1> QED
  BY <1>1, <1>4 DEF Inv

LEMMA ReactKeepsInv ==
    ASSUME Inv, NEW m \in Mixes, React(m)
    PROVE  Inv'
<1>1. list \in Lists
  BY DEF Inv, TablesMatch
<1>2. CASE Panic
  BY <1>1, <1>2, NothingRead DEF Panic, reactions
<1>3. ASSUME NEW found \in AllReactable(m) \ {<< >>},
             stack' = << [mix |-> m, pending |-> found, running |-> NoDatum, at |-> "dm"] >>
                        \o stack,
             UNCHANGED <<reactions, list>>
      PROVE  Inv'
  <2> DEFINE f == [mix |-> m, pending |-> found, running |-> NoDatum, at |-> "dm"]
  <2>1. /\ found \in Seq(Entries)
        /\ \A j \in 1..Len(found) : values[found[j].id] = found[j].datum
    BY ReactableFacts DEF Inv
  <2>2. f \in Frames /\ Good(values, f)
    BY <2>1 DEF Frames, Good
  <2>3. values' = values /\ TablesMatch'
    BY <1>3 DEF Inv, TablesMatch, reactions
  <2>4. stack # << >> => Head(stack).running # NoDatum
    BY DEF React, DMRuns
  <2> HIDE DEF f
  <2>5. stack' = <<f>> \o stack
    BY <1>3 DEF f
  <2>6. CallsMatch'
    BY <2>2, <2>3, <2>4, <2>5, CallPushed DEF Inv
  <2> QED
    BY <2>3, <2>6 DEF Inv
<1> QED
  BY <1>2, <1>3 DEF React

LEMMA ReactNextKeepsInv ==
    ASSUME Inv, ReactNext
    PROVE  Inv'
<1>1. stack \in Seq(Frames) /\ stack # << >>
  BY DEF Inv, CallsMatch, ReactNext
<1> DEFINE top == stack[1]
           datum == values[Head(top.pending).id]
<1>2. Head(stack) = top /\ top \in Frames /\ 1 \in 1..Len(stack)
  BY <1>1, Popped
<1>3. Good(values, top) /\ top.running = NoDatum
  BY <1>2 DEF Inv, CallsMatch, ReactNext
<1>4. values' = values /\ TablesMatch'
  BY DEF Inv, TablesMatch, ReactNext, GoesOnAs, HookReturns, reactions
<1>5. top.pending \in Seq(Entries) /\ top.pending # << >>
  BY <1>2, <1>3 DEF Frames, Good
<1>6. /\ Tail(top.pending) \in Seq(Entries)
      /\ Len(top.pending) \in Nat \ {0}
      /\ Len(Tail(top.pending)) = Len(top.pending) - 1
      /\ Head(top.pending) \in Entries
      /\ \A j \in 1..(Len(top.pending) - 1) : Tail(top.pending)[j] = top.pending[j + 1]
  BY <1>5, Popped
<1>7. CASE datum = NoDatum
  <2>1. stack' = Tail(stack)
    BY <1>2, <1>7 DEF ReactNext, HookReturns
  <2>2. CallsMatch'
    BY <1>1, <1>4, <2>1, CallPopped DEF Inv
  <2> QED
    BY <1>4, <2>2 DEF Inv
<1>8. CASE datum # NoDatum
  <2> DEFINE place == IF Id[datum] \in Native THEN "native" ELSE "dm"
             f == [top EXCEPT !.pending = Tail(top.pending), !.running = datum, !.at = place]
  <2>1. datum \in Datums \cup {NoDatum}
    BY <1>6 DEF Inv, TablesMatch, Entries
  <2>2. /\ f \in Frames
        /\ f.pending = Tail(top.pending) /\ f.running = datum
    BY <1>2, <1>6, <2>1 DEF Frames
  <2>3. ASSUME NEW j \in 1..Len(f.pending)
        PROVE  values[f.pending[j].id] = f.pending[j].datum
    <3>1. j \in 1..(Len(top.pending) - 1) /\ j + 1 \in 1..Len(top.pending)
      BY <1>6, <2>2
    <3>2. f.pending[j] = top.pending[j + 1]
      BY <1>6, <2>2, <3>1
    <3>3. values[top.pending[j + 1].id] = top.pending[j + 1].datum
      BY <1>3, <3>1 DEF Good
    <3> QED
      BY <3>2, <3>3
  <2>4. Good(values, f)
    BY <1>8, <2>2, <2>3 DEF Good
  <2>5. stack' = <<f>> \o Tail(stack)
    BY <1>2, <1>8 DEF ReactNext, GoesOnAs
  <2> HIDE DEF f
  <2>6. CallsMatch'
    BY <1>1, <1>4, <2>2, <2>4, <2>5, CallReplaced DEF Inv
  <2> QED
    BY <1>4, <2>6 DEF Inv
<1> QED
  BY <1>7, <1>8

\* The innermost hook returns, or goes on elsewhere, perhaps to its next reaction.
LEMMA TopKeepsInv ==
    ASSUME Inv, stack # << >>, UNCHANGED <<reactions, list>>,
           NEW place \in {"dm", "native", "analyze", "write"},
           \/ stack' = Tail(stack)
           \/ stack' = << [Head(stack) EXCEPT !.at = place] >> \o Tail(stack)
           \/ /\ Head(stack).pending # << >>
              /\ stack' = << [Head(stack) EXCEPT !.running = NoDatum, !.at = place] >>
                            \o Tail(stack)
    PROVE  Inv'
<1>1. stack \in Seq(Frames)
  BY DEF Inv, CallsMatch
<1> DEFINE top == stack[1]
           moved == [top EXCEPT !.at = place]
           next  == [top EXCEPT !.running = NoDatum, !.at = place]
<1>2. Head(stack) = top /\ top \in Frames /\ 1 \in 1..Len(stack)
  BY <1>1, Popped
<1>3. values' = values /\ TablesMatch'
  BY DEF Inv, TablesMatch, reactions
<1>4. Good(values, top)
  BY <1>2 DEF Inv, CallsMatch
<1>5. moved \in Frames /\ Good(values, moved)
  <2>1. moved \in Frames /\ moved.pending = top.pending /\ moved.running = top.running
    BY <1>2 DEF Frames
  <2> QED
    BY <1>4, <2>1 DEF Good
<1>6. ASSUME top.pending # << >> PROVE next \in Frames /\ Good(values, next)
  <2>1. next \in Frames /\ next.pending = top.pending
    BY <1>2 DEF Frames
  <2> QED
    BY <1>4, <1>6, <2>1 DEF Good
<1>7. CASE stack' = Tail(stack)
  <2>1. CallsMatch'
    BY <1>3, <1>7, CallPopped DEF Inv
  <2> QED
    BY <1>3, <2>1 DEF Inv
<1>8. CASE stack' = << [Head(stack) EXCEPT !.at = place] >> \o Tail(stack)
  <2>1. stack' = <<moved>> \o Tail(stack)
    BY <1>2, <1>8
  <2> HIDE DEF moved
  <2>2. CallsMatch'
    BY <1>3, <1>5, <2>1, CallReplaced DEF Inv
  <2> QED
    BY <1>3, <2>2 DEF Inv
<1>9. CASE /\ Head(stack).pending # << >>
           /\ stack' = << [Head(stack) EXCEPT !.running = NoDatum, !.at = place] >> \o Tail(stack)
  <2>1. stack' = <<next>> \o Tail(stack) /\ next \in Frames /\ Good(values, next)
    BY <1>2, <1>6, <1>9
  <2> HIDE DEF next
  <2>2. CallsMatch'
    BY <1>3, <2>1, CallReplaced DEF Inv
  <2> QED
    BY <1>3, <2>2 DEF Inv
<1> QED
  BY <1>7, <1>8, <1>9

LEMMA ReturnedKeepsInv ==
    ASSUME Inv, Returned
    PROVE  Inv'
<1> DEFINE top == Head(stack)
<1>1. stack # << >> /\ UNCHANGED <<reactions, list>>
  BY DEF Returned, GoesOnAs, HookReturns
<1>2. CASE top.at = "analyze" /\ stack' = << [top EXCEPT !.at = "write"] >> \o Tail(stack)
  BY <1>1, <1>2, TopKeepsInv
<1>3. CASE /\ top.at = "dm" /\ top.pending # << >>
           /\ stack' = << [top EXCEPT !.running = NoDatum] >> \o Tail(stack)
  <2>1. top \in Frames
    BY <1>1, Popped DEF Inv, CallsMatch
  <2>2. [top EXCEPT !.running = NoDatum] = [top EXCEPT !.running = NoDatum, !.at = "dm"]
    BY <1>3, <2>1 DEF Frames
  <2> QED
    BY <1>1, <1>3, <2>2, TopKeepsInv
<1>4. CASE stack' = Tail(stack)
  BY <1>1, <1>4, TopKeepsInv
<1> QED
  BY <1>2, <1>3, <1>4 DEF Returned, GoesOnAs, HookReturns

LEMMA FunctionKeepsInv ==
    ASSUME Inv, FunctionFails \/ Analyze \/ Burn
    PROVE  Inv'
<1>1. stack # << >> /\ UNCHANGED <<reactions, list>>
  BY DEF FunctionFails, Analyze, Burn, InFunction, GoesOnAs, HookReturns
<1>2. CASE FunctionFails
  BY <1>1, <1>2, TopKeepsInv DEF FunctionFails, HookReturns
<1>3. CASE Analyze
  BY <1>1, <1>3, TopKeepsInv DEF Analyze, GoesOnAs
<1>4. CASE Burn
  BY <1>1, <1>4, TopKeepsInv DEF Burn, GoesOnAs, HookReturns
<1> QED
  BY <1>2, <1>3, <1>4

LEMMA StepInv ==
    ASSUME ReactionsAssumption, Inv, [Next]_vars
    PROVE  Inv'
<1>1. list \in Lists
  BY DEF Inv, TablesMatch
<1>3. ASSUME Panic PROVE Inv'
  BY <1>1, <1>3, NothingRead DEF Panic, reactions
<1>2. ASSUME NEW g \in GasIds, RegisterGas(g) PROVE Inv'
  BY <1>1, <1>2, <1>3, NothingRead DEF RegisterGas, reactions
<1>4. ASSUME NEW gs \in Inits, HookInit(gs) PROVE Inv'
  <2>1. CASE UNCHANGED <<reactions, list, stack>>
    BY <1>1, <2>1, NothingRead DEF reactions
  <2>2. CASE Load(gases') /\ UNCHANGED <<list, stack>>
    <3>1. PICK new : new = gases'
      OBVIOUS
    <3>2. Load(new)
      BY <2>2, <3>1
    <3> QED
      BY <1>4, <2>2, <3>2, LoadKeepsInv DEF HookInit
  <2> QED
    BY <1>3, <1>4, <2>1, <2>2 DEF HookInit
<1>5. ASSUME UpdateReactions PROVE Inv'
  BY <1>3, <1>5, LoadKeepsInv DEF UpdateReactions
<1>6. ASSUME NEW m \in Mixes, React(m) PROVE Inv'
  BY <1>6, ReactKeepsInv
<1>7. ASSUME NEW m \in Mixes, ChangeMix(m) PROVE Inv'
  BY <1>1, <1>7, NothingRead DEF ChangeMix, reactions
<1>8. CASE ReactNext
  BY <1>8, ReactNextKeepsInv
<1>9. CASE Returned
  BY <1>9, ReturnedKeepsInv
<1>12. CASE FunctionFails \/ Analyze \/ Burn
  BY <1>12, FunctionKeepsInv
<1>13. CASE FinalizeGasRefs
  BY <1>3, <1>13 DEF FinalizeGasRefs
<1>10. CASE SetList
  BY <1>10, NothingRead DEF SetList, reactions
<1>11. CASE UNCHANGED vars
  BY <1>1, <1>11, NothingRead DEF vars, reactions
<1> QED
  BY <1>2, <1>4, <1>5, <1>6, <1>7, <1>8, <1>9, <1>10, <1>11, <1>12, <1>13
  DEF Next

-----------------------------------------------------------------------------
(***************************************************************************)
(* The theorems.                                                            *)
(***************************************************************************)

\* The tables of reactions and the calls under way belong together in every
\* state (REACTION_INFO, REACTION_VALUES and react_hook).
THEOREM TablesAndCallsMatch == Spec => []Inv
<1>1. Init => Inv
  BY InitInv, ReactionsAssumption
<1>2. Inv /\ [Next]_vars => Inv'
  BY StepInv, ReactionsAssumption
<1> QED
  BY <1>1, <1>2, PTL DEF Spec

\* react_hook runs the datums whose requirements all_reactable has compared
\* with the mixture, whatever the reactions before them register or reload.
THEOREM ReactionsRunWhatMatched == Spec => []RunsWhatMatched
<1>1. Inv => RunsWhatMatched
  BY DEF Inv, CallsMatch, Good, RunsWhatMatched
<1> QED
  BY <1>1, TablesAndCallsMatch, PTL

\* A step reads the reactions with the gases it leaves behind, or it leaves
\* what was read, and then the gases are the same or no longer those of the
\* reactions.
LEMMA ReadOrKept ==
    ASSUME [Next]_vars
    PROVE  \/ Load(gases') /\ list' = list
           \/ /\ UNCHANGED <<loaded, info, sent, listed>>
              /\ ~stale' => gases' = gases /\ ~stale
<1>1. CASE UNCHANGED <<registry, reactions>>
  BY <1>1 DEF registry, reactions
<1>2. ASSUME Panic PROVE UNCHANGED <<registry, reactions>>
  BY <1>2 DEF Panic
<1>3. ASSUME NEW g \in GasIds, RegisterGas(g)
      PROVE  \/ UNCHANGED <<registry, reactions>>
             \/ UNCHANGED reactions /\ (~stale' => gases' = gases /\ ~stale)
  BY <1>2, <1>3 DEF RegisterGas, Registered
<1>4. ASSUME NEW gs \in Inits, HookInit(gs)
      PROVE  \/ UNCHANGED <<registry, reactions>>
             \/ UNCHANGED reactions /\ (~stale' => gases' = gases /\ ~stale)
             \/ Load(gases') /\ list' = list
  <2>1. CASE /\ stale' = (stale \/ gases' # gases)
             /\ UNCHANGED reactions
    BY <2>1
  <2>2. CASE Load(gases') /\ UNCHANGED list
    BY <2>2
  <2> QED
    BY <1>2, <1>4, <2>1, <2>2 DEF HookInit
<1>5. ASSUME UpdateReactions
      PROVE  UNCHANGED <<registry, reactions>> \/ (Load(gases') /\ list' = list)
  <2>1. CASE Load(gases) /\ UNCHANGED <<gases, list>>
    BY <2>1
  <2> QED
    BY <1>2, <1>5, <2>1 DEF UpdateReactions
<1>6. ASSUME NEW m \in Mixes, React(m) \/ ChangeMix(m) PROVE UNCHANGED <<registry, reactions>>
  BY <1>2, <1>6 DEF React, ChangeMix
<1>7. ASSUME ReactNext \/ Returned \/ SetList \/ UNCHANGED vars
      PROVE  UNCHANGED <<registry, reactions>>
  BY <1>7 DEF ReactNext, Returned, GoesOnAs, HookReturns, SetList, vars
<1>8. ASSUME FunctionFails \/ Analyze \/ Burn \/ FinalizeGasRefs
      PROVE  UNCHANGED <<registry, reactions>>
  BY <1>2, <1>8 DEF FunctionFails, Analyze, Burn, FinalizeGasRefs, GoesOnAs, HookReturns
<1> QED
  BY <1>1, <1>3, <1>4, <1>5, <1>6, <1>7, <1>8 DEF Next, reactions

\* from_byond_reaction leaves no gas out that is registered when
\* auxtools_atmos_init or auxtools_update_reactions returns.
THEOREM RequirementsAreCurrent == Spec => []RequirementsCurrent
<1>1. Init => RequirementsCurrent
  BY DEF Init, RequirementsCurrent
<1>2. Inv /\ RequirementsCurrent /\ [Next]_vars => RequirementsCurrent'
  <2> SUFFICES ASSUME Inv, RequirementsCurrent, [Next]_vars PROVE RequirementsCurrent'
    OBVIOUS
  <2>1. CASE Load(gases')
    <3>1. PICK gs : gs = gases'
      OBVIOUS
    <3>2. Load(gs) /\ list \in Lists
      BY <2>1, <3>1 DEF Inv, TablesMatch
    <3>3. ASSUME NEW p \in DOMAIN info' PROVE info'[p].need = Required(info'[p].datum, gs)
      <4>1. PICK k \in Taken : p = Priority[list[k]]
        BY <3>2 DEF Load
      <4>2. info'[p] = Known(list[k], gs)
        BY <3>2, <4>1, TakenFacts, ReactionsAssumption
      <4> QED
        BY <4>2 DEF Known
    <3> QED
      BY <3>1, <3>3 DEF RequirementsCurrent
  <2>2. CASE /\ UNCHANGED <<loaded, info>>
             /\ ~stale' => gases' = gases /\ ~stale
    BY <2>2 DEF RequirementsCurrent, Required
  <2> QED
    BY <2>1, <2>2, ReadOrKept
<1> QED
  BY <1>1, <1>2, TablesAndCallsMatch, PTL DEF Spec

\* get_reaction_info puts every reaction of SSair.gas_reactions into the table
\* or tells DM that it does not.
THEOREM IgnoredAreTold == Spec => []IgnoredAreReported
<1>1. Init => IgnoredAreReported
  <2>1. Init => Len(listed) = 0
    BY DEF Init
  <2> QED
    BY <2>1 DEF IgnoredAreReported
<1>2. Inv /\ IgnoredAreReported /\ [Next]_vars => IgnoredAreReported'
  <2> SUFFICES ASSUME Inv, IgnoredAreReported, [Next]_vars PROVE IgnoredAreReported'
    OBVIOUS
  <2>1. CASE Load(gases')
    <3>1. PICK gs : gs = gases'
      OBVIOUS
    <3>2. Load(gs) /\ list \in Lists
      BY <2>1, <3>1 DEF Inv, TablesMatch
    <3>3. listed' = list
      BY <3>2 DEF Load
    <3>4. ASSUME NEW k \in 1..Len(list)
          PROVE  list[k] \in sent' \/ \E p \in DOMAIN info' : info'[p].datum = list[k]
      <4>1. CASE k \notin Readable \/ Duplicate(k)
        BY <3>2, <4>1 DEF Load
      <4>2. CASE k \in Readable /\ ~Duplicate(k)
        <5>1. k \in Taken
          BY <4>2 DEF Taken
        <5>2. Priority[list[k]] \in DOMAIN info' /\ info'[Priority[list[k]]] = Known(list[k], gs)
          BY <3>2, <5>1, TakenFacts, ReactionsAssumption
        <5> QED
          BY <5>2 DEF Known
      <4> QED
        BY <4>1, <4>2
    <3> QED
      BY <3>3, <3>4 DEF IgnoredAreReported
  <2>2. CASE UNCHANGED <<info, sent, listed>>
    BY <2>2 DEF IgnoredAreReported
  <2> QED
    BY <2>1, <2>2, ReadOrKept
<1> QED
  BY <1>1, <1>2, TablesAndCallsMatch, PTL DEF Spec

-----------------------------------------------------------------------------
(***************************************************************************)
(* Gases keep their indices: the list of them only grows.                   *)
(***************************************************************************)
Extends(new, old) ==
    /\ new \in Seq(GasIds)
    /\ Len(old) <= Len(new)
    /\ \A k \in 1..Len(old) : new[k] = old[k]

LEMMA OneRegistered ==
    ASSUME NEW old \in Seq(GasIds), NEW new, Extends(new, old), NEW g \in GasIds
    PROVE  Extends(Registered(new, g), old)
<1>1. new \in Seq(GasIds) /\ Len(old) \in Nat /\ Len(new) \in Nat /\ Len(old) <= Len(new)
  BY LenProperties DEF Extends
<1>2. CASE g \in ToSet(new)
  BY <1>2 DEF Registered
<1>3. CASE g \notin ToSet(new)
  <2> DEFINE app == Append(new, g)
  <2>1. /\ app \in Seq(GasIds)
        /\ Len(app) = Len(new) + 1
        /\ \A k \in 1..Len(new) : app[k] = new[k]
    BY <1>1, AppendProperties
  <2> HIDE DEF app
  <2>2. \A k \in 1..Len(old) : k \in 1..Len(new) /\ new[k] = old[k]
    BY <1>1 DEF Extends
  <2>3. Extends(app, old)
    BY <1>1, <2>1, <2>2 DEF Extends
  <2> QED
    BY <1>3, <2>3 DEF Registered, app
<1> QED
  BY <1>2, <1>3

\* auxtools_atmos_init registers one gas after the other.
LEMMA AllRegistered ==
    ASSUME NEW old \in Seq(GasIds), NEW seq \in Seq(GasIds)
    PROVE  Extends(FoldLeft(Registered, old, seq), old)
<1> DEFINE n == Len(seq)
           X == {new \in Seq(GasIds) : Extends(new, old)}
           F == [p \in X \X GasIds |-> Registered(p[1], p[2])]
           iter == CHOOSE g : g = [s \in SUBSET (1..n) |->
                        IF s = {} THEN old ELSE Registered(g[s \ {Max(s)}], seq[Max(s)])]
           Iterates(g) == g = [s \in SUBSET (1..n) |->
                        IF s = {} THEN old ELSE Registered(g[s \ {Max(s)}], seq[Max(s)])]
<1>1. n \in Nat /\ DOMAIN seq = 1..n /\ \A k \in 1..n : seq[k] \in GasIds
  BY LenProperties, ElementOfSeq
<1>2. FoldLeft(Registered, old, seq) = iter[1..n]
  BY <1>1 DEF FoldLeft, MapThenFoldSet
<1>3. iter = CHOOSE g : Iterates(g)
  OBVIOUS
<1>4. old \in X
  BY LenProperties DEF Extends
<1>5. \A new \in X, g \in GasIds : Registered(new, g) \in X
  BY OneRegistered DEF Extends
<1>6. F \in [X \X GasIds -> X]
  BY <1>5
<1> HIDE DEF n, X, F, iter
<1>7. PICK g : Folding(g, X, old, F, seq, n)
  BY <1>1, <1>4, <1>6, FoldExists
<1>8. ASSUME NEW s \in SUBSET (1..n), s # {}
      PROVE  s \ {Max(s)} \in SUBSET (1..n) /\ Max(s) \in 1..n /\ seq[Max(s)] \in GasIds
  BY <1>1, <1>8, LargestNumber
<1>9. \A s \in SUBSET (1..n) :
            g[s] = IF s = {} THEN old ELSE Registered(g[s \ {Max(s)}], seq[Max(s)])
  BY <1>7, <1>8 DEF F, Folding
<1>10. Iterates(g)
  BY <1>7, <1>9 DEF Folding
<1> HIDE DEF Iterates
<1>11. Iterates(iter)
  BY <1>3, <1>10
<1>12. \A s \in SUBSET (1..n) :
            iter[s] = IF s = {} THEN old ELSE Registered(iter[s \ {Max(s)}], seq[Max(s)])
  BY <1>11 DEF Iterates
<1>13. iter[{}] \in X
  BY <1>4, <1>12
<1>14. \A s \in SUBSET (1..n) : s # {} /\ iter[s \ {Max(s)}] \in X => iter[s] \in X
  BY <1>5, <1>8, <1>12
<1>15. iter[1..n] \in X
  BY <1>1, <1>13, <1>14, FoldRange
<1> QED
  BY <1>2, <1>15 DEF X

-----------------------------------------------------------------------------
(***************************************************************************)
(* What is still to run, or runs, for a mixture nobody has changed since.   *)
(***************************************************************************)

\* The n-th call of react_hook, the outermost being the first.
Call(n) == stack[Len(stack) + 1 - n]

\* Reactions that require something to burn find it.
Ready(f) ==
    /\ \A j \in 1..Len(f.pending) : f.pending[j].fire => Burnable(f.mix)
    /\ f.running \in OnFire => Burnable(f.mix)

MixturesOK ==
    /\ gases \in Seq(GasIds)
    /\ has \in [Mixes -> SUBSET (1..Len(gases))]
    /\ hot \in [Mixes -> BOOLEAN]

UntouchedReady == untouched \subseteq 1..Len(stack) /\ \A n \in untouched : Ready(Call(n))

FireInv == Inv /\ MixturesOK /\ UntouchedReady

LEMMA BurnableKept ==
    ASSUME MixturesOK, NEW m \in Mixes, Extends(gases', gases),
           has'[m] = has[m], hot'[m] = hot[m], Burnable(m)
    PROVE  Burnable(m)'
<1>1. has[m] \in SUBSET (1..Len(gases))
  BY DEF MixturesOK
<1>2. ASSUME NEW G, HasAny(m, G) PROVE \E k \in has'[m] : gases'[k] \in G
  BY <1>1, <1>2 DEF HasAny, Extends
<1>3. \E k \in has'[m] : gases'[k] \in Fuel
  BY <1>2 DEF Burnable
<1>4. \E k \in has'[m] : gases'[k] \in Oxidizer
  BY <1>2 DEF Burnable
<1> QED
  BY <1>3, <1>4 DEF Burnable, HasAny

LEMMA ReadyKept ==
    ASSUME MixturesOK, NEW f \in Frames, Extends(gases', gases),
           has'[f.mix] = has[f.mix], hot'[f.mix] = hot[f.mix], Ready(f)
    PROVE  Ready(f)'
<1>1. f.mix \in Mixes
  BY DEF Frames
<1>2. Burnable(f.mix) => Burnable(f.mix)'
  BY <1>1, BurnableKept
<1> QED
  BY <1>2 DEF Ready

LEMMA CallFacts ==
    ASSUME CallsMatch, NEW n \in 1..Len(stack)
    PROVE  Call(n) \in Frames /\ Call(n).mix \in Mixes /\ Len(stack) + 1 - n \in 1..Len(stack)
<1>1. stack \in Seq(Frames) /\ Len(stack) \in Nat
  BY LenProperties DEF CallsMatch
<1>2. Len(stack) + 1 - n \in 1..Len(stack)
  BY <1>1
<1>3. Call(n) \in Frames
  BY <1>1, <1>2, ElementOfSeq DEF Call
<1> QED
  BY <1>2, <1>3 DEF Frames

\* The stack after a call, a return, or a step of the innermost hook.
LEMMA PushedCalls ==
    ASSUME CallsMatch, NEW f \in Frames, stack' = <<f>> \o stack
    PROVE  /\ Len(stack') = Len(stack) + 1
           /\ \A n \in 1..(Len(stack) + 1) :
                  Call(n)' = IF n = Len(stack) + 1 THEN f ELSE Call(n)
<1>1. stack \in Seq(Frames) /\ Len(stack) \in Nat
  BY LenProperties DEF CallsMatch
<1>2. /\ Len(stack') = Len(stack) + 1
      /\ stack'[1] = f
      /\ \A k \in 2..(Len(stack) + 1) : stack'[k] = stack[k - 1]
  BY <1>1, Pushed
<1>3. ASSUME NEW n \in 1..Len(stack) PROVE Call(n)' = Call(n)
  <2> DEFINE k == Len(stack') + 1 - n
  <2>1. k \in 2..(Len(stack) + 1) /\ k - 1 = Len(stack) + 1 - n
    BY <1>1, <1>2
  <2> QED
    BY <1>2, <2>1 DEF Call
<1>4. ASSUME NEW n, n = Len(stack) + 1 PROVE Call(n)' = f
  <2>1. Len(stack') + 1 - n = 1
    BY <1>1, <1>2, <1>4
  <2> QED
    BY <1>2, <2>1 DEF Call
<1> QED
  BY <1>1, <1>2, <1>3, <1>4

LEMMA PoppedCalls ==
    ASSUME CallsMatch, stack # << >>, stack' = Tail(stack)
    PROVE  /\ Len(stack) \in Nat \ {0}
           /\ Len(stack') = Len(stack) - 1
           /\ Call(Len(stack)) = Head(stack)
           /\ \A n \in 1..(Len(stack) - 1) : Call(n)' = Call(n)
<1>1. /\ Len(stack) \in Nat \ {0}
      /\ Len(stack') = Len(stack) - 1
      /\ Head(stack) = stack[1]
      /\ \A k \in 1..(Len(stack) - 1) : stack'[k] = stack[k + 1]
  BY Popped DEF CallsMatch
<1>2. ASSUME NEW n \in 1..(Len(stack) - 1) PROVE Call(n)' = Call(n)
  <2> DEFINE k == Len(stack') + 1 - n
  <2>1. k \in 1..(Len(stack) - 1) /\ k + 1 = Len(stack) + 1 - n
    BY <1>1
  <2> QED
    BY <1>1, <2>1 DEF Call
<1>3. Len(stack) + 1 - Len(stack) = 1
  BY <1>1
<1> QED
  BY <1>1, <1>2, <1>3 DEF Call

LEMMA ReplacedCalls ==
    ASSUME CallsMatch, NEW f \in Frames, stack # << >>, stack' = <<f>> \o Tail(stack)
    PROVE  /\ Len(stack) \in Nat \ {0}
           /\ Len(stack') = Len(stack)
           /\ Call(Len(stack)) = Head(stack)
           /\ \A n \in 1..Len(stack) : Call(n)' = IF n = Len(stack) THEN f ELSE Call(n)
<1>1. /\ Tail(stack) \in Seq(Frames)
      /\ Len(stack) \in Nat \ {0}
      /\ Len(Tail(stack)) = Len(stack) - 1
      /\ Head(stack) = stack[1]
      /\ \A k \in 1..(Len(stack) - 1) : Tail(stack)[k] = stack[k + 1]
  BY Popped DEF CallsMatch
<1>2. /\ Len(stack') = Len(stack)
      /\ stack'[1] = f
      /\ \A k \in 2..Len(stack) : stack'[k] = Tail(stack)[k - 1]
  <2>1. /\ Len(stack') = Len(Tail(stack)) + 1
        /\ stack'[1] = f
        /\ \A k \in 2..(Len(Tail(stack)) + 1) : stack'[k] = Tail(stack)[k - 1]
    BY <1>1, Pushed
  <2>2. Len(Tail(stack)) + 1 = Len(stack)
    BY <1>1
  <2> QED
    BY <2>1, <2>2
<1>3. ASSUME NEW n \in 1..(Len(stack) - 1) PROVE Call(n)' = Call(n)
  <2> DEFINE k == Len(stack) + 1 - n
  <2>1. k \in 2..Len(stack) /\ k - 1 \in 1..(Len(stack) - 1) /\ (k - 1) + 1 = k
    BY <1>1
  <2>2. stack'[k] = Tail(stack)[k - 1] /\ Tail(stack)[k - 1] = stack[(k - 1) + 1]
    BY <1>1, <1>2, <2>1
  <2> QED
    BY <1>2, <2>1, <2>2 DEF Call
<1>4. Len(stack) + 1 - Len(stack) = 1
  BY <1>1
<1>5. ASSUME NEW n, n = Len(stack) PROVE Call(n)' = f
  <2>1. Len(stack') + 1 - n = 1
    BY <1>1, <1>2, <1>5
  <2> QED
    BY <1>2, <2>1 DEF Call
<1>6. Call(Len(stack)) = Head(stack)
  BY <1>1, <1>4 DEF Call
<1>7. ASSUME NEW n \in 1..Len(stack) PROVE n = Len(stack) \/ n \in 1..(Len(stack) - 1)
  <2>1. \A l \in Nat \ {0} : \A k \in 1..l : k = l \/ k \in 1..(l - 1)
    OBVIOUS
  <2>2. Len(stack) \in Nat \ {0}
    BY <1>1
  <2> QED
    BY <2>1, <2>2
<1>8. \A n \in 1..Len(stack) : Call(n)' = IF n = Len(stack) THEN f ELSE Call(n)
  BY <1>3, <1>5, <1>7
<1> QED
  BY <1>1, <1>2, <1>6, <1>8

\* A call goes on, for a mixture that is as it was.
LEMMA UntouchedKept ==
    ASSUME FireInv, Extends(gases', gases), NEW n \in untouched,
           has'[Call(n).mix] = has[Call(n).mix], hot'[Call(n).mix] = hot[Call(n).mix],
           Call(n)' = Call(n)
    PROVE  Ready(Call(n))'
<1>1. PICK f : f = Call(n)
  OBVIOUS
<1>2. f \in Frames /\ Ready(f)
  BY <1>1, CallFacts DEF FireInv, Inv, UntouchedReady
<1>3. Ready(f)'
  BY <1>1, <1>2, ReadyKept DEF FireInv
<1> QED
  BY <1>1, <1>3 DEF Ready

LEMMA MixturesKept ==
    ASSUME MixturesOK, Extends(gases', gases), UNCHANGED <<has, hot>>
    PROVE  MixturesOK'
<1>1. Len(gases) \in Nat /\ Len(gases') \in Nat /\ Len(gases) <= Len(gases')
  BY LenProperties DEF MixturesOK, Extends
<1>2. 1..Len(gases) \subseteq 1..Len(gases')
  BY <1>1
<1> QED
  BY <1>2 DEF MixturesOK, Extends

LEMMA SameGases ==
    ASSUME MixturesOK, gases' = gases
    PROVE  Extends(gases', gases)
BY LenProperties DEF MixturesOK, Extends

\* No call begins or ends, and no mixture changes.
LEMMA OnlyGasesGrow ==
    ASSUME FireInv, Inv', Extends(gases', gases), UNCHANGED <<has, hot, untouched, stack>>
    PROVE  FireInv'
<1>1. MixturesOK'
  BY MixturesKept DEF FireInv
<1>2. ASSUME NEW n \in untouched PROVE Ready(Call(n))'
  <2>1. Call(n)' = Call(n)
    BY DEF Call
  <2> QED
    BY <2>1, UntouchedKept
<1>3. UntouchedReady'
  BY <1>2 DEF UntouchedReady, FireInv
<1> QED
  BY <1>1, <1>3 DEF FireInv

\* The innermost hook returns or goes on as f, and no mixture changes.
LEMMA TopMoves ==
    ASSUME FireInv, Inv', gases' = gases, stack # << >>, NothingTouched,
           \/ stack' = Tail(stack)
           \/ \E f \in Frames :
                /\ stack' = <<f>> \o Tail(stack)
                /\ Ready(Head(stack)) => Ready(f)
                /\ f.mix = Head(stack).mix
    PROVE  FireInv'
<1>1. Extends(gases', gases) /\ UNCHANGED <<has, hot>>
  BY SameGases DEF FireInv, NothingTouched
<1>2. MixturesOK'
  BY <1>1, MixturesKept DEF FireInv
<1>3. untouched' = untouched \cap 1..Len(stack') /\ CallsMatch
  BY DEF NothingTouched, FireInv, Inv
<1>4. CASE stack' = Tail(stack)
  <2>1. ASSUME NEW n \in untouched' PROVE Ready(Call(n))'
    <3>1. n \in untouched /\ Call(n)' = Call(n)
      BY <1>3, <1>4, PoppedCalls
    <3> QED
      BY <1>1, <3>1, UntouchedKept
  <2> QED
    BY <1>2, <1>3, <2>1 DEF FireInv, UntouchedReady
<1>5. ASSUME NEW f \in Frames, stack' = <<f>> \o Tail(stack), f.mix = Head(stack).mix,
             Ready(Head(stack)) => Ready(f)
      PROVE  FireInv'
  <2>1. /\ Len(stack) \in Nat \ {0} /\ Len(stack') = Len(stack)
        /\ Call(Len(stack)) = Head(stack)
        /\ \A n \in 1..Len(stack) : Call(n)' = IF n = Len(stack) THEN f ELSE Call(n)
    BY <1>3, <1>5, ReplacedCalls
  <2>2. ASSUME NEW n \in untouched' PROVE Ready(Call(n))'
    <3>1. n \in untouched /\ n \in 1..Len(stack)
      BY <1>3, <2>1
    <3>2. CASE n = Len(stack)
      <4>1. Call(n)' = f /\ Call(n) = Head(stack)
        BY <2>1, <3>1, <3>2
      <4>2. Ready(f)
        BY <1>5, <3>1, <4>1 DEF FireInv, UntouchedReady
      <4>3. Ready(f)'
        BY <1>1, <4>2, ReadyKept DEF FireInv
      <4> QED
        BY <4>1, <4>3 DEF Ready
    <3>3. CASE n # Len(stack)
      <4>1. Call(n)' = Call(n)
        BY <2>1, <3>1, <3>3
      <4> QED
        BY <1>1, <3>1, <4>1, UntouchedKept
    <3> QED
      BY <3>2, <3>3
  <2> QED
    BY <1>2, <1>3, <2>2 DEF FireInv, UntouchedReady
<1> QED
  BY <1>4, <1>5

\* A mixture is changed by DM or by a function: the calls for it are no longer
\* untouched.
LEMMA MixtureChanges ==
    ASSUME FireInv, Inv', gases' = gases, NEW m \in Mixes,
           \E S \in SUBSET (1..Len(gases)) : has' = [has EXCEPT ![m] = S],
           \E h \in BOOLEAN : hot' = [hot EXCEPT ![m] = h],
           untouched' \subseteq LookedElsewhere(m) \cap 1..Len(stack'),
           \A n \in untouched' : Call(n)' = Call(n)
    PROVE  FireInv'
<1>1. Extends(gases', gases)
  BY SameGases DEF FireInv
<1>2. MixturesOK'
  BY DEF FireInv, MixturesOK
<1>3. ASSUME NEW n \in untouched' PROVE Ready(Call(n))'
  <2>1. n \in untouched /\ Call(n).mix # m
    BY DEF LookedElsewhere, Call
  <2>2. Call(n).mix \in Mixes
    BY <2>1, CallFacts DEF FireInv, Inv, UntouchedReady
  <2>3. has'[Call(n).mix] = has[Call(n).mix] /\ hot'[Call(n).mix] = hot[Call(n).mix]
    BY <2>1, <2>2 DEF FireInv, MixturesOK
  <2> QED
    BY <1>1, <2>1, <2>3, UntouchedKept
<1> QED
  BY <1>2, <1>3 DEF FireInv, UntouchedReady

LEMMA FireInit ==
    ASSUME ReactionsAssumption, Init
    PROVE  FireInv
<1>1. Inv
  BY InitInv
<1>2. Len(gases) = 0 /\ gases \in Seq(GasIds) /\ MixturesOK
  BY DEF Init, MixturesOK
<1> QED
  BY <1>1, <1>2 DEF FireInv, UntouchedReady, Init

LEMMA RegistryKeepsFire ==
    ASSUME ReactionsAssumption, FireInv, Inv',
           \/ \E g \in GasIds : RegisterGas(g)
           \/ \E gs \in Inits : HookInit(gs)
    PROVE  FireInv'
<1>1. gases \in Seq(GasIds) /\ Extends(gases, gases)
  BY LenProperties DEF FireInv, MixturesOK, Extends
<1>2. UNCHANGED <<has, hot, untouched, stack>>
  BY DEF RegisterGas, HookInit, Panic, mixtures
<1>3. ASSUME gases' = gases PROVE FireInv'
  BY <1>1, <1>2, <1>3, OnlyGasesGrow
<1>4. ASSUME NEW g \in GasIds, RegisterGas(g) PROVE FireInv'
  <2>1. CASE gases' = Registered(gases, g)
    <3>1. Extends(gases', gases)
      BY <1>1, <2>1, OneRegistered
    <3> QED
      BY <1>2, <3>1, OnlyGasesGrow
  <2> QED
    BY <1>3, <1>4, <2>1 DEF RegisterGas, Panic, registry
<1>5. ASSUME NEW gs \in Inits, HookInit(gs) PROVE FireInv'
  <2>1. gs \in Seq(GasIds) /\ Len(gs) \in Nat
    BY LenProperties DEF ReactionsAssumption
  <2>2. ASSUME NEW read \in Seq(GasIds), gases' = FoldLeft(Registered, gases, read)
        PROVE  FireInv'
    <3>1. Extends(gases', gases)
      BY <1>1, <2>2, AllRegistered
    <3> QED
      BY <1>2, <3>1, OnlyGasesGrow
  <2>3. ASSUME NEW n \in 0..(Len(gs) - 1) PROVE SubSeq(gs, 1, n) \in Seq(GasIds)
    <3>1. \A k \in 1..n : gs[k] \in GasIds
      BY <2>1, ElementOfSeq
    <3> QED
      BY <2>1, <3>1, SubSeqProperties
  <2>4. \/ gases' = gases
        \/ \E n \in 0..(Len(gs) - 1) : gases' = FoldLeft(Registered, gases, SubSeq(gs, 1, n))
        \/ gases' = FoldLeft(Registered, gases, gs)
    BY <1>5 DEF HookInit, Panic, registry
  <2> QED
    BY <1>3, <2>1, <2>2, <2>3, <2>4
<1> QED
  BY <1>4, <1>5

\* all_reactable has compared the mixture with what it returns.
LEMMA ReactableMatches ==
    ASSUME TablesMatch, NEW m \in Mixes, NEW found \in AllReactable(m)
    PROVE  \A j \in 1..Len(found) : Matches(found[j], m)
<1> DEFINE ps == {p \in DOMAIN info : Matches(info[p], m)}
           n == Cardinality(ps)
<1>1. IsFiniteSet(ps)
  BY FS_Subset DEF TablesMatch
<1>2. n \in Nat
  BY <1>1, FS_CardinalityType
<1>3. \A p \in ps : Matches(info[p], m)
  OBVIOUS
<1>4. PICK o \in [1..n -> ps] : found = [k \in 1..n |-> info[o[k]]]
  BY DEF AllReactable
<1> HIDE DEF n, ps
<1>5. \A k \in 1..n : Matches(found[k], m)
  BY <1>3, <1>4
<1>6. Len(found) = n
  BY <1>2, <1>4
<1> QED
  BY <1>5, <1>6

LEMMA ReactKeepsFire ==
    ASSUME ReactionsAssumption, FireInv, Inv', NEW m \in Mixes, React(m)
    PROVE  FireInv'
<1>1. Extends(gases', gases) /\ UNCHANGED <<has, hot>>
  BY SameGases DEF FireInv, React, Panic, registry, mixtures
<1>2. CASE Panic
  BY <1>1, <1>2, OnlyGasesGrow DEF Panic, mixtures
<1>3. ASSUME NEW found \in AllReactable(m) \ {<< >>},
             stack' = << [mix |-> m, pending |-> found, running |-> NoDatum, at |-> "dm"] >>
                        \o stack,
             untouched' = untouched \cup {Len(stack) + 1}
      PROVE  FireInv'
  <2> DEFINE f == [mix |-> m, pending |-> found, running |-> NoDatum, at |-> "dm"]
  <2>1. f \in Frames
    BY ReactableFacts DEF Frames, FireInv, Inv
  <2>2. Ready(f)
    <3>1. \A j \in 1..Len(found) : Matches(found[j], m)
      BY ReactableMatches DEF FireInv, Inv
    <3>2. NoDatum \notin OnFire
      BY DEF ReactionsAssumption
    <3> QED
      BY <3>1, <3>2 DEF Ready, Matches
  <2> HIDE DEF f
  <2>3. stack' = <<f>> \o stack
    BY <1>3 DEF f
  <2>4. /\ Len(stack) \in Nat /\ Len(stack') = Len(stack) + 1
        /\ \A n \in 1..(Len(stack) + 1) : Call(n)' = IF n = Len(stack) + 1 THEN f ELSE Call(n)
    BY <2>1, <2>3, PushedCalls, LenProperties DEF FireInv, Inv, CallsMatch
  <2>5. \A n \in untouched : n \in 1..Len(stack) /\ n \in 1..(Len(stack) + 1) /\ n # Len(stack) + 1
    BY <2>4 DEF FireInv, UntouchedReady
  <2>6. ASSUME NEW n \in untouched' PROVE n \in 1..Len(stack') /\ Ready(Call(n))'
    <3>1. CASE n \in untouched
      <4>1. Call(n)' = Call(n) /\ n \in 1..Len(stack')
        BY <2>4, <2>5, <3>1
      <4> QED
        BY <1>1, <3>1, <4>1, UntouchedKept
    <3>2. CASE n \notin untouched
      <4>1. n = Len(stack) + 1 /\ n \in 1..(Len(stack) + 1)
        BY <1>3, <2>4, <3>2
      <4>2. Call(n)' = f /\ n \in 1..Len(stack')
        BY <2>4, <4>1
      <4>3. Ready(f)'
        BY <1>1, <2>1, <2>2, ReadyKept DEF FireInv, f
      <4> QED
        BY <4>2, <4>3 DEF Ready
    <3> QED
      BY <3>1, <3>2
  <2>7. MixturesOK'
    BY <1>1, MixturesKept DEF FireInv
  <2> QED
    BY <2>6, <2>7 DEF FireInv, UntouchedReady
<1> QED
  BY <1>2, <1>3 DEF React

LEMMA ReactNextKeepsFire ==
    ASSUME ReactionsAssumption, FireInv, Inv', ReactNext
    PROVE  FireInv'
<1>1. stack \in Seq(Frames) /\ stack # << >> /\ gases' = gases /\ NothingTouched
  BY DEF FireInv, Inv, CallsMatch, ReactNext, GoesOnAs, HookReturns, registry
<1> DEFINE top == Head(stack)
           entry == Head(top.pending)
           datum == values[entry.id]
           place == IF Id[datum] \in Native THEN "native" ELSE "dm"
           f == [top EXCEPT !.pending = Tail(top.pending), !.running = datum, !.at = place]
<1>2. top = stack[1] /\ top \in Frames /\ 1 \in 1..Len(stack)
  BY <1>1, Popped
<1>3. Good(values, top) /\ top.running = NoDatum
  BY <1>2 DEF FireInv, Inv, CallsMatch, ReactNext
<1>4. top.pending \in Seq(Entries) /\ top.pending # << >>
  BY <1>2, <1>3 DEF Frames, Good
<1>5. /\ Tail(top.pending) \in Seq(Entries)
      /\ Len(top.pending) \in Nat \ {0}
      /\ Len(Tail(top.pending)) = Len(top.pending) - 1
      /\ entry = top.pending[1] /\ entry \in Entries
      /\ \A j \in 1..(Len(top.pending) - 1) : Tail(top.pending)[j] = top.pending[j + 1]
  BY <1>4, Popped
<1>6. CASE datum = NoDatum
  <2>1. stack' = Tail(stack)
    BY <1>6 DEF ReactNext, HookReturns
  <2> QED
    BY <1>1, <2>1, TopMoves
<1>7. CASE datum # NoDatum
  <2>1. datum = entry.datum /\ entry.fire = (datum \in OnFire) /\ datum \in Datums
    <3>1. values[entry.id] = entry.datum
      BY <1>3, <1>5 DEF Good
    <3> QED
      BY <1>5, <3>1 DEF Entries
  <2>2. /\ f \in Frames /\ f.mix = top.mix
        /\ f.pending = Tail(top.pending) /\ f.running = datum
    BY <1>2, <1>5, <2>1 DEF Frames
  <2>3. ASSUME Ready(top) PROVE Ready(f)
    <3>1. ASSUME NEW j \in 1..Len(f.pending), f.pending[j].fire PROVE Burnable(f.mix)
      <4>1. j \in 1..(Len(top.pending) - 1) /\ j + 1 \in 1..Len(top.pending)
        BY <1>5, <2>2, <3>1
      <4>2. f.pending[j] = top.pending[j + 1]
        BY <1>5, <2>2, <4>1
      <4> QED
        BY <2>2, <2>3, <3>1, <4>1, <4>2 DEF Ready
    <3>2. f.running \in OnFire => Burnable(f.mix)
      <4>1. 1 \in 1..Len(top.pending)
        BY <1>5
      <4>2. top.pending[1].fire => Burnable(top.mix)
        BY <2>3, <4>1 DEF Ready
      <4> QED
        BY <1>5, <2>1, <2>2, <4>2
    <3> QED
      BY <3>1, <3>2 DEF Ready
  <2>4. stack' = <<f>> \o Tail(stack)
    BY <1>7 DEF ReactNext, GoesOnAs
  <2> HIDE DEF f
  <2>5. \E g \in Frames :
            /\ stack' = <<g>> \o Tail(stack)
            /\ Ready(Head(stack)) => Ready(g)
            /\ g.mix = Head(stack).mix
    BY <2>2, <2>3, <2>4
  <2> QED
    BY <1>1, <2>5, TopMoves
<1> QED
  BY <1>6, <1>7

LEMMA TopGoesOn ==
    ASSUME ReactionsAssumption, FireInv, Inv', gases' = gases, stack # << >>, NothingTouched,
           NEW place \in {"dm", "native", "analyze", "write"},
           \/ stack' = Tail(stack)
           \/ stack' = << [Head(stack) EXCEPT !.at = place] >> \o Tail(stack)
           \/ stack' = << [Head(stack) EXCEPT !.running = NoDatum] >> \o Tail(stack)
    PROVE  FireInv'
<1> DEFINE top == Head(stack)
           moved == [top EXCEPT !.at = place]
           next  == [top EXCEPT !.running = NoDatum]
<1>1. top \in Frames
  BY Popped DEF FireInv, Inv, CallsMatch
<1>2. moved \in Frames /\ moved.mix = top.mix /\ (Ready(top) => Ready(moved))
  <2>1. /\ moved \in Frames /\ moved.mix = top.mix
        /\ moved.pending = top.pending /\ moved.running = top.running
    BY <1>1 DEF Frames
  <2> QED
    BY <2>1 DEF Ready
<1>3. next \in Frames /\ next.mix = top.mix /\ (Ready(top) => Ready(next))
  <2>1. /\ next \in Frames /\ next.mix = top.mix
        /\ next.pending = top.pending /\ next.running = NoDatum
    BY <1>1 DEF Frames
  <2>2. NoDatum \notin OnFire
    BY DEF ReactionsAssumption
  <2> QED
    BY <2>1, <2>2 DEF Ready
<1>4. CASE stack' = Tail(stack)
  BY <1>4, TopMoves
<1>5. ASSUME NEW f \in Frames, f.mix = Head(stack).mix, Ready(Head(stack)) => Ready(f),
             stack' = <<f>> \o Tail(stack)
      PROVE  FireInv'
  BY <1>5, TopMoves
<1> HIDE DEF moved, next
<1>6. CASE stack' = <<moved>> \o Tail(stack)
  BY <1>2, <1>5, <1>6
<1>7. CASE stack' = <<next>> \o Tail(stack)
  BY <1>3, <1>5, <1>7
<1> QED
  BY <1>4, <1>6, <1>7 DEF moved, next

LEMMA ChangeKeepsFire ==
    ASSUME FireInv, Inv', NEW m \in Mixes, ChangeMix(m)
    PROVE  FireInv'
<1>1. /\ gases' = gases /\ stack' = stack /\ untouched' = LookedElsewhere(m)
      /\ \E S \in SUBSET (1..Len(gases)) : has' = [has EXCEPT ![m] = S]
      /\ \E h \in BOOLEAN : hot' = [hot EXCEPT ![m] = h]
  BY DEF ChangeMix, registry
<1>2. untouched' \subseteq LookedElsewhere(m) \cap 1..Len(stack')
  BY <1>1 DEF LookedElsewhere, FireInv, UntouchedReady
<1>3. \A n \in untouched' : Call(n)' = Call(n)
  BY <1>1 DEF Call
<1> QED
  BY <1>1, <1>2, <1>3, MixtureChanges

LEMMA BurnKeepsFire ==
    ASSUME FireInv, Inv', Burn
    PROVE  FireInv'
<1> DEFINE top == Head(stack)
           m == top.mix
           moved == [top EXCEPT !.at = "dm"]
           next  == [top EXCEPT !.running = NoDatum, !.at = "dm"]
<1>1. stack # << >> /\ gases' = gases /\ untouched' = LookedElsewhere(m) \cap 1..Len(stack')
  BY DEF Burn, InFunction, GoesOnAs, HookReturns, registry
<1>2. top \in Frames /\ m \in Mixes
  <2>1. top \in Frames
    BY <1>1, Popped DEF FireInv, Inv, CallsMatch
  <2> QED
    BY <2>1 DEF Frames
<1>3. Changes(Function, m) \in SUBSET (1..Len(gases))
  BY <1>2 DEF Changes, Burning, FireInv, MixturesOK
<1>4. \E S \in SUBSET (1..Len(gases)) : has' = [has EXCEPT ![m] = S]
  <2>1. PICK left \in SUBSET Changes(Function, m) :
            has' = [has EXCEPT ![m] = (@ \ Changes(Function, m)) \cup left]
    BY DEF Burn
  <2> DEFINE S == (has[m] \ Changes(Function, m)) \cup left
  <2>2. S \in SUBSET (1..Len(gases))
    BY <1>2, <1>3 DEF FireInv, MixturesOK
  <2>3. has' = [has EXCEPT ![m] = S]
    BY <2>1
  <2> HIDE DEF S
  <2> QED
    BY <2>2, <2>3
<1>5. \E h \in BOOLEAN : hot' = [hot EXCEPT ![m] = h]
  BY DEF Burn
<1>6. \E f \in Frames : stack' = Tail(stack) \/ stack' = <<f>> \o Tail(stack)
  <2>1. moved \in Frames /\ next \in Frames
    BY <1>2 DEF Frames
  <2>2. stack' = Tail(stack) \/ stack' = <<moved>> \o Tail(stack) \/ stack' = <<next>> \o Tail(stack)
    BY DEF Burn, GoesOnAs, HookReturns
  <2> QED
    BY <2>1, <2>2
<1>7. ASSUME NEW n \in untouched' PROVE Call(n)' = Call(n)
  <2>1. n \in untouched /\ Call(n).mix # m /\ n \in 1..Len(stack) /\ n \in 1..Len(stack')
    BY <1>1 DEF LookedElsewhere, Call, FireInv, UntouchedReady
  <2>2. PICK f \in Frames : stack' = Tail(stack) \/ stack' = <<f>> \o Tail(stack)
    BY <1>6
  <2>3. CASE stack' = Tail(stack)
    BY <1>1, <2>1, <2>3, PoppedCalls DEF FireInv, Inv
  <2>4. CASE stack' = <<f>> \o Tail(stack)
    BY <1>1, <2>1, <2>4, ReplacedCalls DEF FireInv, Inv
  <2> QED
    BY <2>2, <2>3, <2>4
<1> QED
  BY <1>1, <1>2, <1>4, <1>5, <1>7, MixtureChanges

LEMMA StepFire ==
    ASSUME ReactionsAssumption, FireInv, [Next]_vars
    PROVE  FireInv'
<1>1. Inv'
  BY StepInv DEF FireInv
<1>2. CASE UNCHANGED <<gases, mixtures, stack>>
  BY <1>1, <1>2, SameGases, OnlyGasesGrow DEF FireInv, mixtures
<1>3. CASE Panic
  BY <1>2, <1>3 DEF Panic, registry
<1>4. CASE \/ \E g \in GasIds : RegisterGas(g)
           \/ \E gs \in Inits : HookInit(gs)
  BY <1>1, <1>4, RegistryKeepsFire
<1>5. CASE UpdateReactions \/ FinalizeGasRefs \/ SetList \/ UNCHANGED vars
  BY <1>2, <1>3, <1>5 DEF UpdateReactions, FinalizeGasRefs, SetList, vars, registry
<1>6. ASSUME NEW m \in Mixes, React(m) \/ ChangeMix(m) PROVE FireInv'
  BY <1>1, <1>6, ReactKeepsFire, ChangeKeepsFire
<1>7. CASE ReactNext
  BY <1>1, <1>7, ReactNextKeepsFire
<1>8. CASE Returned
  BY <1>1, <1>8, TopGoesOn DEF Returned, GoesOnAs, HookReturns, registry
<1>9. CASE FunctionFails
  BY <1>1, <1>9, TopGoesOn DEF FunctionFails, InFunction, HookReturns, registry
<1>10. CASE Analyze
  BY <1>1, <1>10, TopGoesOn DEF Analyze, InFunction, GoesOnAs, registry
<1>11. CASE Burn
  BY <1>1, <1>11, BurnKeepsFire
<1> QED
  BY <1>4, <1>5, <1>6, <1>7, <1>8, <1>9, <1>10, <1>11 DEF Next

\* generic_fire finds its fuel and its oxidizer ("passed oxidizer check" in
\* src/reaction/citadel.rs) in a mixture that nobody has changed since
\* react_hook looked at it, whatever was registered, read or run meanwhile.
THEOREM FireFinds == Spec => []FireFindsReagents
<1>1. Init => FireInv
  BY FireInit, ReactionsAssumption
<1>2. FireInv /\ [Next]_vars => FireInv'
  BY StepFire, ReactionsAssumption
<1>3. FireInv => FireFindsReagents
  <2> SUFFICES ASSUME FireInv, InFunction("native"), Head(stack).running \in OnFire,
                      Len(stack) \in untouched
               PROVE  Burnable(Head(stack).mix)
    BY DEF FireFindsReagents
  <2>1. Len(stack) \in Nat \ {0} /\ Head(stack) = stack[1]
    BY Popped DEF FireInv, Inv, CallsMatch, InFunction
  <2>2. Len(stack) + 1 - Len(stack) = 1
    BY <2>1
  <2>3. Call(Len(stack)) = Head(stack)
    BY <2>1, <2>2 DEF Call
  <2> QED
    BY <2>3 DEF FireInv, UntouchedReady, Ready
<1> QED
  BY <1>1, <1>2, <1>3, PTL DEF Spec
=============================================================================
