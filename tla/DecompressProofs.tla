--------------------------- MODULE DecompressProofs ---------------------------
(***************************************************************************)
(* Proofs about Decompress: what a decompression clears, and where it says  *)
(* that the air goes, for any turfs, edges, firelocks and callbacks and     *)
(* whatever BYOND changes between two turfs of the first flood.             *)
(***************************************************************************)
EXTENDS Decompress, InductionLemmas, FiniteSetTheorems, SequenceTheorems, TLAPS

-----------------------------------------------------------------------------
(***************************************************************************)
(* The inductive invariant.                                                 *)
(***************************************************************************)
TypeOK ==
    /\ world \in WorldType
    /\ registered \in SUBSET Turfs
    /\ edges \in SUBSET (Turfs \X Turfs)
    /\ gas \in [Turfs -> Nat]
    /\ target \in [Turfs -> Turfs \cup {NoDir}]
    /\ pc \in {"idle", "fill", "spread", "clear", "rip"}
    /\ jobs \in Seq({"decompress", "planet"} \X Turfs)
    /\ pc # "idle" => jobs # << >>
    /\ turfs \in Seq(Turfs) /\ spaces \in Seq(Turfs) /\ order \in Seq(Turfs)
    /\ at \in Nat
    /\ dir \in [Turfs -> Turfs \cup {NoDir}]
    /\ ripped \in Seq(Turfs \X Nat)

\* The second flood is one of a decompression, which has met no planet.
SpaceFound ==
    /\ pc \in {"spread", "clear"} => Kind = "decompress" /\ ~warned
    /\ pc \in {"fill", "spread", "clear"} /\ Kind = "decompress" =>
            ToSet(spaces) \subseteq ToSet(turfs) \cap OpenSpace

\* A turf of space is its own target before the second flood, which begins with
\* nothing from the callbacks before.
FreshFlood ==
    pc = "fill" =>
        /\ order = << >> /\ ripped = << >>
        /\ Kind = "decompress" => \A s \in ToSet(spaces) : target[s] = s
        /\ \A t \in Turfs : dir[t] = NoDir

\* Every turf of the second flood aims at space as the turf does that it was
\* reached from; what was cleared was reached.
Aiming ==
    \A t \in ToSet(order) :
        /\ target[t] \in ToSet(spaces)
        /\ dir[t] # NoDir =>
                dir[t] \in ToSet(order) /\ (dir[t] # target[t] => target[dir[t]] = target[t])

Cleared == \A k \in 1..Len(ripped) : ripped[k][1] \in ToSet(order) /\ dir[ripped[k][1]] # NoDir

\* What the second flood has reached is still there and open to space.
Reached ==
    pc \in {"spread", "clear"} =>
        /\ at <= Len(order)
        /\ \A t \in ToSet(order) : t \in registered /\ Exposed(t)
        /\ order # << >> => ToSet(spaces) \cap registered # {}

Inv == TypeOK /\ SpaceFound /\ FreshFlood /\ Aiming /\ Cleared /\ Reached

-----------------------------------------------------------------------------
(***************************************************************************)
(* Sequences of turfs.                                                      *)
(***************************************************************************)
LEMMA SomeOrder ==
    ASSUME NEW S, IsFiniteSet(S)
    PROVE  SetToSeq(S) \in Seq(S)
<1> DEFINE n == Cardinality(S)
<1>1. n \in Nat /\ ExistsBijection(1..n, S)
  BY FS_CardinalityType
<1>2. PICK f : f \in Bijection(1..n, S)
  BY <1>1 DEF ExistsBijection
<1>3. \E i \in [1..n -> S] : IsInjective(i)
  BY <1>2 DEF Bijection, Injection, IsInjective
<1>4. SetToSeq(S) \in [1..n -> S]
  BY <1>3 DEF SetToSeq
<1> QED
  BY <1>1, <1>4

\* progression_order begins with turfs of space that are still in the arena.
LEMMA PresentFacts ==
    ASSUME TypeOK
    PROVE  Present \in Seq(Turfs) /\ ToSet(Present) \in SUBSET (ToSet(spaces) \cap registered)
<1> DEFINE n == Len(spaces)
           E == ToSet(spaces)
           X == {s \in Seq(Turfs) : ToSet(s) \in SUBSET (ToSet(spaces) \cap registered)}
           F == [p \in X \X E |-> Kept(p[1], p[2])]
           iter == CHOOSE g : g = [s \in SUBSET (1..n) |->
                        IF s = {} THEN << >> ELSE Kept(g[s \ {Max(s)}], spaces[Max(s)])]
           Iterates(g) == g = [s \in SUBSET (1..n) |->
                        IF s = {} THEN << >> ELSE Kept(g[s \ {Max(s)}], spaces[Max(s)])]
<1>1. n \in Nat /\ DOMAIN spaces = 1..n /\ \A k \in 1..n : spaces[k] \in E
  BY LenProperties, ElementOfSeq DEF TypeOK, ToSet
<1>2. Present = iter[1..n]
  BY <1>1 DEF Present, FoldLeft, MapThenFoldSet
<1>3. iter = CHOOSE g : Iterates(g)
  OBVIOUS
<1>4. << >> \in X
  BY DEF ToSet
<1>5. ASSUME NEW s \in X, NEW t \in E PROVE Kept(s, t) \in X
  <2>1. t \in Turfs
    BY ToSetFacts DEF TypeOK
  <2>2. Append(s, t) \in Seq(Turfs) /\ ToSet(Append(s, t)) = ToSet(s) \cup {t}
    BY <2>1, ToSetAppend
  <2> QED
    BY <2>2 DEF Kept
<1>6. F \in [X \X E -> X]
  BY <1>5
<1> HIDE DEF n, E, X, F, iter
<1>7. PICK g : Folding(g, X, << >>, F, spaces, n)
  BY <1>1, <1>4, <1>6, FoldExists
<1>8. ASSUME NEW s \in SUBSET (1..n), s # {}
      PROVE  s \ {Max(s)} \in SUBSET (1..n) /\ Max(s) \in 1..n /\ spaces[Max(s)] \in E
  BY <1>1, <1>8, LargestNumber
<1>9. \A s \in SUBSET (1..n) :
            g[s] = IF s = {} THEN << >> ELSE Kept(g[s \ {Max(s)}], spaces[Max(s)])
  BY <1>7, <1>8 DEF F, Folding
<1>10. Iterates(g)
  BY <1>7, <1>9 DEF Folding
<1> HIDE DEF Iterates
<1>11. Iterates(iter)
  BY <1>3, <1>10
<1>12. \A s \in SUBSET (1..n) :
            iter[s] = IF s = {} THEN << >> ELSE Kept(iter[s \ {Max(s)}], spaces[Max(s)])
  BY <1>11 DEF Iterates
<1>13. iter[{}] \in X
  BY <1>4, <1>12
<1>14. \A s \in SUBSET (1..n) : s # {} /\ iter[s \ {Max(s)}] \in X => iter[s] \in X
  BY <1>5, <1>8, <1>12
<1>15. iter[1..n] \in X
  BY <1>1, <1>13, <1>14, FoldRange
<1> QED
  BY <1>2, <1>15 DEF X

-----------------------------------------------------------------------------
(***************************************************************************)
(* The first flood.                                                         *)
(***************************************************************************)
LEMMA InvInit == Init => Inv
<1> SUFFICES ASSUME Init PROVE Inv
  OBVIOUS
<1>1. << >> \in Seq(Turfs) /\ << >> \in Seq(Turfs \X Nat) /\ ToSet(<< >>) = {} /\ Len(<< >>) = 0
  BY EmptySeq DEF ToSet
<1>2. world \in WorldType
  BY DecompressAssumption DEF Init
<1>3. edges \in SUBSET (Turfs \X Turfs)
  BY <1>2 DEF Init, WorldType
<1>4. gas \in [Turfs -> Nat]
  <2>1. PICK g \in [Turfs -> Levels] : gas = [t \in Turfs |-> IF t \in world.immutable THEN 0 ELSE g[t]]
    BY DEF Init
  <2>2. \A t \in Turfs : g[t] \in Nat
    BY DecompressAssumption
  <2> QED
    BY <2>1, <2>2
<1>5. TypeOK
  <2>1. jobs \in Seq({"decompress", "planet"} \X Turfs)
    BY DecompressAssumption DEF Init
  <2>2. target \in [Turfs -> Turfs \cup {NoDir}] /\ dir \in [Turfs -> Turfs \cup {NoDir}]
    BY DEF Init
  <2> QED
    BY <1>1, <1>2, <1>3, <1>4, <2>1, <2>2 DEF Init, TypeOK
<1> QED
  <2>1. pc = "idle" /\ ToSet(order) = {} /\ Len(ripped) = 0
    BY <1>1 DEF Init
  <2> QED
    BY <1>5, <2>1 DEF Inv, SpaceFound, FreshFlood, Aiming, Cleared, Reached

\* The callback that ran makes way for the next one.
LEMMA NextJob ==
    TypeOK /\ jobs # << >> => /\ Tail(jobs) \in Seq({"decompress", "planet"} \X Turfs)
                              /\ Kind \in {"decompress", "planet"}
<1> SUFFICES ASSUME TypeOK, jobs # << >>
             PROVE  /\ Tail(jobs) \in Seq({"decompress", "planet"} \X Turfs)
                    /\ Kind \in {"decompress", "planet"}
  OBVIOUS
<1> DEFINE J == {"decompress", "planet"} \X Turfs
<1>1. jobs \in Seq(J)
  BY DEF TypeOK
<1>2. \A j \in J : j[1] \in {"decompress", "planet"}
  OBVIOUS
<1> HIDE DEF J
<1>3. Tail(jobs) \in Seq(J) /\ jobs[1] \in J
  <2>1. Head(jobs) \in J /\ Tail(jobs) \in Seq(J) /\ Head(jobs) = jobs[1]
    BY <1>1, HeadTailProperties
  <2> QED
    BY <2>1
<1> QED
  BY <1>2, <1>3 DEF Kind, J

LEMMA StepBegin == Inv /\ Begin => Inv'
<1> SUFFICES ASSUME Inv, Begin PROVE Inv'
  OBVIOUS
<1>1. << >> \in Seq(Turfs) /\ << >> \in Seq(Turfs \X Nat) /\ ToSet(<< >>) = {} /\ Len(<< >>) = 0
  BY EmptySeq DEF ToSet
<1>2. turfs' \in Seq(Turfs)
  <2>1. CASE turfs' = << >>
    BY <1>1, <2>1
  <2>2. CASE jobs[1][2] \in registered /\ turfs' = <<jobs[1][2]>>
    BY <2>2 DEF Inv, TypeOK
  <2> QED
    BY <2>1, <2>2 DEF Begin
<1>3. pc' \in {"idle", "fill"}
  BY DEF Begin
<1>4. TypeOK'
  <2>1. jobs' \in Seq({"decompress", "planet"} \X Turfs) /\ (pc' # "idle" => jobs' # << >>)
    BY NextJob DEF Inv, TypeOK, Begin
  <2> QED
    BY <1>1, <1>2, <1>3, <2>1 DEF Inv, TypeOK, Begin, arena
<1> QED
  BY <1>1, <1>3, <1>4 DEF Begin, Inv, SpaceFound, FreshFlood, Aiming, Cleared, Reached

\* What joins the queue of the first flood is of the arena, and nothing leaves it.
LEMMA ExpandFacts ==
    ASSUME TypeOK, NEW cur, Expand(cur)
    PROVE  turfs' \in Seq(Turfs) /\ ToSet(turfs) \subseteq ToSet(turfs')
<1> DEFINE fresh == Near(cur) \ ToSet(turfs)
<1>1. CASE UNCHANGED turfs
  BY <1>1 DEF TypeOK
<1>2. CASE turfs' = turfs \o SetToSeq(fresh)
  <2>1. fresh \subseteq Turfs /\ IsFiniteSet(fresh)
    BY DecompressAssumption, FS_Subset DEF Near, TypeOK
  <2> HIDE DEF fresh
  <2>2. SetToSeq(fresh) \in Seq(fresh)
    BY <2>1, SomeOrder
  <2>3. SetToSeq(fresh) \in Seq(Turfs)
    BY <2>1, <2>2
  <2> QED
    BY <1>2, <2>3, ToSetConcat DEF TypeOK
<1> QED
  BY <1>1, <1>2 DEF Expand

LEMMA StepFillTurn == Inv /\ FillTurn => Inv'
<1> SUFFICES ASSUME Inv, FillTurn PROVE Inv'
  OBVIOUS
<1> DEFINE cur == turfs[at + 1]
<1>1. TypeOK /\ pc = "fill" /\ pc' = "fill" /\ order = << >> /\ ripped = << >>
  BY DEF Inv, FreshFlood, FillTurn, Filling
<1>2. cur \in Turfs /\ cur \in ToSet(turfs)
  <2>1. at + 1 \in 1..Len(turfs)
    BY <1>1, LenProperties DEF TypeOK, FillTurn
  <2> QED
    BY <1>1, <2>1, ToSetFacts, ElementOfSeq DEF TypeOK
<1>3. /\ UNCHANGED <<world, registered, edges, gas, jobs, order, dir, ripped>>
      /\ at' = at + 1 /\ Kind' = Kind
  BY DEF FillTurn, arena, second, Kind
<1>4. turfs' \in Seq(Turfs) /\ ToSet(turfs) \subseteq ToSet(turfs')
  BY <1>1, ExpandFacts DEF FillTurn, TypeOK
<1>5. \/ UNCHANGED <<spaces, target>>
      \/ /\ Kind = "planet" /\ UNCHANGED target
         /\ spaces' = Append(spaces, cur)
      \/ /\ cur \in OpenSpace
         /\ spaces' = Append(spaces, cur)
         /\ target' = [target EXCEPT ![cur] = cur]
  BY DEF FillTurn
<1>6. Append(spaces, cur) \in Seq(Turfs) /\ ToSet(Append(spaces, cur)) = ToSet(spaces) \cup {cur}
  BY <1>1, <1>2, ToSetAppend DEF TypeOK
<1>7. spaces' \in Seq(Turfs) /\ target' \in [Turfs -> Turfs \cup {NoDir}]
  BY <1>1, <1>2, <1>5, <1>6 DEF TypeOK
<1>8. TypeOK'
  BY <1>1, <1>3, <1>4, <1>7 DEF TypeOK
<1>9. SpaceFound'
  <2>1. OpenSpace' = OpenSpace
    BY <1>3 DEF OpenSpace
  <2>2. Kind = "decompress" => ToSet(spaces) \subseteq ToSet(turfs) \cap OpenSpace
    BY <1>1 DEF Inv, SpaceFound
  <2>3. Kind = "decompress" => ToSet(spaces') \subseteq ToSet(turfs') \cap OpenSpace
    BY <1>2, <1>4, <1>5, <1>6, <2>2
  <2> QED
    BY <1>1, <1>3, <2>1, <2>3 DEF SpaceFound
<1>10. FreshFlood'
  <2>1. Kind = "decompress" => \A s \in ToSet(spaces) : target[s] = s
    BY <1>1 DEF Inv, FreshFlood
  <2>2. Kind = "decompress" => \A s \in ToSet(spaces') : target'[s] = s
    <3>1. ToSet(spaces) \subseteq Turfs
      BY <1>1, ToSetFacts DEF TypeOK
    <3>2. CASE Kind = "decompress" /\ UNCHANGED <<spaces, target>>
      BY <2>1, <3>2
    <3>3. CASE /\ Kind = "decompress" /\ spaces' = Append(spaces, cur)
               /\ target' = [target EXCEPT ![cur] = cur]
      <4>1. \A s \in Turfs : target'[s] = IF s = cur THEN cur ELSE target[s]
        BY <1>1, <3>3 DEF TypeOK
      <4>2. ToSet(spaces') = ToSet(spaces) \cup {cur}
        BY <1>6, <3>3
      <4> HIDE DEF cur
      <4> QED
        BY <1>2, <2>1, <3>1, <3>3, <4>1, <4>2
    <3> QED
      BY <1>5, <3>2, <3>3
  <2> QED
    BY <1>1, <1>3, <2>2 DEF Inv, FreshFlood
<1>11. ToSet(order') = {} /\ Len(ripped') = 0
  BY <1>1, <1>3, EmptySeq DEF ToSet
<1>12. Aiming' /\ Cleared' /\ Reached'
  BY <1>1, <1>11 DEF Aiming, Cleared, Reached
<1> QED
  BY <1>8, <1>9, <1>10, <1>12 DEF Inv

LEMMA StepConsider == Inv /\ Consider => Inv'
<1> SUFFICES ASSUME Inv, Consider PROVE Inv'
  OBVIOUS
<1>1. /\ UNCHANGED <<world, gas, target, jobs, pc, turfs, at, spaces, warned, order, dir, ripped>>
      /\ Kind' = Kind /\ pc = "fill"
  BY DEF Consider, second, Kind
<1>2. registered' \in SUBSET Turfs /\ edges' \in SUBSET (Turfs \X Turfs)
  BY DEF Inv, TypeOK, Consider
<1>3. TypeOK'
  BY <1>1, <1>2 DEF Inv, TypeOK
<1>4. SpaceFound' /\ FreshFlood'
  BY <1>1 DEF Inv, SpaceFound, FreshFlood, OpenSpace
<1>5. Aiming' /\ Cleared' /\ Reached'
  BY <1>1 DEF Inv, Aiming, Cleared, Reached
<1> QED
  BY <1>3, <1>4, <1>5 DEF Inv

\* The turfs of space that are still there are open to space, as they are space.
LEMMA StepFillEnd == Inv /\ FillEnd => Inv'
<1> SUFFICES ASSUME Inv, FillEnd PROVE Inv'
  OBVIOUS
<1>1. /\ UNCHANGED <<world, registered, edges, gas, target, turfs, spaces, warned, dir, ripped>>
      /\ pc = "fill" /\ at' = 0 /\ Len(ripped) = 0 /\ TypeOK
  BY EmptySeq DEF FillEnd, FillEnding, Filling, arena, Inv, FreshFlood
<1>2. CASE pc' = "idle" /\ order' = order /\ jobs' = Tail(jobs)
  <2>1. TypeOK'
    BY <1>1, <1>2, NextJob DEF TypeOK
  <2> QED
    BY <1>1, <1>2, <2>1 DEF Inv, SpaceFound, FreshFlood, Aiming, Cleared, Reached
<1>3. CASE pc' = "spread" /\ order' = Present /\ jobs' = jobs /\ Kind = "decompress" /\ ~warned
  <2>1. Present \in Seq(Turfs) /\ ToSet(Present) \subseteq ToSet(spaces) \cap registered
    BY <1>1, PresentFacts
  <2>2. TypeOK'
    BY <1>1, <1>3, <2>1 DEF TypeOK
  <2>3. Kind' = Kind
    BY <1>3 DEF Kind
  <2>4. SpaceFound' /\ FreshFlood' /\ Cleared'
    BY <1>1, <1>3, <2>3 DEF Inv, SpaceFound, FreshFlood, OpenSpace, Cleared
  <2>5. Aiming'
    <3>1. \A t \in ToSet(Present) : t \in Turfs /\ target[t] = t /\ t \in ToSet(spaces) /\ dir[t] = NoDir
      BY <1>1, <1>3, <2>1 DEF Inv, FreshFlood, TypeOK
    <3> QED
      BY <1>1, <1>3, <3>1 DEF Aiming
  <2>6. \A t \in ToSet(Present) : t \in registered /\ Exposed(t)
    BY <2>1 DEF Exposed
  <2>7. \A t : Exposed(t)' = Exposed(t)
    BY <1>1 DEF Exposed
  <2>8. Present # << >> => ToSet(spaces) \cap registered # {}
    <3>1. Present # << >> => 1 \in 1..Len(Present)
      BY <2>1, EmptySeq, LenProperties
    <3>2. ToSet(Present) = {Present[k] : k \in 1..Len(Present)}
      BY <2>1, ToSetFacts
    <3> QED
      BY <2>1, <3>1, <3>2
  <2>9. 0 <= Len(Present)
    BY <2>1, LenProperties
  <2>10. Reached'
    BY <1>1, <1>3, <2>6, <2>7, <2>8, <2>9 DEF Reached
  <2> QED
    BY <2>2, <2>4, <2>5, <2>10 DEF Inv
<1>4. Kind \in {"decompress", "planet"}
  BY <1>1, NextJob DEF TypeOK
<1>5. \/ pc' = "idle" /\ order' = order /\ jobs' = Tail(jobs)
      \/ /\ pc' = "spread" /\ order' = Present /\ jobs' = jobs
         /\ ~(Kind = "planet" \/ warned \/ spaces = << >>)
  BY DEF FillEnd, FillEnding
<1> QED
  BY <1>2, <1>3, <1>4, <1>5

-----------------------------------------------------------------------------
(***************************************************************************)
(* The second flood and the clearing, in which nothing that Exposed reads   *)
(* changes.                                                                 *)
(***************************************************************************)
\* What an exposed turf reaches is exposed.
LEMMA ExposedNear ==
    ASSUME NEW t, Exposed(t), NEW u \in Near(t), u \notin world.immutable
    PROVE  Exposed(u)
<1> SUFFICES ASSUME NEW S \in SUBSET Turfs, ToSet(spaces) \cap registered \subseteq S,
                    \A e \in edges : e[1] \in S /\ e[2] \notin world.immutable => e[2] \in S
             PROVE  u \in S
  BY DEF Exposed
<1>1. t \in S
  BY DEF Exposed
<1>2. <<t, u>> \in edges
  BY DEF Near
<1> QED
  BY <1>1, <1>2

LEMMA StepSpreadTurn == Inv /\ SpreadTurn => Inv'
<1> SUFFICES ASSUME Inv, SpreadTurn PROVE Inv'
  OBVIOUS
<1> DEFINE cur == order[at + 1]
           new == IF at + 1 > Limit THEN {}
                  ELSE Near(cur) \ (world.immutable \cup ToSet(order))
<1>1. /\ TypeOK /\ pc = "spread" /\ pc' = "spread" /\ at' = at + 1 /\ at < Len(order)
      /\ UNCHANGED <<world, registered, edges, gas, jobs, turfs, spaces, warned, ripped>>
  BY DEF Inv, SpreadTurn, Spreading, arena
<1>2. /\ order' = order \o SetToSeq(new)
      /\ dir' = [u \in Turfs |-> IF u \in new THEN cur ELSE dir[u]]
      /\ target' = [u \in Turfs |-> IF u \in new THEN target[cur] ELSE target[u]]
  BY DEF SpreadTurn, Spreading
<1>3. cur \in Turfs /\ cur \in ToSet(order)
  <2>1. at + 1 \in 1..Len(order)
    BY <1>1, LenProperties DEF TypeOK
  <2> QED
    BY <1>1, <2>1, ToSetFacts, ElementOfSeq DEF TypeOK
<1>4. /\ new \subseteq Turfs /\ IsFiniteSet(new) /\ new \cap ToSet(order) = {}
      /\ new \subseteq registered \cap Near(cur) /\ new \cap world.immutable = {}
  BY <1>1, DecompressAssumption, FS_Subset DEF Near, TypeOK
<1> HIDE DEF cur, new
<1>5. SetToSeq(new) \in Seq(Turfs) /\ ToSet(SetToSeq(new)) \subseteq new
  <2>1. SetToSeq(new) \in Seq(new)
    BY <1>4, SomeOrder
  <2> QED
    BY <1>4, <2>1, ToSetFacts
<1>6. order' \in Seq(Turfs) /\ ToSet(order') \subseteq ToSet(order) \cup new /\ ToSet(order) \subseteq ToSet(order')
  BY <1>1, <1>2, <1>5, ToSetConcat DEF TypeOK
<1>7. ToSet(order) \subseteq Turfs
  BY <1>1, ToSetFacts DEF TypeOK
<1>8. target[cur] \in Turfs \cup {NoDir}
  BY <1>1, <1>3 DEF TypeOK
<1>9. TypeOK'
  <2>1. target' \in [Turfs -> Turfs \cup {NoDir}]
    BY <1>1, <1>2, <1>8 DEF TypeOK
  <2>2. dir' \in [Turfs -> Turfs \cup {NoDir}]
    BY <1>1, <1>2, <1>3 DEF TypeOK
  <2> QED
    BY <1>1, <1>6, <2>1, <2>2 DEF TypeOK
<1>10. SpaceFound' /\ FreshFlood'
  BY <1>1 DEF Inv, SpaceFound, FreshFlood, OpenSpace, Kind
<1>11. Aiming'
  <2>1. ASSUME NEW t \in ToSet(order')
        PROVE  /\ target'[t] \in ToSet(spaces)
               /\ dir'[t] # NoDir =>
                    /\ dir'[t] \in ToSet(order')
                    /\ dir'[t] # target'[t] => target'[dir'[t]] = target'[t]
    <3>1. CASE t \in new
      <4>1. target'[t] = target[cur] /\ dir'[t] = cur
        BY <1>2, <1>4, <3>1
      <4>2. target'[cur] = target[cur]
        BY <1>2, <1>3, <1>4
      <4> QED
        BY <1>3, <1>6, <4>1, <4>2 DEF Inv, Aiming
    <3>2. CASE t \notin new
      <4>1. t \in ToSet(order) /\ target'[t] = target[t] /\ dir'[t] = dir[t]
        BY <1>2, <1>6, <1>7, <3>2
      <4>2. ASSUME dir[t] # NoDir PROVE dir[t] \in ToSet(order) /\ target'[dir[t]] = target[dir[t]]
        BY <1>2, <1>4, <1>7, <4>1, <4>2 DEF Inv, Aiming
      <4> QED
        BY <1>6, <4>1, <4>2 DEF Inv, Aiming
    <3> QED
      BY <3>1, <3>2
  <2> QED
    BY <1>1, <2>1 DEF Aiming
<1>12. Cleared'
  <2>1. ASSUME NEW k \in 1..Len(ripped)
        PROVE  ripped[k][1] \in ToSet(order') /\ dir'[ripped[k][1]] # NoDir
    <3>1. ripped[k][1] \in ToSet(order) /\ dir[ripped[k][1]] # NoDir
      BY DEF Inv, Cleared
    <3>2. dir'[ripped[k][1]] = dir[ripped[k][1]]
      BY <1>2, <1>4, <1>7, <3>1
    <3> QED
      BY <1>6, <3>1, <3>2
  <2> QED
    BY <1>1, <2>1 DEF Cleared
<1>13. Reached'
  <2>1. ASSUME NEW t \in ToSet(order') PROVE t \in registered /\ Exposed(t)
    <3>1. CASE t \in ToSet(order)
      BY <1>1, <3>1 DEF Inv, Reached
    <3>2. CASE t \in new
      <4>1. Exposed(cur)
        BY <1>1, <1>3 DEF Inv, Reached
      <4> QED
        BY <1>4, <3>2, <4>1, ExposedNear
    <3> QED
      BY <1>6, <3>1, <3>2
  <2>2. \A t : Exposed(t)' = Exposed(t)
    BY <1>1 DEF Exposed
  <2>3. at' <= Len(order')
    <3>1. Len(order') = Len(order) + Len(SetToSeq(new)) /\ Len(SetToSeq(new)) \in Nat /\ Len(order) \in Nat
      BY <1>1, <1>2, <1>5, ConcatProperties, LenProperties DEF TypeOK
    <3> QED
      BY <1>1, <3>1 DEF TypeOK
  <2>4. ToSet(spaces) \cap registered # {}
    <3>1. order # << >>
      BY <1>3 DEF ToSet
    <3> QED
      BY <1>1, <3>1 DEF Inv, Reached
  <2> QED
    BY <1>1, <2>1, <2>2, <2>3, <2>4 DEF Reached
<1> QED
  BY <1>9, <1>10, <1>11, <1>12, <1>13 DEF Inv

LEMMA StepSpreadEnd == Inv /\ SpreadEnd => Inv'
<1> SUFFICES ASSUME Inv, SpreadEnd PROVE Inv'
  OBVIOUS
<1>1. /\ UNCHANGED <<world, registered, edges, gas, target, jobs, turfs, at, spaces, warned,
                     order, dir, ripped>>
      /\ pc = "spread" /\ pc' = "clear"
  BY DEF SpreadEnd, arena, first, second
<1>2. \A t : Exposed(t)' = Exposed(t)
  BY <1>1 DEF Exposed
<1>3. TypeOK'
  BY <1>1 DEF Inv, TypeOK
<1>4. SpaceFound' /\ FreshFlood' /\ Aiming' /\ Cleared'
  BY <1>1 DEF Inv, SpaceFound, FreshFlood, Aiming, Cleared, OpenSpace, Kind
<1>5. Reached'
  BY <1>1, <1>2 DEF Inv, Reached
<1> QED
  BY <1>3, <1>4, <1>5 DEF Inv

\* The clearing takes the order from its end.
LEMMA Cleans ==
    ASSUME Inv, ClearTurn
    PROVE  /\ order[at] \in Turfs /\ order[at] \in ToSet(order) /\ order # << >>
           /\ \A t \in Turfs : t # order[at] => gas'[t] = gas[t]
<1>1. at \in 1..Len(order) /\ TypeOK
  BY LenProperties DEF Inv, TypeOK, Reached, ClearTurn
<1>2. order[at] \in Turfs /\ order[at] \in ToSet(order)
  BY <1>1, ToSetFacts, ElementOfSeq DEF TypeOK
<1>3. \A t \in Turfs : t # order[at] => gas'[t] = gas[t]
  BY <1>1 DEF ClearTurn, TypeOK
<1> QED
  BY <1>2, <1>3 DEF ToSet

LEMMA StepClearTurn == Inv /\ ClearTurn => Inv'
<1> SUFFICES ASSUME Inv, ClearTurn PROVE Inv'
  OBVIOUS
<1> DEFINE cur == order[at]
<1>1. /\ UNCHANGED <<world, registered, edges, target, jobs, turfs, spaces, warned, order, dir>>
      /\ pc = "clear" /\ pc' = "clear" /\ at' = at - 1 /\ at > 0 /\ at \in Nat /\ TypeOK
  BY DEF ClearTurn, arena, Inv, TypeOK
<1>2. cur \in Turfs /\ cur \in ToSet(order)
  BY Cleans
<1>3. \/ UNCHANGED <<gas, ripped>>
      \/ /\ dir[cur] # NoDir
         /\ gas' = [gas EXCEPT ![cur] = 0]
         /\ ripped' = Append(ripped, <<cur, gas'[dir[cur]]>>)
  BY DEF ClearTurn
<1> HIDE DEF cur
<1>4. gas' \in [Turfs -> Nat]
  <2>1. gas \in [Turfs -> Nat]
    BY <1>1 DEF TypeOK
  <2> QED
    BY <1>3, <2>1
<1>5. ripped' \in Seq(Turfs \X Nat) /\ Cleared'
  <2>1. CASE UNCHANGED ripped
    BY <1>1, <2>1 DEF Inv, TypeOK, Cleared
  <2>2. CASE dir[cur] # NoDir /\ ripped' = Append(ripped, <<cur, gas'[dir[cur]]>>)
    <3> DEFINE e == <<cur, gas'[dir[cur]]>>
    <3>1. e \in Turfs \X Nat /\ e[1] = cur
      BY <1>1, <1>2, <1>4, <2>2 DEF TypeOK
    <3> HIDE DEF e
    <3>2. ripped \in Seq(Turfs \X Nat) /\ ripped' = Append(ripped, e)
      BY <1>1, <2>2 DEF TypeOK, e
    <3>3. /\ ripped' \in Seq(Turfs \X Nat) /\ Len(ripped') = Len(ripped) + 1 /\ Len(ripped) \in Nat
          /\ \A k \in 1..Len(ripped) : ripped'[k] = ripped[k]
          /\ ripped'[Len(ripped) + 1] = e
      BY <3>1, <3>2, AppendProperties, LenProperties
    <3>4. ASSUME NEW k \in 1..Len(ripped')
          PROVE  ripped'[k][1] \in ToSet(order) /\ dir[ripped'[k][1]] # NoDir
      <4>1. k \in 1..Len(ripped) \/ k = Len(ripped) + 1
        BY <3>3
      <4> QED
        BY <1>2, <2>2, <3>1, <3>3, <4>1 DEF Inv, Cleared
    <3> QED
      BY <1>1, <3>3, <3>4 DEF Cleared
  <2> QED
    BY <1>3, <2>1, <2>2
<1>6. TypeOK'
  <2>1. at' \in Nat
    BY <1>1
  <2> QED
    BY <1>1, <1>4, <1>5, <2>1 DEF TypeOK
<1>7. SpaceFound' /\ FreshFlood' /\ Aiming'
  BY <1>1 DEF Inv, SpaceFound, FreshFlood, Aiming, OpenSpace, Kind
<1>8. Reached'
  <2>1. \A t : Exposed(t)' = Exposed(t)
    BY <1>1 DEF Exposed
  <2>2. at' <= Len(order)
    BY <1>1, LenProperties DEF Inv, Reached, TypeOK
  <2> QED
    BY <1>1, <2>1, <2>2 DEF Inv, Reached
<1> QED
  BY <1>5, <1>6, <1>7, <1>8 DEF Inv

LEMMA StepIdle == Inv /\ (ClearEnd \/ Rip \/ Fail) => Inv'
<1> SUFFICES ASSUME Inv, ClearEnd \/ Rip \/ Fail PROVE Inv'
  OBVIOUS
<1>1. /\ UNCHANGED <<world, registered, edges, gas, target, turfs, at, spaces, warned,
                     order, dir, ripped>>
      /\ pc' \in {"idle", "rip"}
  BY DEF ClearEnd, Rip, Fail, arena, first, second
<1>2. jobs' \in Seq({"decompress", "planet"} \X Turfs) /\ (pc' # "idle" => jobs' # << >>)
  BY NextJob DEF ClearEnd, Rip, Fail, Filling, Inv, TypeOK
<1>3. TypeOK'
  BY <1>1, <1>2 DEF Inv, TypeOK
<1> QED
  BY <1>1, <1>3 DEF Inv, SpaceFound, FreshFlood, Aiming, Cleared, Reached

LEMMA StepStutter == Inv /\ UNCHANGED vars => Inv'
<1> SUFFICES ASSUME Inv, UNCHANGED vars PROVE Inv'
  OBVIOUS
<1>1. UNCHANGED <<world, registered, edges, gas, target, jobs, pc, turfs, at, spaces, warned,
                  order, dir, ripped>>
  BY DEF vars, arena, first, second
<1>2. \A t : Exposed(t)' = Exposed(t)
  BY <1>1 DEF Exposed
<1>3. TypeOK'
  BY <1>1 DEF Inv, TypeOK
<1>4. SpaceFound' /\ FreshFlood' /\ Aiming' /\ Cleared'
  BY <1>1 DEF Inv, SpaceFound, FreshFlood, Aiming, Cleared, OpenSpace, Kind
<1>5. Reached'
  BY <1>1, <1>2 DEF Inv, Reached
<1> QED
  BY <1>3, <1>4, <1>5 DEF Inv

-----------------------------------------------------------------------------
(***************************************************************************)
(* The theorems.                                                            *)
(***************************************************************************)
\* The invariant is inductive: every step of a callback keeps it, with
\* whatever BYOND does to the arena between two turfs of the first flood.
THEOREM Invariant == Spec => []Inv
<1>1. Inv /\ [Next]_vars => Inv'
  BY StepBegin, StepFillTurn, StepConsider, StepFillEnd, StepSpreadTurn, StepSpreadEnd,
     StepClearTurn, StepIdle, StepStutter DEF Next
<1> QED
  BY InvInit, <1>1, PTL DEF Spec

\* explosively_depressurize unwraps what the arena answers for a turf it has
\* found before it called BYOND: the turf is always there.
THEOREM NeverPanics == Spec => []NoPanic
<1>1. Inv => NoPanic
  BY DEF Inv, Reached, NoPanic
<1> QED
  BY Invariant, <1>1, PTL

\* Whatever a decompression has cleared is told to blow towards a turf of space
\* that the same callback has found, by way of the turf it gives its air to.
THEOREM AimsAtSpace == Spec => []TargetsAreSpace
<1>1. Inv => TargetsAreSpace
  BY DEF Inv, Aiming, Cleared, TargetsAreSpace
<1> QED
  BY Invariant, <1>1, PTL

\* Only a turf that is open to space when the air goes loses its air: a
\* firelock that closed during the first flood holds.
THEOREM SealedTurfsKeepAir == Spec => SealedKeepAir
<1>1. Inv /\ [Next]_vars => [\A t \in Turfs : gas'[t] # gas[t] => Exposed(t)]_vars
  <2> SUFFICES ASSUME Inv, [Next]_vars, NEW t \in Turfs, gas'[t] # gas[t] PROVE Exposed(t)
    OBVIOUS
  <2>1. ClearTurn
    BY DEF Next, Begin, FillTurn, Consider, FillEnd, FillEnding, SpreadTurn, Spreading, SpreadEnd,
           ClearEnd, Rip, Fail, vars
  <2>2. t = order[at] /\ order[at] \in ToSet(order)
    BY <2>1, Cleans
  <2> QED
    BY <2>1, <2>2 DEF Inv, Reached, ClearTurn
<1> QED
  BY Invariant, <1>1, PTL DEF Spec, SealedKeepAir

\* Air goes only in a decompression that met no planet and that found space,
\* which is still there when the air goes.
THEOREM NothingLost == Spec => NothingIfPlanet
<1>1. Inv /\ [Next]_vars =>
        [gas' # gas => Kind = "decompress" /\ ~warned
                       /\ ToSet(turfs) \cap world.immutable \cap registered # {}]_vars
  <2> SUFFICES ASSUME Inv, [Next]_vars, gas' # gas
               PROVE  /\ Kind = "decompress" /\ ~warned
                      /\ ToSet(turfs) \cap world.immutable \cap registered # {}
    OBVIOUS
  <2>1. ClearTurn
    BY DEF Next, Begin, FillTurn, Consider, FillEnd, FillEnding, SpreadTurn, Spreading, SpreadEnd,
           ClearEnd, Rip, Fail, vars
  <2>2. pc = "clear" /\ order # << >>
    BY <2>1, Cleans DEF ClearTurn
  <2>3. ToSet(spaces) \cap registered # {}
    BY <2>2 DEF Inv, Reached
  <2> QED
    BY <2>2, <2>3 DEF Inv, SpaceFound, OpenSpace
<1> QED
  BY Invariant, <1>1, PTL DEF Spec, NothingIfPlanet
=============================================================================
