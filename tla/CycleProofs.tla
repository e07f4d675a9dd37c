----------------------------- MODULE CycleProofs -----------------------------
(***************************************************************************)
(* Theorems about what moves gas between turfs in a cycle.                  *)
(*                                                                          *)
(* First the cycle of SSair with its excited groups, for any turfs,         *)
(* adjacency, goals and number of calls: whatever interrupts a hook and     *)
(* whatever DM changes in between, a group works on fresh turfs, once, and  *)
(* keeps their gas.                                                         *)
(*                                                                          *)
(* Then katmos, for any arena, gases and limit: which turfs two zones may   *)
(* share, and what becomes of zones next to space.                          *)
(***************************************************************************)
EXTENDS AirCycle, Katmos, InductionLemmas

-----------------------------------------------------------------------------
(***************************************************************************)
(* Some of the turfs of a sequence.                                         *)
(***************************************************************************)
LEMMA AmongFacts ==
    ASSUME NEW E, NEW seq \in Seq(E), NEW set
    PROVE  Among(seq, set) \in Seq(E) /\ ToSet(Among(seq, set)) = ToSet(seq) \cap set
<1> DEFINE n == Len(seq)
           Pick(r, t) == IF t \in set THEN Append(r, t) ELSE r
           F == [p \in Seq(E) \X E |-> Pick(p[1], p[2])]
           iter == CHOOSE g : g = [s \in SUBSET (1..n) |->
                        IF s = {} THEN << >> ELSE Pick(g[s \ {Max(s)}], seq[Max(s)])]
           Iterates(g) == g = [s \in SUBSET (1..n) |->
                        IF s = {} THEN << >> ELSE Pick(g[s \ {Max(s)}], seq[Max(s)])]
<1>1. n \in Nat /\ DOMAIN seq = 1..n /\ \A k \in 1..n : seq[k] \in E
  BY LenProperties, ElementOfSeq
<1>2. Among(seq, set) = iter[1..n]
  BY <1>1 DEF Among, FoldLeft, MapThenFoldSet
<1>3. iter = CHOOSE g : Iterates(g)
  OBVIOUS
<1>4. ASSUME NEW r \in Seq(E), NEW t \in E
      PROVE  Pick(r, t) \in Seq(E) /\ ToSet(Pick(r, t)) = ToSet(r) \cup ({t} \cap set)
  <2>1. Append(r, t) \in Seq(E) /\ ToSet(Append(r, t)) = ToSet(r) \cup {t}
    BY ToSetAppend
  <2> QED
    BY <2>1
<1>5. << >> \in Seq(E)
  BY EmptySeq
<1>6. F \in [Seq(E) \X E -> Seq(E)]
  BY <1>4
<1> HIDE DEF n, F, iter, Pick
<1>7. PICK g : Folding(g, Seq(E), << >>, F, seq, n)
  BY <1>1, <1>5, <1>6, FoldExists
<1>8. ASSUME NEW s \in SUBSET (1..n), s # {}
      PROVE  s \ {Max(s)} \in SUBSET (1..n) /\ Max(s) \in 1..n /\ seq[Max(s)] \in E
  BY <1>1, <1>8, LargestNumber
<1>9. \A s \in SUBSET (1..n) :
            g[s] = IF s = {} THEN << >> ELSE Pick(g[s \ {Max(s)}], seq[Max(s)])
  BY <1>7, <1>8 DEF F, Folding
<1>10. Iterates(g)
  BY <1>7, <1>9 DEF Folding
<1> HIDE DEF Iterates
<1>11. Iterates(iter)
  BY <1>3, <1>10
<1>12. \A s \in SUBSET (1..n) :
            iter[s] = IF s = {} THEN << >> ELSE Pick(iter[s \ {Max(s)}], seq[Max(s)])
  BY <1>11 DEF Iterates
<1> DEFINE Right(k) == /\ iter[1..k] \in Seq(E)
                       /\ ToSet(iter[1..k]) = {seq[j] : j \in 1..k} \cap set
           P == {k \in Nat : k <= n => Right(k)}
<1>13. 0 \in P
  <2>1. 1..0 = {} /\ {} \in SUBSET (1..n) /\ ToSet(<< >>) = {}
    BY DEF ToSet
  <2>2. iter[1..0] = << >>
    BY <1>12, <2>1
  <2> QED
    BY <1>5, <2>1, <2>2
<1>14. ASSUME NEW k \in P PROVE k + 1 \in P
  <2>1. k \in Nat /\ k + 1 \in Nat
    OBVIOUS
  <2>2. ASSUME k + 1 <= n PROVE Right(k + 1)
    <3>1. Right(k) /\ k + 1 \in 1..n /\ seq[k + 1] \in E
      BY <1>1, <2>1, <2>2
    <3>2. 1..(k + 1) \in SUBSET (1..n) /\ 1..(k + 1) # {} /\ Max(1..(k + 1)) = k + 1
          /\ (1..(k + 1)) \ {k + 1} = 1..k
      <4>1. 1..(k + 1) # {} /\ Max(1..(k + 1)) = k + 1 /\ (1..(k + 1)) \ {k + 1} = 1..k
        BY <2>1, LastTaken
      <4>2. 1..(k + 1) \in SUBSET (1..n)
        BY <1>1, <2>1, <2>2
      <4> QED
        BY <4>1, <4>2
    <3>3. iter[1..(k + 1)] = Pick(iter[1..k], seq[k + 1])
      BY <1>12, <3>2
    <3>4. {seq[j] : j \in 1..(k + 1)} = {seq[j] : j \in 1..k} \cup {seq[k + 1]}
      <4>1. 1..(k + 1) = 1..k \cup {k + 1}
        BY <2>1
      <4> QED
        BY <4>1
    <3>5. /\ Pick(iter[1..k], seq[k + 1]) \in Seq(E)
          /\ ToSet(Pick(iter[1..k], seq[k + 1])) = ToSet(iter[1..k]) \cup ({seq[k + 1]} \cap set)
      BY <1>4, <3>1
    <3> QED
      BY <3>1, <3>3, <3>4, <3>5
  <2> QED
    BY <2>1, <2>2
<1>15. n \in P
  <2> HIDE DEF P
  <2>1. P \in SUBSET Nat
    BY DEF P
  <2> QED
    BY <1>1, <1>13, <1>14, <2>1, Induction
<1>16. Right(n)
  BY <1>1, <1>15
<1>17. ToSet(seq) = {seq[j] : j \in 1..n}
  BY ToSetFacts DEF n
<1> QED
  BY <1>2, <1>16, <1>17

-----------------------------------------------------------------------------
(***************************************************************************)
(* The cycle of SSair.  In the invariant, what the hooks worked on rises    *)
(* with the calls of process_turfs and stays below what a channel holds; and*)
(* a turf that the groups of a run have not found has the gas it began with.*)
(***************************************************************************)
Jobs == [todo : SUBSET Turfs, found : SUBSET Turfs, base : [Turfs -> Int]]

CycleTyped ==
    /\ gas \in [Turfs -> Int]
    /\ known \in SUBSET Turfs
    /\ enabled \in SUBSET Turfs
    /\ cycle \in Nat
    /\ groups # NoSet => groups.cycle \in Nat /\ groups.turfs \in SUBSET Turfs
    /\ equalizes # NoSet => equalizes.cycle \in Nat
    /\ job # NoSet => job \in Jobs
    /\ worked \in [groups : Seq(Nat), equalizes : Seq(Nat)]

\* The cycles of seq rise, and none is later than n.
Rising(seq, n) ==
    /\ \A k \in 1..Len(seq) : seq[k] <= n
    /\ \A k \in 1..(Len(seq) - 1) : seq[k] < seq[k + 1]

InOrder ==
    /\ groups # NoSet => groups.cycle = cycle
    /\ equalizes # NoSet => equalizes.cycle <= cycle
    /\ Rising(worked.groups, IF groups = NoSet THEN cycle ELSE cycle - 1)
    /\ Rising(worked.equalizes, IF equalizes = NoSet THEN cycle ELSE equalizes.cycle - 1)

\* What the groups have done to the turfs so far.
Eased ==
    job # NoSet => \A t \in Turfs :
        \/ gas[t] = job.base[t]
        \/ t \in job.found /\ Stencil!Distance(gas[t], job.base[t]) < Goal

CycleInv == CycleTyped /\ InOrder /\ Eased

LEMMA RisingBelow ==
    ASSUME NEW s \in Seq(Nat), NEW n \in Int, NEW m \in Int, n <= m, Rising(s, n)
    PROVE  Rising(s, m)
<1>1. \A k \in 1..Len(s) : s[k] \in Nat
  BY ElementOfSeq
<1> QED
  BY <1>1 DEF Rising

LEMMA RisingFurther ==
    ASSUME NEW s \in Seq(Nat), NEW m \in Nat, Rising(s, m - 1)
    PROVE  Append(s, m) \in Seq(Nat) /\ Rising(Append(s, m), m)
<1> DEFINE r == Append(s, m)
<1>1. /\ r \in Seq(Nat) /\ Len(r) = Len(s) + 1 /\ Len(s) \in Nat
      /\ \A k \in 1..Len(s) : r[k] = s[k]
      /\ r[Len(s) + 1] = m
  BY AppendProperties, LenProperties
<1>2. \A k \in 1..Len(s) : s[k] \in Nat /\ s[k] <= m - 1
  BY ElementOfSeq DEF Rising
<1>3. \A k \in 1..(Len(s) - 1) : s[k] < s[k + 1]
  BY DEF Rising
<1> HIDE DEF r
<1>4. ASSUME NEW k \in 1..Len(r) PROVE r[k] <= m
  <2>1. CASE k \in 1..Len(s)
    BY <1>1, <1>2, <2>1
  <2>2. CASE k \notin 1..Len(s)
    <3>1. k = Len(s) + 1
      BY <1>1, <2>2
    <3> QED
      BY <1>1, <3>1
  <2> QED
    BY <2>1, <2>2
<1>5. ASSUME NEW k \in 1..(Len(r) - 1) PROVE r[k] < r[k + 1]
  <2>1. k \in 1..Len(s) /\ r[k] = s[k]
    BY <1>1
  <2>2. CASE k = Len(s)
    BY <1>1, <1>2, <2>1, <2>2
  <2>3. CASE k # Len(s)
    <3>1. k \in 1..(Len(s) - 1) /\ k + 1 \in 1..Len(s)
      BY <1>1, <2>1, <2>3
    <3> QED
      BY <1>1, <1>3, <2>1, <3>1
  <2> QED
    BY <2>2, <2>3
<1> QED
  BY <1>1, <1>4, <1>5 DEF Rising, r

-----------------------------------------------------------------------------
(***************************************************************************)
(* Groups.  What the flood fill has gathered, whatever it goes on to.       *)
(***************************************************************************)
GroupRecords ==
    [border : Seq(Turfs), found : SUBSET Turfs, members : SUBSET Turfs, min : Int, max : Int]

\* Members and border are turfs of there that were not found before, and the
\* members are as close to each other as the goal asks for.
Gathered(group, moles, there, before) ==
    /\ group \in GroupRecords
    /\ before \subseteq group.found
    /\ ToSet(group.border) \cup group.members \subseteq (group.found \ before) \cap there
    /\ \A u \in group.members : group.min <= moles[u] /\ moles[u] <= group.max
    /\ group.members # {} => group.max - group.min < Goal

LEMMA StretchedBy ==
    ASSUME NEW group, group.min \in Int, group.max \in Int, NEW p \in Int
    PROVE  LET span == Stretched(group, p)
           IN  /\ span.min \in Int /\ span.min <= group.min /\ span.min <= p
               /\ span.max \in Int /\ group.max <= span.max /\ p <= span.max
<1>1. ASSUME NEW a \in Int, NEW b \in Int
      PROVE  /\ Min({a, b}) \in Int /\ Min({a, b}) <= a /\ Min({a, b}) <= b
             /\ Max({a, b}) \in Int /\ a <= Max({a, b}) /\ b <= Max({a, b})
  <2>1. Min({a, b}) = (CHOOSE x \in {a, b} : \A y \in {a, b} : x <= y)
    BY DEF Min
  <2>2. Max({a, b}) = (CHOOSE x \in {a, b} : \A y \in {a, b} : x >= y)
    BY DEF Max
  <2>3. \E x \in {a, b} : \A y \in {a, b} : x <= y
    OBVIOUS
  <2>4. \E x \in {a, b} : \A y \in {a, b} : x >= y
    OBVIOUS
  <2>5. Min({a, b}) \in {a, b} /\ \A y \in {a, b} : Min({a, b}) <= y
    BY <2>1, <2>3
  <2>6. Max({a, b}) \in {a, b} /\ \A y \in {a, b} : Max({a, b}) >= y
    BY <2>2, <2>4
  <2> QED
    BY <2>5, <2>6
<1> QED
  BY <1>1 DEF Stretched

\* The next turf of the border joins the group or leaves it.
LEMMA VisitGathers ==
    ASSUME NEW moles \in [Turfs -> Int], NEW there \in SUBSET Turfs, NEW on \in SUBSET Turfs,
           NEW before \in SUBSET Turfs, NEW group,
           Gathered(group, moles, there \cap on, before), group.border # << >>
    PROVE  Gathered(Visit(group, moles, there, on), moles, there \cap on, before)
<1> DEFINE t     == Head(group.border)
           span  == Stretched(group, moles[t])
           fresh == Among(Adjacent[t], there \ group.found)
           rest  == Tail(group.border)
           new   == Among(fresh, on)
<1>1. /\ group.border \in Seq(Turfs) /\ group.found \in SUBSET Turfs
      /\ group.members \in SUBSET Turfs /\ group.min \in Int /\ group.max \in Int
  BY DEF Gathered, GroupRecords
<1>2. /\ t \in Turfs /\ rest \in Seq(Turfs) /\ ToSet(rest) \subseteq ToSet(group.border)
      /\ t \in ToSet(group.border)
  <2>1. t \in Turfs /\ rest \in Seq(Turfs) /\ ToSet(rest) \subseteq ToSet(group.border)
    BY <1>1, ToSetTail
  <2>2. t = group.border[1] /\ 1 \in 1..Len(group.border)
    BY <1>1
  <2>3. ToSet(group.border) = {group.border[k] : k \in 1..Len(group.border)}
    BY <1>1, ToSetFacts
  <2> QED
    BY <2>1, <2>2, <2>3
<1>3. moles[t] \in Int
  BY <1>2
<1>4. /\ span.min \in Int /\ span.min <= group.min /\ span.min <= moles[t]
      /\ span.max \in Int /\ group.max <= span.max /\ moles[t] <= span.max
  BY <1>1, <1>3, StretchedBy
<1>5. Adjacent[t] \in Seq(Turfs)
  BY <1>2, GroupsAssumption
<1>6. fresh \in Seq(Turfs) /\ ToSet(fresh) = ToSet(Adjacent[t]) \cap (there \ group.found)
  BY <1>5, AmongFacts
<1>7. new \in Seq(Turfs) /\ ToSet(new) = ToSet(fresh) \cap on
  BY <1>6, AmongFacts
<1>8. rest \o new \in Seq(Turfs) /\ ToSet(rest \o new) = ToSet(rest) \cup ToSet(new)
  <2>1. ASSUME NEW s \in Seq(Turfs), NEW r \in Seq(Turfs)
        PROVE  s \o r \in Seq(Turfs) /\ ToSet(s \o r) = ToSet(s) \cup ToSet(r)
    BY ToSetConcat
  <2> QED
    BY <1>2, <1>7, <2>1
<1>9. /\ before \subseteq group.found
      /\ ToSet(group.border) \cup group.members
            \subseteq (group.found \ before) \cap (there \cap on)
      /\ \A u \in group.members : group.min <= moles[u] /\ moles[u] <= group.max
      /\ group \in GroupRecords
  BY DEF Gathered
<1>10. Visit(group, moles, there, on) =
            IF span.max - span.min >= Goal THEN [group EXCEPT !.border = rest]
            ELSE [group EXCEPT !.border = rest \o new, !.found = @ \cup ToSet(fresh),
                               !.members = @ \cup {t}, !.min = span.min, !.max = span.max]
  BY DEF Visit
<1> HIDE DEF t, span, fresh, rest, new
<1>11. CASE span.max - span.min >= Goal
  <2> DEFINE next == [group EXCEPT !.border = rest]
  <2>1. /\ next \in GroupRecords /\ next.border = rest /\ next.found = group.found
        /\ next.members = group.members /\ next.min = group.min /\ next.max = group.max
    BY <1>2, <1>9 DEF GroupRecords
  <2>2. Visit(group, moles, there, on) = next
    BY <1>10, <1>11
  <2> HIDE DEF next
  <2>3. Gathered(next, moles, there \cap on, before)
    BY <1>2, <2>1 DEF Gathered
  <2> QED
    BY <2>2, <2>3
<1>12. CASE ~(span.max - span.min >= Goal)
  <2> DEFINE next == [group EXCEPT !.border = rest \o new, !.found = @ \cup ToSet(fresh),
                               !.members = @ \cup {t}, !.min = span.min, !.max = span.max]
  <2>1. ToSet(fresh) \in SUBSET Turfs
    BY <1>6
  <2>2. /\ next \in GroupRecords /\ next.border = rest \o new
        /\ next.found = group.found \cup ToSet(fresh)
        /\ next.members = group.members \cup {t} /\ next.min = span.min /\ next.max = span.max
    BY <1>2, <1>4, <1>8, <1>9, <2>1 DEF GroupRecords
  <2>3. Visit(group, moles, there, on) = next
    BY <1>10, <1>12
  <2> HIDE DEF next
  <2>4. before \subseteq next.found
    BY <1>9, <2>2
  <2>5. ToSet(next.border) \cup next.members \subseteq (next.found \ before) \cap (there \cap on)
    BY <1>2, <1>6, <1>7, <1>8, <1>9, <2>2
  <2>6. \A u \in next.members : next.min <= moles[u] /\ moles[u] <= next.max
    <3> TAKE u \in next.members
    <3>1. CASE u = t
      BY <1>4, <2>2, <3>1
    <3>2. CASE u \in group.members
      <4>1. group.min <= moles[u] /\ moles[u] <= group.max /\ moles[u] \in Int
        BY <1>1, <1>9, <3>2
      <4> QED
        BY <1>1, <1>4, <2>2, <4>1
    <3> QED
      BY <2>2, <3>1, <3>2
  <2>7. next.max - next.min < Goal
    BY <1>4, <1>12, <2>2, GroupsAssumption
  <2>8. Gathered(next, moles, there \cap on, before)
    BY <2>2, <2>4, <2>5, <2>6, <2>7 DEF Gathered
  <2> QED
    BY <2>3, <2>8
<1> QED
  BY <1>11, <1>12

\* A group whose flood fill begins at a turf that was not found before.
LEMMA GroupIsGathered ==
    ASSUME NEW moles \in [Turfs -> Int], NEW there \in SUBSET Turfs, NEW on \in SUBSET Turfs,
           NEW before \in SUBSET Turfs, NEW t \in (there \cap on) \ before
    PROVE  Gathered(GroupOf(t, moles, there, on, before), moles, there \cap on, before)
<1> DEFINE n == Cardinality(Turfs)
           E == 1..n
           seq == [k \in 1..n |-> k]
           base == [border |-> <<t>>, found |-> before \cup {t}, members |-> {},
                    min |-> moles[t], max |-> moles[t]]
           Turn(group, k) ==
               IF group.border = << >> \/ Cardinality(group.members) >= MaxGroup THEN group
               ELSE Visit(group, moles, there, on)
           X == {group \in GroupRecords : Gathered(group, moles, there \cap on, before)}
           F == [p \in X \X E |-> Turn(p[1], p[2])]
           iter == CHOOSE g : g = [s \in SUBSET (1..n) |->
                        IF s = {} THEN base ELSE Turn(g[s \ {Max(s)}], seq[Max(s)])]
           Iterates(g) == g = [s \in SUBSET (1..n) |->
                        IF s = {} THEN base ELSE Turn(g[s \ {Max(s)}], seq[Max(s)])]
<1>1. n \in Nat /\ DOMAIN seq = 1..n /\ \A k \in 1..n : seq[k] \in E
  BY GroupsAssumption, FS_CardinalityType
<1>2. GroupOf(t, moles, there, on, before) = iter[1..n]
  BY <1>1 DEF GroupOf, FoldLeft, MapThenFoldSet
<1>3. iter = CHOOSE g : Iterates(g)
  OBVIOUS
<1>4. base \in X
  <2>1. t \in Turfs /\ moles[t] \in Int /\ <<t>> \in Seq(Turfs) /\ ToSet(<<t>>) = {t}
    BY DEF ToSet
  <2>2. base \in GroupRecords
    BY <2>1 DEF GroupRecords
  <2>3. Gathered(base, moles, there \cap on, before)
    BY <2>1, <2>2 DEF Gathered
  <2> QED
    BY <2>2, <2>3
<1>5. ASSUME NEW group \in X, NEW k \in E PROVE Turn(group, k) \in X
  <2>1. CASE group.border = << >> \/ Cardinality(group.members) >= MaxGroup
    BY <2>1
  <2>2. CASE ~(group.border = << >> \/ Cardinality(group.members) >= MaxGroup)
    <3>1. Gathered(Visit(group, moles, there, on), moles, there \cap on, before)
      BY <2>2, VisitGathers
    <3> QED
      BY <2>2, <3>1 DEF Gathered
  <2> QED
    BY <2>1, <2>2
<1>6. F \in [X \X E -> X]
  BY <1>5
<1> HIDE DEF n, E, X, F, iter, base, Turn, seq
<1>7. PICK g : Folding(g, X, base, F, seq, n)
  BY <1>1, <1>4, <1>6, FoldExists
<1>8. ASSUME NEW s \in SUBSET (1..n), s # {}
      PROVE  s \ {Max(s)} \in SUBSET (1..n) /\ Max(s) \in 1..n /\ seq[Max(s)] \in E
  BY <1>1, <1>8, LargestNumber
<1>9. \A s \in SUBSET (1..n) :
            g[s] = IF s = {} THEN base ELSE Turn(g[s \ {Max(s)}], seq[Max(s)])
  BY <1>7, <1>8 DEF F, Folding
<1>10. Iterates(g)
  BY <1>7, <1>9 DEF Folding
<1> HIDE DEF Iterates
<1>11. Iterates(iter)
  BY <1>3, <1>10
<1>12. \A s \in SUBSET (1..n) :
            iter[s] = IF s = {} THEN base ELSE Turn(iter[s \ {Max(s)}], seq[Max(s)])
  BY <1>11 DEF Iterates
<1>13. iter[{}] \in X
  BY <1>4, <1>12
<1>14. \A s \in SUBSET (1..n) : s # {} /\ iter[s \ {Max(s)}] \in X => iter[s] \in X
  BY <1>5, <1>8, <1>12
<1>15. iter[1..n] \in X
  BY <1>1, <1>13, <1>14, FoldRange
<1> QED
  BY <1>2, <1>15 DEF X

-----------------------------------------------------------------------------
(***************************************************************************)
(* What averaging does to the turfs of a group.                             *)
(***************************************************************************)
LEMMA MeanBetween ==
    ASSUME NEW n \in Nat \ {0}, NEW s \in Int, NEW lo \in Int, NEW hi \in Int,
           n * lo <= s, s <= n * hi
    PROVE  s \div n \in Int /\ lo <= s \div n /\ s \div n <= hi
<1> DEFINE q == s \div n
<1>1. \A m \in Int : m \div n \in Int /\ n * (m \div n) <= m /\ m < n * (m \div n) + n
  OBVIOUS
<1>2. q \in Int /\ n * q <= s /\ s < n * q + n
  BY <1>1
<1> HIDE DEF q
<1>3. \A i, j \in Int : i < j => n * i + n <= n * j
  <2>1. ASSUME NEW i \in Int, NEW j \in Int, i < j PROVE n * i + n <= n * j
    <3>1. \A a, b \in Int : a >= 0 /\ b >= 0 => a * b >= 0
      OBVIOUS
    <3>2. n * (j - i - 1) >= 0
      BY <2>1, <3>1
    <3>3. n * (j - i - 1) = n * j - n * i - n
      OBVIOUS
    <3> QED
      BY <3>2, <3>3
  <2> QED
    BY <2>1
<1>4. n * lo \in Int /\ n * hi \in Int /\ n * q \in Int
  BY <1>2
<1>5. lo <= q
  <2>1. q < lo => n * q + n <= n * lo
    BY <1>2, <1>3
  <2> QED
    BY <1>2, <1>4, <2>1
<1>6. q <= hi
  <2>1. hi < q => n * hi + n <= n * q
    BY <1>2, <1>3
  <2> QED
    BY <1>2, <1>4, <2>1
<1> QED
  BY <1>2, <1>5, <1>6 DEF q

\* A member keeps within the pressures of its group, others keep what they have,
\* and so do immutable ones.
LEMMA AveragedFacts ==
    ASSUME NEW moles \in [Turfs -> Int], NEW members \in SUBSET Turfs,
           NEW lo \in Int, NEW hi \in Int,
           \A u \in members : lo <= moles[u] /\ moles[u] <= hi
    PROVE  /\ Averaged(moles, members) \in [Turfs -> Int]
           /\ \A u \in Turfs : u \notin members \ Immutable =>
                    Averaged(moles, members)[u] = moles[u]
           /\ \A u \in members \ Immutable :
                    /\ lo <= Averaged(moles, members)[u]
                    /\ Averaged(moles, members)[u] <= hi
<1> DEFINE n     == Cardinality(members)
           total == SumFunctionOnSet(moles, members)
           mean  == total \div n
<1>1. IsFiniteSet(members) /\ n \in Nat
  BY GroupsAssumption, FS_Subset, FS_CardinalityType
<1>2. \A u \in members : moles[u] \in Int
  OBVIOUS
<1>3. total \in Int /\ n * lo <= total /\ total <= n * hi
  BY <1>1, <1>2, SumInt, SumBounds
<1>4. members # {} => n # 0
  BY <1>1, FS_EmptySet
<1> HIDE DEF n, total
<1>5. members # {} => mean \in Int /\ lo <= mean /\ mean <= hi
  BY <1>1, <1>3, <1>4, MeanBetween
<1>6. Averaged(moles, members) =
        [t \in Turfs |-> IF t \in members \ Immutable THEN mean ELSE moles[t]]
  BY DEF Averaged, n, total
<1> HIDE DEF mean
<1> QED
  BY <1>5, <1>6

-----------------------------------------------------------------------------
(***************************************************************************)
(* The steps of a cycle.                                                    *)
(***************************************************************************)
LEMMA DiffusedTyped ==
    ASSUME gas \in [Turfs -> Int], NEW t \in Turfs
    PROVE  Stencil!Diffused(gas, t) \in Int
<1> DEFINE givers == Stencil!Givers(t)
           n == Cardinality(givers)
           s == SumFunctionOnSet(gas, givers)
<1>1. givers \in SUBSET Turfs
  BY DEF Stencil!Givers
<1>2. IsFiniteSet(givers) /\ n \in Nat /\ \A u \in givers : gas[u] \in Int
  BY <1>1, GroupsAssumption, FS_Subset, FS_CardinalityType
<1>3. s \in Int
  BY <1>2, SumInt
<1>4. \A m \in Int : m \div Divisor \in Int
  BY AirCycleAssumption
<1>5. Stencil!Diffused(gas, t) =
        IF t \in Immutable THEN gas[t] ELSE gas[t] - ((n * gas[t]) \div Divisor) + (s \div Divisor)
  <2>1. Stencil!Cardinality(givers) = n
    BY DEF Stencil!Cardinality, Cardinality, Stencil!IsFiniteSet, IsFiniteSet
  <2>2. Stencil!SumFunctionOnSet(gas, givers) = s
    BY DEF Stencil!SumFunctionOnSet, Stencil!FoldFunctionOnSet, Stencil!MapThenFoldSet,
           SumFunctionOnSet, FoldFunctionOnSet, MapThenFoldSet
  <2> QED
    BY <2>1, <2>2 DEF Stencil!Diffused
<1> HIDE DEF n, s
<1>6. gas[t] \in Int /\ n * gas[t] \in Int
  BY <1>2
<1>7. (n * gas[t]) \div Divisor \in Int /\ s \div Divisor \in Int
  BY <1>3, <1>4, <1>6
<1> QED
  BY <1>5, <1>6, <1>7

LEMMA PlanetedTyped ==
    ASSUME NEW g \in [Turfs -> Int]
    PROVE  Planeted(g) \in [Turfs -> Int]
<1>1. \A m \in Int : m \div ShareDivisor \in Int
  BY AirCycleAssumption
<1>2. PlanetGas \in Int
  BY AirCycleAssumption
<1>3. \A t \in Turfs : g[t] \in Int /\ (PlanetGas - g[t]) \div ShareDivisor \in Int
  BY <1>1, <1>2
<1>4. \A t \in Turfs : g[t] + ((PlanetGas - g[t]) \div ShareDivisor) \in Int
  BY <1>3
<1> QED
  BY <1>2, <1>3, <1>4 DEF Planeted

LEMMA CycleBegins == Init => CycleInv
<1> SUFFICES ASSUME Init PROVE CycleInv
  OBVIOUS
<1>1. CycleTyped
  <2>1. gas \in [Turfs -> Int]
    <3>1. gas \in [Turfs -> Levels]
      BY DEF Init
    <3>2. Levels \subseteq Int
      BY AirCycleAssumption
    <3>3. \A g \in [Turfs -> Levels] : g \in [Turfs -> Int]
      BY <3>2, Zenon
    <3> QED
      BY <3>1, <3>3, Zenon
  <2>2. worked \in [groups : Seq(Nat), equalizes : Seq(Nat)]
    BY EmptySeq DEF Init
  <2> QED
    BY <2>1, <2>2 DEF Init, CycleTyped
<1>2. Len(<< >>) = 0
  OBVIOUS
<1>3. Rising(<< >>, 0)
  BY <1>2 DEF Rising
<1>4. InOrder
  BY <1>3 DEF Init, InOrder
<1>5. Eased
  BY DEF Init, Eased
<1> QED
  BY <1>1, <1>4, <1>5 DEF CycleInv

LEMMA ProcessTurfsKeeps ==
    ASSUME CycleInv, NEW cut \in BOOLEAN, ProcessTurfs(cut)
    PROVE  CycleInv'
<1>1. /\ gas \in [Turfs -> Int] /\ cycle \in Nat
      /\ equalizes # NoSet => equalizes.cycle \in Nat /\ equalizes.cycle <= cycle
      /\ worked \in [groups : Seq(Nat), equalizes : Seq(Nat)]
      /\ Rising(worked.groups, IF groups = NoSet THEN cycle ELSE cycle - 1)
      /\ Rising(worked.equalizes, IF equalizes = NoSet THEN cycle ELSE equalizes.cycle - 1)
  BY DEF CycleInv, CycleTyped, InOrder
<1>2. /\ job = NoSet /\ job' = NoSet /\ cycle' = cycle + 1
      /\ known' = known /\ enabled' = enabled /\ worked' = worked
  BY DEF ProcessTurfs
<1>3. /\ groups'.cycle = cycle' /\ groups'.turfs \in SUBSET Turfs
      /\ \/ equalizes'.cycle = cycle'
         \/ equalizes' = equalizes
  <2> DEFINE low == IF cut THEN {} ELSE Stencil!Active(gas) \ Stencil!Steep(gas)
             high == IF cut THEN {} ELSE Stencil!Steep(gas)
  <2>1. /\ groups' = [cycle |-> cycle', turfs |-> low]
        /\ equalizes' = IF equalizeOn THEN [cycle |-> cycle', turfs |-> high] ELSE equalizes
    BY DEF ProcessTurfs
  <2>2. low \in SUBSET Turfs
    BY DEF CycleInv, CycleTyped, Stencil!Active
  <2> HIDE DEF low, high
  <2> QED
    BY <2>1, <2>2
<1>4. gas' \in [Turfs -> Int]
  <2>1. gas' = Planeted(IF cut THEN gas ELSE Diffused)
    BY DEF ProcessTurfs
  <2>2. Diffused \in [Turfs -> Int]
    BY <1>1, DiffusedTyped DEF Diffused
  <2> QED
    BY <1>1, <2>1, <2>2, PlanetedTyped
<1>5. CycleTyped'
  BY <1>1, <1>2, <1>3, <1>4 DEF CycleInv, CycleTyped
<1>6. Rising(worked.groups, cycle) /\ Rising(worked.equalizes, cycle)
  <2>1. worked.groups \in Seq(Nat) /\ worked.equalizes \in Seq(Nat)
    BY <1>1
  <2>2. cycle \in Int /\ cycle - 1 \in Int /\ cycle - 1 <= cycle /\ cycle <= cycle
    BY <1>1
  <2>3. Rising(worked.groups, cycle)
    BY <1>1, <2>1, <2>2, RisingBelow
  <2>4. Rising(worked.equalizes, cycle)
    <3>1. CASE equalizes = NoSet
      BY <1>1, <3>1
    <3>2. CASE equalizes # NoSet
      <4>1. equalizes.cycle - 1 \in Int /\ equalizes.cycle - 1 <= cycle
        BY <1>1, <3>2
      <4> QED
        BY <1>1, <2>1, <2>2, <3>2, <4>1, RisingBelow
    <3> QED
      BY <3>1, <3>2
  <2> QED
    BY <2>3, <2>4
<1>7. InOrder'
  <2>1. Rising(worked.groups, cycle') /\ Rising(worked.equalizes, cycle')
    <3>1. worked.groups \in Seq(Nat) /\ worked.equalizes \in Seq(Nat)
          /\ cycle \in Int /\ cycle' \in Int /\ cycle <= cycle'
      BY <1>1, <1>2
    <3> QED
      BY <1>6, <3>1, RisingBelow
  <2>2. cycle' - 1 = cycle
    BY <1>1, <1>2
  <2>3. Rising(worked.groups, IF groups' = NoSet THEN cycle' ELSE cycle' - 1)
    BY <1>6, <2>1, <2>2
  <2>4. Rising(worked.equalizes, IF equalizes' = NoSet THEN cycle' ELSE equalizes'.cycle - 1)
    BY <1>1, <1>3, <1>6, <2>1, <2>2
  <2>5. equalizes' # NoSet => equalizes'.cycle <= cycle'
    BY <1>1, <1>2, <1>3
  <2> QED
    BY <1>2, <1>3, <2>3, <2>4, <2>5 DEF InOrder
<1>8. Eased'
  BY <1>2 DEF Eased
<1> QED
  BY <1>5, <1>7, <1>8 DEF CycleInv

LEMMA GroupsBeginKeeps ==
    ASSUME CycleInv, GroupsBegin
    PROVE  CycleInv'
<1>1. /\ gas \in [Turfs -> Int] /\ cycle \in Nat /\ groups.cycle = cycle
      /\ groups.turfs \in SUBSET Turfs /\ worked \in [groups : Seq(Nat), equalizes : Seq(Nat)]
      /\ Rising(worked.groups, cycle - 1)
  BY DEF CycleInv, CycleTyped, InOrder, GroupsBegin
<1>2. /\ job' = [todo |-> groups.turfs, found |-> {}, base |-> gas] /\ groups' = NoSet
      /\ worked' = [worked EXCEPT !.groups = Append(@, cycle)]
      /\ gas' = gas /\ known' = known /\ enabled' = enabled /\ equalizes' = equalizes
      /\ cycle' = cycle
  BY <1>1 DEF GroupsBegin
<1>3. Append(worked.groups, cycle) \in Seq(Nat) /\ Rising(Append(worked.groups, cycle), cycle)
  <2>1. worked.groups \in Seq(Nat)
    BY <1>1
  <2> QED
    BY <1>1, <2>1, RisingFurther
<1>4. /\ worked' \in [groups : Seq(Nat), equalizes : Seq(Nat)]
      /\ worked'.groups = Append(worked.groups, cycle)
      /\ worked'.equalizes = worked.equalizes
  BY <1>1, <1>2, <1>3
<1>5. job' \in Jobs /\ job'.base = gas
  BY <1>1, <1>2 DEF Jobs
<1>6. CycleTyped'
  BY <1>2, <1>4, <1>5 DEF CycleInv, CycleTyped
<1>7. InOrder'
  BY <1>2, <1>3, <1>4 DEF CycleInv, InOrder
<1>8. Eased'
  BY <1>2, <1>5 DEF Eased
<1> QED
  BY <1>6, <1>7, <1>8 DEF CycleInv

LEMMA EqualizeTakeKeeps ==
    ASSUME CycleInv, EqualizeTake
    PROVE  CycleInv'
<1> DEFINE m == equalizes.cycle
<1>1. /\ cycle \in Nat /\ m \in Nat /\ m <= cycle /\ Rising(worked.equalizes, m - 1)
      /\ worked \in [groups : Seq(Nat), equalizes : Seq(Nat)]
  BY DEF CycleInv, CycleTyped, InOrder, EqualizeTake
<1>2. /\ equalizes' = NoSet /\ worked' = [worked EXCEPT !.equalizes = Append(@, m)]
      /\ job = NoSet
      /\ gas' = gas /\ known' = known /\ enabled' = enabled /\ groups' = groups
      /\ cycle' = cycle /\ job' = job
  BY DEF EqualizeTake
<1> HIDE DEF m
<1>3. Append(worked.equalizes, m) \in Seq(Nat) /\ Rising(Append(worked.equalizes, m), cycle)
  <2>1. worked.equalizes \in Seq(Nat)
    BY <1>1
  <2>2. Append(worked.equalizes, m) \in Seq(Nat) /\ Rising(Append(worked.equalizes, m), m)
    BY <1>1, <2>1, RisingFurther
  <2>3. m \in Int /\ cycle \in Int
    BY <1>1
  <2> QED
    BY <1>1, <2>2, <2>3, RisingBelow
<1>4. /\ worked' \in [groups : Seq(Nat), equalizes : Seq(Nat)]
      /\ worked'.groups = worked.groups
      /\ worked'.equalizes = Append(worked.equalizes, m)
  BY <1>1, <1>2, <1>3
<1>5. CycleTyped'
  BY <1>2, <1>4 DEF CycleInv, CycleTyped
<1>6. InOrder'
  BY <1>2, <1>3, <1>4 DEF CycleInv, InOrder
<1>7. Eased'
  BY <1>2 DEF Eased
<1> QED
  BY <1>5, <1>6, <1>7 DEF CycleInv

\* The turn of a turf that makes a group: what the group is, and what becomes
\* of the gas.
LEMMA GroupOfTurn ==
    ASSUME CycleTyped, GroupsTurn, gas' # gas \/ job'.found # job.found
    PROVE  LET group == GroupOf(Min(job.todo), gas, known, enabled, job.found)
           IN  /\ Gathered(group, gas, known \cap enabled, job.found)
               /\ gas' = Averaged(gas, group.members)
               /\ job' = [job EXCEPT !.todo = @ \ {Min(job.todo)}, !.found = group.found]
<1> DEFINE t == Min(job.todo)
           group == GroupOf(t, gas, known, enabled, job.found)
<1>1. /\ job # NoSet /\ job \in Jobs /\ gas \in [Turfs -> Int]
      /\ known \in SUBSET Turfs /\ enabled \in SUBSET Turfs
  BY DEF CycleTyped, GroupsTurn
<1>2. /\ ~(t \in job.found \/ t \notin known \cap enabled)
      /\ job' = [job EXCEPT !.todo = @ \ {t}, !.found = group.found]
      /\ gas' = Averaged(gas, group.members)
  <2>1. \/ /\ job' = [job EXCEPT !.todo = @ \ {t}] /\ gas' = gas
        \/ /\ ~(t \in job.found \/ t \notin known \cap enabled)
           /\ job' = [job EXCEPT !.todo = @ \ {t}, !.found = group.found]
           /\ gas' = Averaged(gas, group.members)
    BY DEF GroupsTurn
  <2>2. [job EXCEPT !.todo = @ \ {t}].found = job.found
    BY <1>1 DEF Jobs
  <2> HIDE DEF t, group
  <2> QED
    BY <2>1, <2>2
<1>3. t \in (known \cap enabled) \ job.found
  BY <1>2
<1>4. job.found \in SUBSET Turfs
  BY <1>1 DEF Jobs
<1> HIDE DEF t
<1>5. Gathered(group, gas, known \cap enabled, job.found)
  BY <1>1, <1>3, <1>4, GroupIsGathered
<1> QED
  BY <1>2, <1>5 DEF t

\* No turf of the group was found before.
LEMMA GroupIsEven ==
    ASSUME CycleTyped, NEW group, Gathered(group, gas, known \cap enabled, job.found)
    PROVE  LET new == Averaged(gas, group.members)
           IN  /\ new \in [Turfs -> Int]
               /\ \A t \in Turfs : new[t] # gas[t] =>
                    /\ t \in group.members \ Immutable /\ t \in known \cap enabled
                    /\ t \in group.found \ job.found
                    /\ Stencil!Distance(new[t], gas[t]) < Goal
<1> DEFINE new == Averaged(gas, group.members)
           lo == group.min
           hi == group.max
           members == group.members
<1>1. /\ members \in SUBSET Turfs /\ lo \in Int /\ hi \in Int
      /\ members \subseteq (group.found \ job.found) \cap (known \cap enabled)
      /\ \A u \in members : lo <= gas[u] /\ gas[u] <= hi
      /\ members # {} => hi - lo < Goal
  BY DEF Gathered, GroupRecords
<1>2. gas \in [Turfs -> Int]
  BY DEF CycleTyped
<1> HIDE DEF lo, hi, members
<1>3. new = Averaged(gas, members)
  BY DEF members
<1>4. /\ new \in [Turfs -> Int]
      /\ \A u \in Turfs : u \notin members \ Immutable => new[u] = gas[u]
      /\ \A u \in members \ Immutable : lo <= new[u] /\ new[u] <= hi
  BY <1>1, <1>2, <1>3, AveragedFacts
<1> HIDE DEF new
<1>5. \A a, b \in Int : lo <= a /\ a <= hi /\ lo <= b /\ b <= hi /\ hi - lo < Goal
            => Stencil!Distance(a, b) < Goal
  BY <1>1, GroupsAssumption DEF Stencil!Distance
<1>6. ASSUME NEW t \in Turfs, new[t] # gas[t]
      PROVE  /\ t \in members \ Immutable /\ t \in known \cap enabled
             /\ t \in group.found \ job.found
             /\ Stencil!Distance(new[t], gas[t]) < Goal
  <2>1. t \in members \ Immutable
    BY <1>4, <1>6
  <2>2. new[t] \in Int /\ gas[t] \in Int
    BY <1>2, <1>4
  <2>3. lo <= new[t] /\ new[t] <= hi /\ lo <= gas[t] /\ gas[t] <= hi /\ hi - lo < Goal
    BY <1>1, <1>4, <2>1
  <2> QED
    BY <1>1, <1>5, <2>1, <2>2, <2>3
<1> QED
  BY <1>4, <1>6 DEF new, members

LEMMA GroupsTurnKeeps ==
    ASSUME CycleInv, GroupsTurn
    PROVE  CycleInv'
<1> DEFINE group == GroupOf(Min(job.todo), gas, known, enabled, job.found)
<1>1. /\ job # NoSet /\ job \in Jobs /\ gas \in [Turfs -> Int]
      /\ known' = known /\ enabled' = enabled /\ groups' = groups /\ equalizes' = equalizes
      /\ cycle' = cycle /\ worked' = worked
  BY DEF CycleInv, CycleTyped, GroupsTurn
<1>2. CycleTyped /\ InOrder /\ Eased
  BY DEF CycleInv
<1>3. \/ /\ gas' = gas
         /\ job' = [job EXCEPT !.todo = @ \ {Min(job.todo)}]
      \/ /\ gas' = Averaged(gas, group.members)
         /\ job' = [job EXCEPT !.todo = @ \ {Min(job.todo)}, !.found = group.found]
         /\ Gathered(group, gas, known \cap enabled, job.found)
  <2>1. \/ /\ gas' = gas
           /\ job' = [job EXCEPT !.todo = @ \ {Min(job.todo)}]
        \/ /\ gas' = Averaged(gas, group.members)
           /\ job' = [job EXCEPT !.todo = @ \ {Min(job.todo)}, !.found = group.found]
           /\ Min(job.todo) \in (known \cap enabled) \ job.found
    BY DEF GroupsTurn
  <2>2. Min(job.todo) \in (known \cap enabled) \ job.found
            => Gathered(group, gas, known \cap enabled, job.found)
    <3>1. job.found \in SUBSET Turfs /\ known \in SUBSET Turfs /\ enabled \in SUBSET Turfs
      BY <1>1, <1>2 DEF Jobs, CycleTyped
    <3> DEFINE t == Min(job.todo)
    <3> HIDE DEF t
    <3>2. t \in (known \cap enabled) \ job.found
            => Gathered(GroupOf(t, gas, known, enabled, job.found), gas, known \cap enabled,
                        job.found)
      BY <1>1, <3>1, GroupIsGathered
    <3> QED
      BY <3>2 DEF t
  <2> HIDE DEF group
  <2> QED
    BY <2>1, <2>2
<1> HIDE DEF group
<1>4. CASE gas' = gas /\ job' = [job EXCEPT !.todo = @ \ {Min(job.todo)}]
  <2>1. job' \in Jobs /\ job'.base = job.base /\ job'.found = job.found
    BY <1>1, <1>4 DEF Jobs
  <2>2. CycleTyped'
    BY <1>1, <1>2, <1>4, <2>1 DEF CycleTyped
  <2>3. InOrder'
    BY <1>1, <1>2 DEF InOrder
  <2>4. Eased'
    BY <1>1, <1>2, <1>4, <2>1 DEF Eased
  <2> QED
    BY <2>2, <2>3, <2>4 DEF CycleInv
<1>5. CASE /\ gas' = Averaged(gas, group.members)
           /\ job' = [job EXCEPT !.todo = @ \ {Min(job.todo)}, !.found = group.found]
           /\ Gathered(group, gas, known \cap enabled, job.found)
  <2>1. job.found \subseteq group.found /\ group.found \in SUBSET Turfs
    BY <1>5 DEF Gathered, GroupRecords
  <2>2. job' \in Jobs /\ job'.base = job.base /\ job'.found = group.found
    BY <1>1, <1>5, <2>1 DEF Jobs
  <2>3. /\ gas' \in [Turfs -> Int]
        /\ \A t \in Turfs : gas'[t] # gas[t] =>
                /\ t \in group.found \ job.found
                /\ Stencil!Distance(gas'[t], gas[t]) < Goal
    BY <1>2, <1>5, GroupIsEven
  <2>4. CycleTyped'
    BY <1>1, <1>2, <2>2, <2>3 DEF CycleTyped
  <2>5. InOrder'
    BY <1>1, <1>2 DEF InOrder
  <2>6. ASSUME NEW t \in Turfs
        PROVE  \/ gas'[t] = job.base[t]
               \/ t \in group.found /\ Stencil!Distance(gas'[t], job.base[t]) < Goal
    <3>1. \/ gas[t] = job.base[t]
          \/ t \in job.found /\ Stencil!Distance(gas[t], job.base[t]) < Goal
      BY <1>1, <1>2 DEF Eased
    <3> QED
      BY <2>1, <2>3, <3>1
  <2>7. Eased'
    BY <2>2, <2>6 DEF Eased
  <2> QED
    BY <2>4, <2>5, <2>7 DEF CycleInv
<1> QED
  BY <1>3, <1>4, <1>5

LEMMA CycleStep == CycleInv /\ [Next]_vars => CycleInv'
<1> SUFFICES ASSUME CycleInv, [Next]_vars PROVE CycleInv'
  OBVIOUS
<1>1. ASSUME NEW cut \in BOOLEAN, ProcessTurfs(cut) PROVE CycleInv'
  BY <1>1, ProcessTurfsKeeps
<1>2. CASE GroupsBegin
  BY <1>2, GroupsBeginKeeps
<1>3. CASE GroupsTurn
  BY <1>3, GroupsTurnKeeps
<1>4. CASE GroupsEnd
  BY <1>4 DEF CycleInv, CycleTyped, InOrder, Eased, GroupsEnd
<1>5. CASE EqualizeTake
  BY <1>5, EqualizeTakeKeeps
<1>6. ASSUME NEW t \in Unsteady, NEW there \in BOOLEAN, NEW on \in BOOLEAN,
             SetTurf(t, there, on)
      PROVE  CycleInv'
  <2>1. t \in Turfs
    BY AirCycleAssumption
  <2>2. known' \in SUBSET Turfs /\ enabled' \in SUBSET Turfs
    BY <1>6, <2>1 DEF SetTurf, CycleInv, CycleTyped
  <2> QED
    BY <1>6, <2>2 DEF SetTurf, CycleInv, CycleTyped, InOrder, Eased
<1>7. CASE SetEqualize
  BY <1>7 DEF CycleInv, CycleTyped, InOrder, Eased, SetEqualize
<1>8. CASE UNCHANGED vars
  BY <1>8 DEF CycleInv, CycleTyped, InOrder, Eased, vars
<1> QED
  BY <1>1, <1>2, <1>3, <1>4, <1>5, <1>6, <1>7, <1>8 DEF Next

\* Types, and the invariant the other theorems about the cycle rest on.
THEOREM CycleInvariant == Spec => []CycleInv
BY CycleBegins, CycleStep, PTL DEF Spec

\* What a call of process_turfs leaves in a channel is worked on once, and the
\* groups work on what the latest call found.
THEOREM WorkedOnOnce == Spec => []OncePerCycle
<1>1. CycleInv => OncePerCycle
  <2> SUFFICES ASSUME CycleInv PROVE OncePerCycle
    OBVIOUS
  <2>1. /\ worked.groups \in Seq(Nat) /\ worked.equalizes \in Seq(Nat)
        /\ groups # NoSet => groups.cycle = cycle
        /\ \A k \in 1..(Len(worked.groups) - 1) : worked.groups[k] < worked.groups[k + 1]
        /\ \A k \in 1..(Len(worked.equalizes) - 1) :
                worked.equalizes[k] < worked.equalizes[k + 1]
    BY DEF CycleInv, CycleTyped, InOrder, Rising
  <2>2. Len(worked.groups) \in Nat /\ Len(worked.equalizes) \in Nat
    BY <2>1, LenProperties
  <2>3. \A n \in Nat, k \in 1..MaxCycles : n > k => k \in 1..(n - 1)
    BY AirCycleAssumption
  <2> QED
    BY <2>1, <2>2, <2>3 DEF OncePerCycle
<1> QED
  BY <1>1, CycleInvariant, PTL

\* However many groups a run makes, no turf moves by as much as the goal.
THEOREM GroupsAreGentle == Spec => []Gentle
<1>1. CycleInv => Gentle
  BY DEF CycleInv, Eased, Gentle
<1> QED
  BY <1>1, CycleInvariant, PTL

\* excited_group_processing writes to turfs of the arena that are enabled and
\* mutable, and to no others.
THEOREM OthersKeepGas == Spec => OnlyEnabledChange
<1>1. CycleInv /\ [Next]_vars =>
        [GroupsTurn => \A t \in Turfs :
            gas'[t] # gas[t] => t \in enabled \cap known /\ t \notin Immutable]_vars
  <2> SUFFICES ASSUME CycleInv, GroupsTurn, NEW t \in Turfs, gas'[t] # gas[t]
               PROVE  t \in enabled \cap known /\ t \notin Immutable
    OBVIOUS
  <2> DEFINE group == GroupOf(Min(job.todo), gas, known, enabled, job.found)
  <2>1. CycleTyped /\ gas' # gas
    BY DEF CycleInv
  <2>2. Gathered(group, gas, known \cap enabled, job.found) /\ gas' = Averaged(gas, group.members)
    BY <2>1, GroupOfTurn
  <2> HIDE DEF group
  <2>3. t \in group.members \ Immutable /\ t \in known \cap enabled
    BY <2>1, <2>2, GroupIsEven
  <2> QED
    BY <2>3
<1> QED
  BY <1>1, CycleInvariant, PTL DEF Spec, OnlyEnabledChange

\* What averaging rounds off a group without an immutable turf.
LEMMA AveragedSum ==
    ASSUME NEW moles \in [Turfs -> Int], NEW members \in SUBSET (Turfs \ Immutable), members # {}
    PROVE  SumFunctionOnSet(moles, Turfs) - SumFunctionOnSet(Averaged(moles, members), Turfs)
                \in 0..(Cardinality(members) - 1)
<1> DEFINE n     == Cardinality(members)
           total == SumFunctionOnSet(moles, members)
           mean  == total \div n
           new   == Averaged(moles, members)
           rest  == SumFunctionOnSet(moles, Turfs \ members)
<1>1. /\ IsFiniteSet(Turfs) /\ members \in SUBSET Turfs
      /\ IsFiniteSet(members) /\ IsFiniteSet(Turfs \ members)
  BY GroupsAssumption, FS_Subset
<1>2. n \in Nat \ {0}
  BY <1>1, FS_CardinalityType, FS_EmptySet
<1>3. total \in Int
  <2>1. \A u \in members : moles[u] \in Int
    OBVIOUS
  <2> QED
    BY <1>1, <2>1, SumInt
<1>4. new = [t \in Turfs |-> IF t \in members THEN mean ELSE moles[t]]
  BY DEF Averaged
<1> HIDE DEF n, total, new
<1>5. mean \in Int /\ n * mean <= total /\ total < n * mean + n
  BY <1>2, <1>3
<1> HIDE DEF mean
<1>6. \A t \in Turfs : moles[t] \in Int /\ new[t] \in Int
  BY <1>4, <1>5
<1>7. SumFunctionOnSet(moles, Turfs) = total + rest
  BY <1>1, <1>6, SumSplit DEF total
<1>8. SumFunctionOnSet(new, Turfs)
            = SumFunctionOnSet(new, members) + SumFunctionOnSet(new, Turfs \ members)
  BY <1>1, <1>6, SumSplit
<1>9. SumFunctionOnSet(new, members) = n * mean
  <2>1. \A u \in members : new[u] \in Int /\ mean <= new[u] /\ new[u] <= mean
    BY <1>1, <1>4, <1>5
  <2>2. n * mean <= SumFunctionOnSet(new, members) /\ SumFunctionOnSet(new, members) <= n * mean
    BY <1>1, <1>5, <2>1, SumBounds DEF n
  <2>3. SumFunctionOnSet(new, members) \in Int
    BY <1>1, <2>1, SumInt
  <2>4. n * mean \in Int
    BY <1>2, <1>5
  <2> QED
    BY <2>2, <2>3, <2>4
<1>10. SumFunctionOnSet(new, Turfs \ members) = rest
  <2>1. \A u \in Turfs \ members : moles[u] \in Int /\ new[u] = moles[u]
    BY <1>4, <1>6
  <2> QED
    BY <1>1, <2>1, SumSame
<1>11. rest \in Int
  <2>1. \A u \in Turfs \ members : moles[u] \in Int
    OBVIOUS
  <2> QED
    BY <1>1, <2>1, SumInt
<1> HIDE DEF rest
<1>12. n * mean \in Int
  BY <1>2, <1>5
<1>13. SumFunctionOnSet(moles, Turfs) - SumFunctionOnSet(new, Turfs) = total - n * mean
  BY <1>3, <1>7, <1>8, <1>9, <1>10, <1>11, <1>12
<1> QED
  BY <1>2, <1>3, <1>5, <1>12, <1>13 DEF n, new

\* No gas is made or lost by averaging, but what the division rounds off.
THEOREM AveragingKeepsGas == Spec => GroupsKeepGas
<1>1. CycleInv /\ [Next]_vars =>
        [GroupsTurn /\ gas' # gas =>
            LET members == GroupOf(Min(job.todo), gas, known, enabled, job.found).members
                before  == SumFunctionOnSet(gas, Turfs)
                after   == SumFunctionOnSet(gas', Turfs)
            IN  members \cap Immutable = {} => before - after \in 0..(Cardinality(members) - 1)
        ]_vars
  <2> DEFINE group == GroupOf(Min(job.todo), gas, known, enabled, job.found)
  <2> SUFFICES ASSUME CycleInv, GroupsTurn, gas' # gas, group.members \cap Immutable = {}
               PROVE  SumFunctionOnSet(gas, Turfs) - SumFunctionOnSet(gas', Turfs)
                            \in 0..(Cardinality(group.members) - 1)
    OBVIOUS
  <2>1. CycleTyped /\ gas \in [Turfs -> Int]
    BY DEF CycleInv, CycleTyped
  <2>2. Gathered(group, gas, known \cap enabled, job.found) /\ gas' = Averaged(gas, group.members)
    BY <2>1, GroupOfTurn
  <2> HIDE DEF group
  <2>3. group.members \in SUBSET (Turfs \ Immutable)
    BY <2>2 DEF Gathered, GroupRecords
  <2>4. group.members # {}
    <3>1. PICK t \in Turfs : gas'[t] # gas[t]
      <4>1. gas' \in [Turfs -> Int]
        BY <2>1, <2>2, GroupIsEven
      <4> QED
        BY <2>1, <4>1
    <3> QED
      BY <2>1, <2>2, <3>1, GroupIsEven
  <2> QED
    BY <2>1, <2>2, <2>3, <2>4, AveragedSum
<1> QED
  BY <1>1, CycleInvariant, PTL DEF Spec, GroupsKeepGas

-----------------------------------------------------------------------------
(***************************************************************************)
(* Katmos.  A turf had its turn in a zone if its edges joined the graph     *)
(* there.  In the invariant, every neighbour of such a turf is found, and   *)
(* what was found before a zone is never in its border; so a turf that had  *)
(* its turn in one zone is not a node of another.                           *)
(***************************************************************************)
Fills ==
    [border : Seq(Turfs), nodes : Seq(Turfs), out : [Turfs -> Seq(Turfs)], total : Int,
     planet : BOOLEAN, ignored : BOOLEAN]

\* What the workers add to a zone may be anything.
IsZone(zone) ==
    /\ zone = [nodes |-> zone.nodes, out |-> zone.out, total |-> zone.total, info |-> zone.info,
               flow |-> zone.flow, tasks |-> zone.tasks, lock |-> zone.lock]
    /\ zone.nodes \in Seq(Turfs)
    /\ zone.out \in [Turfs -> Seq(Turfs)]

\* No gas has moved before the zones are done, so that space still has none.
KatmosTyped ==
    /\ world \in Worlds
    /\ phase \in {"search", "fill"} =>
            gas \in [Turfs -> Nat] /\ \A t \in world.immutable : gas[t] = 0
    /\ todo \in SUBSET Turfs
    /\ found \in SUBSET Turfs
    /\ fill \in Fills
    /\ zones \in Seq(ToSet(zones))
    /\ \A z \in 1..Len(zones) : IsZone(zones[z])

HadTurn(out) == {t \in Turfs : out[t] # << >>}

\* The turfs of a graph are found, and so are those around the ones that had
\* their turn.
Enclosed(nodes, out) ==
    /\ ToSet(nodes) \cup HadTurn(out) \subseteq found
    /\ \A t \in HadTurn(out) : ToSet(Neighbours(t)) \subseteq found

ZonesApart ==
    /\ \A z \in 1..Len(zones) : Enclosed(zones[z].nodes, zones[z].out)
    /\ \A y, z \in 1..Len(zones) :
            y # z => ToSet(zones[y].nodes) \cap HadTurn(zones[z].out) = {}

FillApart ==
    phase = "fill" =>
        /\ Enclosed(fill.nodes, fill.out)
        /\ ToSet(fill.border) \subseteq found
        /\ \A z \in 1..Len(zones) :
            /\ ToSet(zones[z].nodes) \cap (HadTurn(fill.out) \cup ToSet(fill.border)) = {}
            /\ \A t \in HadTurn(zones[z].out) :
                    /\ t \notin ToSet(fill.nodes)
                    /\ ToSet(Neighbours(t)) \cap ToSet(fill.border) = {}

\* Turfs that decompress their zone.
Opened == {t \in Turfs : <<"decompress", t>> \in sent}

NextToSpace(out) == \E t \in HadTurn(out) : ToSet(Neighbours(t)) \cap world.immutable # {}

SpaceOpens ==
    /\ Opened \subseteq found
    /\ found \cap world.immutable # {} => Opened # {}
    /\ phase = "fill" =>
        /\ fill.ignored => Opened # {}
        /\ ~fill.ignored =>
            /\ Opened \cap (HadTurn(fill.out) \cup ToSet(fill.border)) = {}
            /\ NextToSpace(fill.out) => Opened # {}
    /\ \A z \in 1..Len(zones) :
            NextToSpace(zones[z].out) => Opened \ HadTurn(zones[z].out) # {}

KatmosInv == KatmosTyped /\ ZonesApart /\ FillApart /\ SpaceOpens

LEMMA KatmosBegins == KatmosInit => KatmosInv
<1> SUFFICES ASSUME KatmosInit PROVE KatmosInv
  OBVIOUS
<1>1. world \in Worlds /\ world \in WorldType
  BY KatmosAssumption DEF KatmosInit
<1>2. << >> \in Seq(Turfs) /\ << >> \in Seq(ToSet(<< >>)) /\ Len(<< >>) = 0
  BY EmptySeq
<1>3. fill \in Fills
  BY <1>2 DEF KatmosInit, Begun, Fills
<1>4. gas \in [Turfs -> Nat] /\ \A t \in world.immutable : gas[t] = 0
  <2>1. gas \in [Turfs -> Levels] /\ \A t \in world.immutable : gas[t] = 0
    BY DEF KatmosInit
  <2>2. \A g \in [Turfs -> Levels] : g \in [Turfs -> Nat]
    BY KatmosAssumption, Zenon
  <2> QED
    BY <2>1, <2>2
<1>5. todo \in SUBSET Turfs /\ found \in SUBSET Turfs
  BY <1>1 DEF KatmosInit, WorldType
<1>6. KatmosTyped
  BY <1>1, <1>2, <1>3, <1>4, <1>5 DEF KatmosInit, KatmosTyped
<1>7. ZonesApart /\ FillApart
  BY <1>2 DEF KatmosInit, ZonesApart, FillApart
<1>8. SpaceOpens
  BY <1>2 DEF KatmosInit, SpaceOpens, Opened
<1> QED
  BY <1>6, <1>7, <1>8 DEF KatmosInv

\* What the workers do to a zone leaves its graph alone.
GraphKept(old, new) == IsZone(new) /\ new.nodes = old.nodes /\ new.out = old.out

GraphsKept ==
    /\ zones' \in Seq(ToSet(zones'))
    /\ Len(zones') = Len(zones)
    /\ \A z \in 1..Len(zones) : GraphKept(zones[z], zones'[z])

LEMMA OneZoneChanged ==
    ASSUME KatmosTyped, NEW z \in 1..Len(zones), NEW zone,
           zones' = [zones EXCEPT ![z] = zone], GraphKept(zones[z], zone)
    PROVE  GraphsKept
<1> DEFINE n == Len(zones)
<1>1. zones \in Seq(ToSet(zones)) /\ n \in Nat /\ DOMAIN zones = 1..n
  BY LenProperties DEF KatmosTyped
<1>2. zones' = [k \in 1..n |-> IF k = z THEN zone ELSE zones[k]]
  BY <1>1
<1>3. DOMAIN zones' = 1..n
  BY <1>2
<1>4. zones' \in [1..n -> ToSet(zones')]
  BY <1>2, <1>3 DEF ToSet
<1>5. zones' \in Seq(ToSet(zones')) /\ Len(zones') = n
  <2> DEFINE S == ToSet(zones')
             seq == zones'
  <2>1. seq \in [1..n -> S] /\ n \in Nat
    BY <1>1, <1>4
  <2> HIDE DEF S, seq, n
  <2>2. seq \in Seq(S)
    BY <2>1, SeqDef
  <2>3. DOMAIN seq = 1..n /\ DOMAIN seq = 1..Len(seq) /\ Len(seq) \in Nat
    BY <2>1, <2>2, LenProperties
  <2>4. Len(seq) = n
    BY <2>1, <2>3
  <2> QED
    BY <2>2, <2>4 DEF S, seq
<1>6. ASSUME NEW k \in 1..n PROVE GraphKept(zones[k], zones'[k])
  BY <1>2 DEF KatmosTyped, GraphKept
<1> QED
  BY <1>5, <1>6 DEF GraphsKept

LEMMA FieldsKept ==
    ASSUME NEW zone, IsZone(zone), NEW i, NEW f, NEW t, NEW l
    PROVE  GraphKept(zone, [nodes |-> zone.nodes, out |-> zone.out, total |-> zone.total,
                            info |-> i, flow |-> f, tasks |-> t, lock |-> l])
BY DEF GraphKept, IsZone

LEMMA WorkersKeepGraphs ==
    ASSUME KatmosTyped, NEW z \in 1..Len(zones), Prepare(z) \/ Process(z) \/ Finalize(z)
    PROVE  GraphsKept
<1> DEFINE zone == zones[z]
           With(i, f, t, l) ==
                [nodes |-> zone.nodes, out |-> zone.out, total |-> zone.total,
                 info |-> i, flow |-> f, tasks |-> t, lock |-> l]
<1> DEFINE Now == With(zone.info, zone.flow, zone.tasks, zone.lock)
<1>1. IsZone(zone) /\ zone = Now
  BY DEF KatmosTyped, IsZone
<1>2. ASSUME NEW i, NEW f, NEW t, NEW l, zones' = [zones EXCEPT ![z] = With(i, f, t, l)]
      PROVE  GraphsKept
  BY <1>1, <1>2, FieldsKept, OneZoneChanged
<1> HIDE DEF zone
<1>3. ASSUME NEW i
      PROVE  [zone EXCEPT !.info = i] = With(i, zone.flow, zone.tasks, zone.lock)
  <2>1. [Now EXCEPT !.info = i] = With(i, zone.flow, zone.tasks, zone.lock)
    OBVIOUS
  <2> QED
    BY <1>1, <2>1, Zenon
<1>4. ASSUME NEW f, NEW t
      PROVE  [zone EXCEPT !.flow = f, !.tasks = t] = With(zone.info, f, t, zone.lock)
  <2>1. [zone EXCEPT !.flow = f] = With(zone.info, f, zone.tasks, zone.lock)
    <3>1. [Now EXCEPT !.flow = f] = With(zone.info, f, zone.tasks, zone.lock)
      OBVIOUS
    <3> QED
      BY <1>1, <3>1, Zenon
  <2>2. [With(zone.info, f, zone.tasks, zone.lock) EXCEPT !.tasks = t]
          = With(zone.info, f, t, zone.lock)
    OBVIOUS
  <2>3. [zone EXCEPT !.flow = f, !.tasks = t] = [[zone EXCEPT !.flow = f] EXCEPT !.tasks = t]
    OBVIOUS
  <2> QED
    BY <2>1, <2>2, <2>3, Zenon
<1>5. ASSUME NEW t, NEW f
      PROVE  [zone EXCEPT !.tasks = t, !.flow = f] = With(zone.info, f, t, zone.lock)
  <2>1. [zone EXCEPT !.tasks = t] = With(zone.info, zone.flow, t, zone.lock)
    <3>1. [Now EXCEPT !.tasks = t] = With(zone.info, zone.flow, t, zone.lock)
      OBVIOUS
    <3> QED
      BY <1>1, <3>1, Zenon
  <2>2. [With(zone.info, zone.flow, t, zone.lock) EXCEPT !.flow = f]
          = With(zone.info, f, t, zone.lock)
    OBVIOUS
  <2>3. [zone EXCEPT !.tasks = t, !.flow = f] = [[zone EXCEPT !.tasks = t] EXCEPT !.flow = f]
    OBVIOUS
  <2> QED
    BY <2>1, <2>2, <2>3, Zenon
<1>6. ASSUME NEW l, NEW f
      PROVE  [zone EXCEPT !.lock = l, !.flow = f] = With(zone.info, f, zone.tasks, l)
  <2>1. [zone EXCEPT !.lock = l] = With(zone.info, zone.flow, zone.tasks, l)
    <3>1. [Now EXCEPT !.lock = l] = With(zone.info, zone.flow, zone.tasks, l)
      OBVIOUS
    <3> QED
      BY <1>1, <3>1, Zenon
  <2>2. [With(zone.info, zone.flow, zone.tasks, l) EXCEPT !.flow = f]
          = With(zone.info, f, zone.tasks, l)
    OBVIOUS
  <2>3. [zone EXCEPT !.lock = l, !.flow = f] = [[zone EXCEPT !.lock = l] EXCEPT !.flow = f]
    OBVIOUS
  <2> QED
    BY <2>1, <2>2, <2>3, Zenon
<1>7. ASSUME NEW l, NEW t
      PROVE  [zone EXCEPT !.lock = l, !.tasks = t] = With(zone.info, zone.flow, t, l)
  <2>1. [zone EXCEPT !.lock = l] = With(zone.info, zone.flow, zone.tasks, l)
    <3>1. [Now EXCEPT !.lock = l] = With(zone.info, zone.flow, zone.tasks, l)
      OBVIOUS
    <3> QED
      BY <1>1, <3>1, Zenon
  <2>2. [With(zone.info, zone.flow, zone.tasks, l) EXCEPT !.tasks = t]
          = With(zone.info, zone.flow, t, l)
    OBVIOUS
  <2>3. [zone EXCEPT !.lock = l, !.tasks = t] = [[zone EXCEPT !.lock = l] EXCEPT !.tasks = t]
    OBVIOUS
  <2> QED
    BY <2>1, <2>2, <2>3, Zenon
<1> HIDE DEF With
<1>8. CASE Prepare(z)
  <2>1. PICK i : zones' = [zones EXCEPT ![z].info = i]
    BY <1>8 DEF Prepare
  <2>2. zones' = [zones EXCEPT ![z] = [zone EXCEPT !.info = i]]
    BY <2>1 DEF zone
  <2>3. zones' = [zones EXCEPT ![z] = With(i, zone.flow, zone.tasks, zone.lock)]
    BY <1>3, <2>2
  <2> QED
    BY <1>2, <2>3
<1>9. CASE Process(z)
  <2>1. PICK f, t : zones' = [zones EXCEPT ![z].flow = f, ![z].tasks = t]
    BY <1>9 DEF Process
  <2>2. zones' = [zones EXCEPT ![z] = [zone EXCEPT !.flow = f, !.tasks = t]]
    BY <2>1 DEF zone
  <2>3. zones' = [zones EXCEPT ![z] = With(zone.info, f, t, zone.lock)]
    BY <1>4, <2>2
  <2> QED
    BY <1>2, <2>3
<1>10. ASSUME NEW tasks, NEW flow, Do(z, tasks, flow) PROVE GraphsKept
  <2>1. PICK t : zones' = [zones EXCEPT ![z].tasks = t, ![z].flow = flow]
    BY <1>10 DEF Do
  <2>2. zones' = [zones EXCEPT ![z] = [zone EXCEPT !.tasks = t, !.flow = flow]]
    BY <2>1 DEF zone
  <2>3. zones' = [zones EXCEPT ![z] = With(zone.info, flow, t, zone.lock)]
    BY <1>5, <2>2
  <2> QED
    BY <1>2, <2>3
<1>11. CASE FinalizeNode(z) \/ FinalizeGive(z)
  BY <1>10, <1>11 DEF FinalizeNode, FinalizeGive
<1>12. CASE FinalizeLock(z)
  <2>1. PICK l, f : zones' = [zones EXCEPT ![z].lock = l, ![z].flow = f]
    BY <1>12 DEF FinalizeLock
  <2>2. zones' = [zones EXCEPT ![z] = [zone EXCEPT !.lock = l, !.flow = f]]
    BY <2>1 DEF zone
  <2>3. zones' = [zones EXCEPT ![z] = With(zone.info, f, zone.tasks, l)]
    BY <1>6, <2>2
  <2> QED
    BY <1>2, <2>3
<1>13. CASE FinalizeMove(z)
  <2>1. PICK l, t : zones' = [zones EXCEPT ![z].lock = l, ![z].tasks = t]
    BY <1>13 DEF FinalizeMove
  <2>2. zones' = [zones EXCEPT ![z] = [zone EXCEPT !.lock = l, !.tasks = t]]
    BY <2>1 DEF zone
  <2>3. zones' = [zones EXCEPT ![z] = With(zone.info, zone.flow, t, l)]
    BY <1>7, <2>2
  <2> QED
    BY <1>2, <2>3
<1> QED
  BY <1>8, <1>9, <1>11, <1>12, <1>13 DEF Finalize

LEMMA AroundBothWays ==
    ASSUME KatmosTyped, NEW t \in Turfs, NEW u \in Turfs, u \in ToSet(Neighbours(t))
    PROVE  t \in ToSet(Neighbours(u))
BY KatmosAssumption DEF KatmosTyped, Neighbours

\* The first immutable turf of a sequence is looked at.
LEMMA SpaceIsSeen ==
    ASSUME NEW fresh \in Seq(Turfs), ~fill.ignored, ToSet(fresh) \cap world.immutable # {}
    PROVE  LookedAt(fresh) \cap world.immutable # {}
<1> DEFINE I == {i \in 1..Len(fresh) : fresh[i] \in world.immutable}
<1>1. ToSet(fresh) = {fresh[k] : k \in 1..Len(fresh)} /\ Len(fresh) \in Nat
  BY ToSetFacts, LenProperties
<1>2. I \in SUBSET Nat /\ I # {}
  BY <1>1
<1> HIDE DEF I
<1>3. PICK i \in I : \A m \in I : i <= m
  BY <1>2, LeastNumber
<1>4. i \in 1..Len(fresh) /\ fresh[i] \in world.immutable
  BY <1>3 DEF I
<1>5. \A j \in 1..(i - 1) : fresh[j] \notin world.immutable
  <2> SUFFICES ASSUME NEW j \in 1..(i - 1), fresh[j] \in world.immutable PROVE FALSE
    OBVIOUS
  <2>1. j \in 1..Len(fresh) /\ ~(i <= j)
    BY <1>1, <1>4
  <2>2. j \in I
    BY <2>1 DEF I
  <2> QED
    BY <1>3, <2>1, <2>2
<1>6. fresh[i] \in LookedAt(fresh)
  BY <1>4, <1>5 DEF LookedAt
<1> QED
  BY <1>4, <1>6

\* What a turn of the flood fill adds.
LEMMA FillTurnFacts ==
    ASSUME KatmosTyped, FillTurn
    PROVE  \E cur \in Turfs :
            LET around == ToSet(Neighbours(cur))
                fresh  == around \ found
                opens  == ~fill.ignored /\ fresh \cap world.immutable # {}
            IN  /\ cur \in ToSet(fill.border)
                /\ fill' \in Fills
                /\ ToSet(fill'.border) \subseteq ToSet(fill.border) \cup fresh
                /\ ToSet(fill'.nodes) \subseteq ToSet(fill.nodes) \cup around
                /\ HadTurn(fill'.out) \subseteq HadTurn(fill.out) \cup {cur}
                /\ around \in SUBSET Turfs
                /\ found' = found \cup around
                /\ fill'.ignored = (fill.ignored \/ opens)
                /\ Opened' = Opened \cup {t \in {cur} : opens}
<1> DEFINE cur    == Head(fill.border)
           around == Neighbours(cur)
           near   == Simulated(around)
           fresh  == Among(around, Turfs \ found)
           new    == Simulated(fresh)
           seen   == LookedAt(fresh)
           rest   == Tail(fill.border)
           more   == Among(near, Turfs \ ToSet(fill.nodes))
           planet == fill.planet \/ cur \in world.planetary
           total  == fill.total + gas[cur]
           opens  == ~fill.ignored /\ (ToSet(around) \ found) \cap world.immutable # {}
           opened == fill.ignored \/ seen \cap world.immutable # {}
<1>1. /\ world \in Worlds /\ world \in WorldType
      /\ fill.border \in Seq(Turfs) /\ fill.border # << >> /\ fill.nodes \in Seq(Turfs)
      /\ fill.out \in [Turfs -> Seq(Turfs)] /\ fill.total \in Int /\ fill \in Fills
      /\ fill.ignored \in BOOLEAN
      /\ found \in SUBSET Turfs /\ gas \in [Turfs -> Nat]
  BY KatmosAssumption DEF KatmosTyped, Fills, FillTurn
<1>2. cur \in Turfs /\ rest \in Seq(Turfs) /\ ToSet(rest) \subseteq ToSet(fill.border)
  BY <1>1, ToSetTail
<1>3. cur \in ToSet(fill.border)
  <2>1. cur = fill.border[1] /\ 1 \in 1..Len(fill.border)
    BY <1>1
  <2>2. ToSet(fill.border) = {fill.border[k] : k \in 1..Len(fill.border)}
    BY <1>1, ToSetFacts
  <2> QED
    BY <2>1, <2>2
<1>4. around \in Seq(Turfs)
  BY <1>1, <1>2 DEF Neighbours, WorldType
<1>5. ToSet(around) \in SUBSET Turfs
  BY <1>4, ToSetFacts
<1> HIDE DEF cur, around
<1>6. near \in Seq(Turfs) /\ ToSet(near) \subseteq ToSet(around)
  BY <1>4, AmongFacts DEF Simulated
<1>7. fresh \in Seq(Turfs) /\ ToSet(fresh) = ToSet(around) \ found
  BY <1>4, <1>5, AmongFacts
<1> HIDE DEF near, fresh
<1>8. new \in Seq(Turfs) /\ ToSet(new) \subseteq ToSet(fresh)
  BY <1>7, AmongFacts DEF Simulated
<1>9. more \in Seq(Turfs) /\ ToSet(more) \subseteq ToSet(near)
  BY <1>6, AmongFacts
<1> HIDE DEF new, rest, more
<1>10. rest \o new \in Seq(Turfs) /\ ToSet(rest \o new) = ToSet(rest) \cup ToSet(new)
  <2>1. ASSUME NEW s \in Seq(Turfs), NEW r \in Seq(Turfs)
        PROVE  s \o r \in Seq(Turfs) /\ ToSet(s \o r) = ToSet(s) \cup ToSet(r)
    BY ToSetConcat
  <2> QED
    BY <1>2, <1>8, <2>1
<1>11. /\ fill.nodes \o more \in Seq(Turfs)
       /\ ToSet(fill.nodes \o more) = ToSet(fill.nodes) \cup ToSet(more)
  <2>1. ASSUME NEW s \in Seq(Turfs), NEW r \in Seq(Turfs)
        PROVE  s \o r \in Seq(Turfs) /\ ToSet(s \o r) = ToSet(s) \cup ToSet(r)
    BY ToSetConcat
  <2> QED
    BY <1>1, <1>9, <2>1
<1>12. /\ fill' = [fill EXCEPT !.border = rest \o new, !.planet = planet,
                               !.nodes = fill.nodes \o more, !.out[cur] = near,
                               !.total = total, !.ignored = opened]
       /\ found' = found \cup ToSet(fresh)
       /\ world' = world
  BY DEF FillTurn, cur, around, near, fresh, new, rest, more
<1>13. sent' = sent
             \cup {<<"decompress", cur>> : u \in seen \cap world.immutable}
             \cup {<<"planet", cur>> : u \in {v \in seen \cap world.planetary :
                                                <<cur, v>> \in world.firelocks}}
  BY DEF FillTurn, cur, around, fresh
<1>14. seen \subseteq ToSet(fresh) /\ (fill.ignored => seen = {})
  <2>1. ToSet(fresh) = {fresh[k] : k \in 1..Len(fresh)}
    BY <1>7, ToSetFacts
  <2> QED
    BY <2>1 DEF LookedAt
<1>15. seen \cap world.immutable # {} <=> opens
  <2>1. opens => seen \cap world.immutable # {}
    BY <1>7, SpaceIsSeen
  <2>2. seen \cap world.immutable # {} => opens
    BY <1>7, <1>14
  <2> QED
    BY <2>1, <2>2
<1>16. planet \in BOOLEAN /\ opened \in BOOLEAN /\ opened = (fill.ignored \/ opens)
  <2>1. opened = (fill.ignored \/ opens)
    BY <1>15
  <2> QED
    BY <1>1, <2>1 DEF Fills
<1>17. total \in Int
  BY <1>1, <1>2
<1> DEFINE out == [fill.out EXCEPT ![cur] = near]
<1>18. out \in [Turfs -> Seq(Turfs)] /\ HadTurn(out) \subseteq HadTurn(fill.out) \cup {cur}
  BY <1>1, <1>2, <1>6 DEF HadTurn
<1> HIDE DEF seen, planet, opened, total, opens
<1>19. /\ fill' \in Fills /\ fill'.border = rest \o new /\ fill'.nodes = fill.nodes \o more
       /\ fill'.out = out /\ fill'.ignored = opened
  BY <1>1, <1>10, <1>11, <1>12, <1>16, <1>17, <1>18 DEF Fills
<1>20. Opened' = Opened \cup {t \in {cur} : opens}
  <2>1. ASSUME NEW t \in Turfs
        PROVE  <<"decompress", t>> \in sent' <=> <<"decompress", t>> \in sent \/ (t = cur /\ opens)
    BY <1>13, <1>15
  <2> QED
    BY <1>2, <2>1 DEF Opened
<1>21. found' = found \cup ToSet(around)
  BY <1>7, <1>12
<1> HIDE DEF out
<1>22. /\ ToSet(fill'.border) \subseteq ToSet(fill.border) \cup (ToSet(around) \ found)
       /\ ToSet(fill'.nodes) \subseteq ToSet(fill.nodes) \cup ToSet(around)
  BY <1>2, <1>6, <1>7, <1>8, <1>9, <1>10, <1>11, <1>19
<1>23. /\ HadTurn(fill'.out) \subseteq HadTurn(fill.out) \cup {cur}
       /\ fill'.ignored = (fill.ignored \/ opens)
  BY <1>16, <1>18, <1>19
<1> QED
  BY <1>2, <1>3, <1>5, <1>19, <1>20, <1>21, <1>22, <1>23 DEF around, opens

LEMMA FillTurnKeeps ==
    ASSUME KatmosInv, FillTurn
    PROVE  KatmosInv'
<1>1. KatmosTyped /\ ZonesApart /\ FillApart /\ SpaceOpens
  BY DEF KatmosInv
<1>2. PICK cur \in Turfs :
            LET around == ToSet(Neighbours(cur))
                fresh  == around \ found
                opens  == ~fill.ignored /\ fresh \cap world.immutable # {}
            IN  /\ cur \in ToSet(fill.border)
                /\ fill' \in Fills
                /\ ToSet(fill'.border) \subseteq ToSet(fill.border) \cup fresh
                /\ ToSet(fill'.nodes) \subseteq ToSet(fill.nodes) \cup around
                /\ HadTurn(fill'.out) \subseteq HadTurn(fill.out) \cup {cur}
                /\ around \in SUBSET Turfs
                /\ found' = found \cup around
                /\ fill'.ignored = (fill.ignored \/ opens)
                /\ Opened' = Opened \cup {t \in {cur} : opens}
  BY <1>1, FillTurnFacts
<1> DEFINE around == ToSet(Neighbours(cur))
           fresh  == around \ found
           opens  == ~fill.ignored /\ fresh \cap world.immutable # {}
<1>3. /\ cur \in ToSet(fill.border)
      /\ fill' \in Fills
      /\ ToSet(fill'.border) \subseteq ToSet(fill.border) \cup fresh
      /\ ToSet(fill'.nodes) \subseteq ToSet(fill.nodes) \cup around
      /\ HadTurn(fill'.out) \subseteq HadTurn(fill.out) \cup {cur}
      /\ around \in SUBSET Turfs
      /\ found' = found \cup around
      /\ fill'.ignored = (fill.ignored \/ opens)
      /\ Opened' = Opened \cup {t \in {cur} : opens}
  BY <1>2
<1>4. /\ phase = "fill" /\ phase' = "fill"
      /\ world' = world /\ gas' = gas /\ todo' = todo /\ zones' = zones
  BY DEF FillTurn
<1>5. \A t : Neighbours(t)' = Neighbours(t)
  BY <1>4 DEF Neighbours
<1> HIDE DEF around
<1>6. KatmosTyped'
  BY <1>1, <1>3, <1>4 DEF KatmosTyped
<1>7. ASSUME NEW nodes, NEW out, Enclosed(nodes, out)
      PROVE  /\ ToSet(nodes) \cup HadTurn(out) \subseteq found'
             /\ \A t \in HadTurn(out) : ToSet(Neighbours(t)) \subseteq found'
  BY <1>3, <1>7 DEF Enclosed
<1>8. ZonesApart'
  BY <1>1, <1>4, <1>5, <1>7 DEF ZonesApart, Enclosed, HadTurn
<1>9. /\ Enclosed(fill.nodes, fill.out) /\ ToSet(fill.border) \subseteq found
      /\ \A z \in 1..Len(zones) :
            /\ ToSet(zones[z].nodes) \cap (HadTurn(fill.out) \cup ToSet(fill.border)) = {}
            /\ \A t \in HadTurn(zones[z].out) :
                    /\ t \notin ToSet(fill.nodes)
                    /\ ToSet(Neighbours(t)) \cap ToSet(fill.border) = {}
  BY <1>1, <1>4 DEF FillApart
<1>10. FillApart'
  <2>1. /\ ToSet(fill'.nodes) \cup HadTurn(fill'.out) \subseteq found'
        /\ \A t \in HadTurn(fill'.out) : ToSet(Neighbours(t)) \subseteq found'
    <3>1. ToSet(Neighbours(cur)) \subseteq found'
      BY <1>3 DEF around
    <3> QED
      BY <1>3, <1>7, <1>9, <3>1
  <2>2. ToSet(fill'.border) \subseteq found'
    BY <1>3, <1>9
  <2>3. ASSUME NEW z \in 1..Len(zones)
        PROVE  ToSet(zones[z].nodes) \cap (HadTurn(fill'.out) \cup ToSet(fill'.border)) = {}
    <3>1. ToSet(zones[z].nodes) \subseteq found
      BY <1>1 DEF ZonesApart, Enclosed
    <3> QED
      BY <1>3, <1>9, <3>1
  <2>4. ASSUME NEW z \in 1..Len(zones), NEW t \in HadTurn(zones[z].out)
        PROVE  t \notin ToSet(fill'.nodes) /\ ToSet(Neighbours(t)) \cap ToSet(fill'.border) = {}
    <3>1. ToSet(Neighbours(t)) \subseteq found
      BY <1>1 DEF ZonesApart, Enclosed
    <3>2. t \notin around
      <4> SUFFICES ASSUME t \in ToSet(Neighbours(cur)) PROVE FALSE
        BY DEF around
      <4>1. t \in Turfs
        BY DEF HadTurn
      <4>2. cur \in ToSet(Neighbours(t))
        BY <1>1, <4>1, AroundBothWays
      <4> QED
        BY <1>3, <1>9, <4>2
    <3> QED
      BY <1>3, <1>9, <3>1, <3>2
  <2> QED
    BY <1>4, <1>5, <2>1, <2>2, <2>3, <2>4 DEF FillApart, Enclosed, HadTurn
<1>11. SpaceOpens'
  <2>1. /\ Opened \subseteq found
        /\ found \cap world.immutable # {} => Opened # {}
        /\ fill.ignored => Opened # {}
        /\ ~fill.ignored =>
            /\ Opened \cap (HadTurn(fill.out) \cup ToSet(fill.border)) = {}
            /\ NextToSpace(fill.out) => Opened # {}
        /\ \A z \in 1..Len(zones) :
                NextToSpace(zones[z].out) => Opened \ HadTurn(zones[z].out) # {}
    BY <1>1, <1>4 DEF SpaceOpens
  <2>2. Opened' \subseteq found'
    BY <1>3, <1>9, <2>1
  <2>3. found' \cap world.immutable # {} => Opened' # {}
    BY <1>3, <2>1
  <2>4. fill'.ignored => Opened' # {}
    BY <1>3, <2>1
  <2>5. ASSUME ~fill'.ignored
        PROVE  /\ Opened' \cap (HadTurn(fill'.out) \cup ToSet(fill'.border)) = {}
               /\ NextToSpace(fill'.out) => Opened' # {}
    <3>1. ~fill.ignored /\ fresh \cap world.immutable = {} /\ Opened' = Opened
      BY <1>3, <2>5
    <3>2. cur \notin Opened
      BY <1>3, <2>1, <3>1
    <3>3. Opened' \cap (HadTurn(fill'.out) \cup ToSet(fill'.border)) = {}
      BY <1>3, <2>1, <3>1, <3>2
    <3>4. ASSUME NextToSpace(fill'.out) PROVE Opened # {}
      <4>1. PICK t \in HadTurn(fill'.out) : ToSet(Neighbours(t)) \cap world.immutable # {}
        BY <3>4 DEF NextToSpace
      <4>2. CASE t \in HadTurn(fill.out)
        BY <2>1, <3>1, <4>1, <4>2 DEF NextToSpace
      <4>3. CASE t = cur
        BY <2>1, <3>1, <4>1, <4>3 DEF around
      <4> QED
        BY <1>3, <4>2, <4>3
    <3> QED
      BY <3>1, <3>3, <3>4
  <2>6. ASSUME NEW z \in 1..Len(zones), NextToSpace(zones[z].out)
        PROVE  Opened' \ HadTurn(zones[z].out) # {}
    BY <1>3, <2>1, <2>6
  <2> QED
    BY <1>4, <1>5, <2>2, <2>3, <2>4, <2>5, <2>6 DEF SpaceOpens, NextToSpace, HadTurn
<1> QED
  BY <1>6, <1>8, <1>10, <1>11 DEF KatmosInv

LEMMA SearchKeeps ==
    ASSUME KatmosInv, Search
    PROVE  KatmosInv'
<1> DEFINE t == Min(todo)
           first == <<t>>
<1>1. KatmosTyped /\ ZonesApart /\ SpaceOpens
  BY DEF KatmosInv
<1>2. /\ phase = "search" /\ world' = world /\ gas' = gas /\ zones' = zones /\ sent' = sent
      /\ todo' = todo \ {t} /\ todo # {} /\ todo \in SUBSET Turfs
      /\ gas \in [Turfs -> Nat] /\ \A u \in world.immutable : gas[u] = 0
      /\ found \in SUBSET Turfs /\ fill \in Fills
  BY <1>1 DEF Search, KatmosTyped
<1>3. t \in Turfs
  <2>1. todo \in SUBSET Nat
    BY <1>2, KatmosAssumption
  <2>2. \E n \in todo : \A m \in todo : n <= m
    BY <1>2, <2>1, LeastNumber
  <2>3. t \in todo
    BY <2>2 DEF Min
  <2> QED
    BY <1>2, <2>3
<1>4. \/ phase' = phase /\ found' = found /\ fill' = fill
      \/ phase' = "fill" /\ found' = found \cup {t} /\ fill' = Begun(first) /\ Starts(t)
  BY DEF Search
<1>5. \A u : Neighbours(u)' = Neighbours(u)
  BY <1>2 DEF Neighbours
<1>6. Opened' = Opened
  BY <1>2 DEF Opened
<1> HIDE DEF t
<1>7. first \in Seq(Turfs) /\ ToSet(first) = {t}
  BY <1>3 DEF ToSet
<1> HIDE DEF first
<1>8. /\ Begun(first) \in Fills /\ Begun(first).border = first /\ Begun(first).nodes = first
      /\ HadTurn(Begun(first).out) = {} /\ Begun(first).ignored = FALSE
  BY <1>7, EmptySeq DEF Begun, Fills, HadTurn
<1> DEFINE begun == Begun(first)
<1> HIDE DEF begun
<1>9. /\ fill' \in Fills /\ todo' \in SUBSET Turfs /\ found' \in SUBSET Turfs
      /\ phase' \in {"search", "fill"}
  BY <1>2, <1>3, <1>4, <1>8
<1>10. KatmosTyped'
  BY <1>1, <1>2, <1>9 DEF KatmosTyped
<1>11. found \subseteq found'
  BY <1>4
<1>12. ZonesApart'
  BY <1>1, <1>2, <1>5, <1>11 DEF ZonesApart, Enclosed, HadTurn
<1>13. CASE phase' = phase /\ found' = found /\ fill' = fill
  <2>1. FillApart'
    BY <1>2, <1>13 DEF FillApart
  <2>2. SpaceOpens'
    BY <1>1, <1>2, <1>5, <1>6, <1>13 DEF SpaceOpens, NextToSpace, HadTurn
  <2> QED
    BY <1>10, <1>12, <2>1, <2>2 DEF KatmosInv
<1>14. CASE phase' = "fill" /\ found' = found \cup {t} /\ fill' = Begun(first) /\ Starts(t)
  <2>1. t \notin found /\ t \notin world.immutable
    <3>1. gas[t] >= MinShare /\ t \notin found
      BY <1>14 DEF Starts
    <3>2. t \in world.immutable => gas[t] = 0
      BY <1>2
    <3> QED
      BY <3>1, <3>2, KatmosAssumption
  <2>2. /\ fill'.border = first /\ fill'.nodes = first /\ HadTurn(fill'.out) = {}
        /\ fill'.ignored = FALSE
    BY <1>8, <1>14
  <2>3. ToSet(fill'.nodes) \subseteq found' /\ ToSet(fill'.border) \subseteq found'
    BY <1>7, <1>14, <2>2
  <2>4. ASSUME NEW z \in 1..Len(zones)
        PROVE  /\ ToSet(zones[z].nodes) \cap (HadTurn(fill'.out) \cup ToSet(fill'.border)) = {}
               /\ \A u \in HadTurn(zones[z].out) :
                    /\ u \notin ToSet(fill'.nodes)
                    /\ ToSet(Neighbours(u)) \cap ToSet(fill'.border) = {}
    <3>1. /\ ToSet(zones[z].nodes) \cup HadTurn(zones[z].out) \subseteq found
          /\ \A u \in HadTurn(zones[z].out) : ToSet(Neighbours(u)) \subseteq found
      BY <1>1 DEF ZonesApart, Enclosed
    <3> QED
      BY <1>7, <2>1, <2>2, <3>1
  <2>5. FillApart'
    BY <1>2, <1>5, <2>2, <2>3, <2>4 DEF FillApart, Enclosed, HadTurn
  <2>6. SpaceOpens'
    <3>1. /\ Opened \subseteq found
          /\ found \cap world.immutable # {} => Opened # {}
          /\ \A z \in 1..Len(zones) :
                NextToSpace(zones[z].out) => Opened \ HadTurn(zones[z].out) # {}
      BY <1>1 DEF SpaceOpens
    <3>2. found' \cap world.immutable # {} => Opened # {}
      BY <1>14, <2>1, <3>1
    <3>3. Opened \cap (HadTurn(fill'.out) \cup ToSet(fill'.border)) = {} /\ ~NextToSpace(fill'.out)
      BY <1>7, <2>1, <2>2, <3>1 DEF NextToSpace
    <3> QED
      BY <1>2, <1>5, <1>6, <1>11, <2>2, <3>1, <3>2, <3>3 DEF SpaceOpens, NextToSpace, HadTurn
  <2> QED
    BY <1>10, <1>12, <2>5, <2>6 DEF KatmosInv
<1> QED
  BY <1>4, <1>13, <1>14

\* A zone that is not open to space joins the others.
LEMMA ZoneJoins ==
    ASSUME KatmosTyped, zones' = Append(zones, NewZone)
    PROVE  /\ zones' \in Seq(ToSet(zones')) /\ Len(zones') = Len(zones) + 1 /\ Len(zones) \in Nat
           /\ \A z \in 1..Len(zones) : zones'[z] = zones[z]
           /\ zones'[Len(zones) + 1] = NewZone
           /\ IsZone(NewZone) /\ NewZone.nodes = fill.nodes /\ NewZone.out = fill.out
<1> DEFINE zone == NewZone
           n == Len(zones)
           S == ToSet(zones) \cup {zone}
<1>1. IsZone(zone) /\ zone.nodes = fill.nodes /\ zone.out = fill.out
  BY DEF NewZone, IsZone, KatmosTyped, Fills
<1> HIDE DEF zone
<1>2. zones \in Seq(ToSet(zones)) /\ ToSet(zones) \subseteq S /\ zone \in S
  BY DEF KatmosTyped
<1> HIDE DEF S
<1>3. zones \in Seq(S)
  BY <1>2, SeqMonotonic
<1>4. /\ zones' \in Seq(S) /\ Len(zones') = n + 1 /\ n \in Nat
      /\ \A z \in 1..n : zones'[z] = zones[z]
      /\ zones'[n + 1] = zone
  BY <1>2, <1>3, AppendProperties, LenProperties DEF zone
<1>5. zones' \in Seq(ToSet(zones'))
  <2> DEFINE seq == zones'
             R == ToSet(seq)
             m == Len(seq)
  <2>1. m \in Nat /\ DOMAIN seq = 1..m /\ seq = [k \in 1..m |-> seq[k]]
    BY <1>4, LenProperties, SeqDef
  <2>2. \A k \in 1..m : seq[k] \in R
    BY <2>1 DEF ToSet
  <2> HIDE DEF seq, R, m
  <2>3. seq \in [1..m -> R]
    BY <2>1, <2>2
  <2>4. seq \in Seq(R)
    BY <2>1, <2>3, SeqDef
  <2> QED
    BY <2>4 DEF seq, R
<1> QED
  BY <1>1, <1>4, <1>5 DEF zone

LEMMA FillEndKeeps ==
    ASSUME KatmosInv, FillEnd
    PROVE  KatmosInv'
<1>1. KatmosTyped /\ ZonesApart /\ FillApart /\ SpaceOpens
  BY DEF KatmosInv
<1>2. /\ phase = "fill" /\ phase' = "search" /\ world' = world /\ gas' = gas /\ todo' = todo
      /\ found' = found /\ fill' = fill /\ sent' = sent
      /\ zones' = IF fill.ignored THEN zones ELSE Append(zones, NewZone)
  BY DEF FillEnd, Flooded
<1>3. \A t : Neighbours(t)' = Neighbours(t)
  BY <1>2 DEF Neighbours
<1>4. Opened' = Opened
  BY <1>2 DEF Opened
<1>5. FillApart'
  BY <1>2 DEF FillApart
<1>6. /\ \A z \in 1..Len(zones) : Enclosed(zones[z].nodes, zones[z].out)
      /\ \A y, z \in 1..Len(zones) :
            y # z => ToSet(zones[y].nodes) \cap HadTurn(zones[z].out) = {}
      /\ Enclosed(fill.nodes, fill.out)
      /\ \A z \in 1..Len(zones) :
            /\ ToSet(zones[z].nodes) \cap HadTurn(fill.out) = {}
            /\ HadTurn(zones[z].out) \cap ToSet(fill.nodes) = {}
  BY <1>1, <1>2 DEF ZonesApart, FillApart
<1>7. CASE fill.ignored
  <2>1. KatmosTyped'
    BY <1>1, <1>2, <1>7 DEF KatmosTyped
  <2>2. ZonesApart'
    BY <1>2, <1>3, <1>6, <1>7 DEF ZonesApart, Enclosed, HadTurn
  <2>3. SpaceOpens'
    BY <1>1, <1>2, <1>3, <1>4, <1>7 DEF SpaceOpens, NextToSpace, HadTurn
  <2> QED
    BY <1>5, <2>1, <2>2, <2>3 DEF KatmosInv
<1>8. CASE ~fill.ignored
  <2> DEFINE n == Len(zones)
             last == n + 1
  <2>1. /\ zones' \in Seq(ToSet(zones')) /\ Len(zones') = last /\ n \in Nat
        /\ \A z \in 1..n : zones'[z] = zones[z]
        /\ IsZone(zones'[last])
        /\ zones'[last].nodes = fill.nodes /\ zones'[last].out = fill.out
    BY <1>1, <1>2, <1>8, ZoneJoins
  <2>2. \A z \in 1..Len(zones') : z \in 1..n \/ z = last
    BY <2>1
  <2> HIDE DEF last
  <2>3. KatmosTyped'
    <3>1. \A z \in 1..Len(zones') : IsZone(zones'[z])
      BY <1>1, <2>1, <2>2 DEF KatmosTyped
    <3> QED
      BY <1>1, <1>2, <2>1, <3>1 DEF KatmosTyped, IsZone
  <2>4. \A z \in 1..Len(zones') : Enclosed(zones'[z].nodes, zones'[z].out)
    BY <1>6, <2>1, <2>2
  <2>5. ASSUME NEW y \in 1..Len(zones'), NEW z \in 1..Len(zones'), y # z
        PROVE  ToSet(zones'[y].nodes) \cap HadTurn(zones'[z].out) = {}
    <3>1. CASE y \in 1..n /\ z \in 1..n
      BY <1>6, <2>1, <2>5, <3>1
    <3>2. CASE y \in 1..n /\ z = last
      BY <1>6, <2>1, <3>2
    <3>3. CASE y = last /\ z \in 1..n
      BY <1>6, <2>1, <3>3
    <3> QED
      BY <2>2, <2>5, <3>1, <3>2, <3>3
  <2>6. ZonesApart'
    BY <1>2, <1>3, <2>4, <2>5 DEF ZonesApart, Enclosed, HadTurn
  <2>7. /\ Opened \subseteq found
        /\ found \cap world.immutable # {} => Opened # {}
        /\ Opened \cap HadTurn(fill.out) = {}
        /\ NextToSpace(fill.out) => Opened # {}
        /\ \A z \in 1..n : NextToSpace(zones[z].out) => Opened \ HadTurn(zones[z].out) # {}
    BY <1>1, <1>2, <1>8 DEF SpaceOpens
  <2>8. ASSUME NEW z \in 1..Len(zones'), NextToSpace(zones'[z].out)
        PROVE  Opened \ HadTurn(zones'[z].out) # {}
    BY <2>1, <2>2, <2>7, <2>8
  <2>9. SpaceOpens'
    BY <1>2, <1>3, <1>4, <2>7, <2>8 DEF SpaceOpens, NextToSpace, HadTurn
  <2> QED
    BY <1>5, <2>3, <2>6, <2>9 DEF KatmosInv
<1> QED
  BY <1>7, <1>8

\* The steps of the workers.
LEMMA WorkersKeep ==
    ASSUME KatmosInv, NEW z \in 1..Len(zones), Prepare(z) \/ Process(z) \/ Finalize(z)
    PROVE  KatmosInv'
<1>1. KatmosTyped /\ ZonesApart /\ FillApart /\ SpaceOpens
  BY DEF KatmosInv
<1>2. GraphsKept
  BY <1>1, WorkersKeepGraphs
<1>3. /\ phase \in {"process", "finalize"} /\ phase' = phase
      /\ world' = world /\ todo' = todo /\ found' = found /\ fill' = fill /\ sent' = sent
  BY DEF Prepare, Process, Finalize, FinalizeNode, FinalizeGive, FinalizeLock, FinalizeMove,
         Doing, Do
<1>4. /\ zones' \in Seq(ToSet(zones')) /\ Len(zones') = Len(zones)
      /\ \A k \in 1..Len(zones) :
            /\ IsZone(zones'[k])
            /\ zones'[k].nodes = zones[k].nodes /\ zones'[k].out = zones[k].out
  BY <1>2 DEF GraphsKept, GraphKept
<1>5. \A t : Neighbours(t)' = Neighbours(t)
  BY <1>3 DEF Neighbours
<1>6. Opened' = Opened
  BY <1>3 DEF Opened
<1>7. KatmosTyped'
  BY <1>1, <1>3, <1>4 DEF KatmosTyped, IsZone
<1>8. FillApart'
  BY <1>3 DEF FillApart
<1>9. ZonesApart'
  BY <1>1, <1>3, <1>4, <1>5 DEF ZonesApart, Enclosed, HadTurn
<1>10. SpaceOpens'
  BY <1>1, <1>3, <1>4, <1>5, <1>6 DEF SpaceOpens, NextToSpace, HadTurn
<1> QED
  BY <1>7, <1>8, <1>9, <1>10 DEF KatmosInv

LEMMA KatmosStep == KatmosInv /\ [KatmosNext]_katmosVars => KatmosInv'
<1> SUFFICES ASSUME KatmosInv, [KatmosNext]_katmosVars PROVE KatmosInv'
  OBVIOUS
<1>1. ASSUME world' = world, gas' = gas, todo' = todo, found' = found, fill' = fill,
             zones' = zones, sent' = sent, phase' = phase \/ phase' \notin {"search", "fill"}
      PROVE  KatmosInv'
  <2>1. KatmosTyped'
    BY <1>1 DEF KatmosInv, KatmosTyped, IsZone
  <2>2. ZonesApart'
    BY <1>1 DEF KatmosInv, ZonesApart, Enclosed, HadTurn, Neighbours
  <2>3. FillApart'
    BY <1>1 DEF KatmosInv, FillApart, Enclosed, HadTurn, Neighbours
  <2>4. SpaceOpens'
    BY <1>1 DEF KatmosInv, SpaceOpens, NextToSpace, Opened, HadTurn, Neighbours
  <2> QED
    BY <2>1, <2>2, <2>3, <2>4 DEF KatmosInv
<1>2. CASE Search
  BY <1>2, SearchKeeps
<1>3. CASE FillTurn
  BY <1>3, FillTurnKeeps
<1>4. CASE FillEnd
  BY <1>4, FillEndKeeps
<1>5. CASE FillLate
  BY <1>1, <1>5 DEF FillLate
<1>6. CASE EndSearch
  BY <1>1, <1>6 DEF EndSearch
<1>7. CASE EndProcess
  BY <1>1, <1>7 DEF EndProcess
<1>8. CASE EndFinalize
  BY <1>1, <1>8 DEF EndFinalize
<1>9. ASSUME NEW z \in 1..Len(zones), Prepare(z) \/ Process(z) \/ Finalize(z) PROVE KatmosInv'
  BY <1>9, WorkersKeep
<1>10. CASE UNCHANGED katmosVars
  BY <1>1, <1>10 DEF katmosVars
<1> QED
  BY <1>2, <1>3, <1>4, <1>5, <1>6, <1>7, <1>8, <1>9, <1>10 DEF KatmosNext, Alone

\* Types of katmos, what the fill has found so far, and what holds between any
\* two zones: the invariant the theorems below rest on.
THEOREM KatmosInvariant == KatmosSpec => []KatmosInv
BY KatmosBegins, KatmosStep, PTL DEF KatmosSpec

\* No turf that had its turn in a zone is a node of another, in whatever world.
THEOREM ZonesShareTheirBorders == KatmosSpec => []SharedAtBorder
<1>1. KatmosInv => SharedAtBorder
  <2> SUFFICES ASSUME KatmosInv, NEW y \in 1..Len(zones), NEW z \in 1..Len(zones), y # z,
                      NEW t \in ToSet(zones[y].nodes) \cap ToSet(zones[z].nodes)
               PROVE  zones[y].out[t] = << >> /\ zones[z].out[t] = << >>
    BY DEF SharedAtBorder
  <2>1. /\ ToSet(zones[y].nodes) \cap HadTurn(zones[z].out) = {}
        /\ ToSet(zones[z].nodes) \cap HadTurn(zones[y].out) = {}
    BY DEF KatmosInv, ZonesApart
  <2>2. zones[y].nodes \in Seq(Turfs)
    BY DEF KatmosInv, KatmosTyped, IsZone
  <2>3. t \in Turfs
    BY <2>2, ToSetFacts
  <2> QED
    BY <2>1, <2>3 DEF HadTurn
<1> QED
  BY <1>1, KatmosInvariant, PTL

\* A zone that is levelled next to space is decompressed by a callback that was
\* sent from another.
THEOREM SpaceIsNotMissed == KatmosSpec => []OpenZonesIgnored
<1>1. KatmosInv => OpenZonesIgnored
  <2> SUFFICES ASSUME KatmosInv, NEW z \in 1..Len(zones), NEW t \in ToSet(zones[z].nodes),
                      zones[z].out[t] # << >>, ToSet(Neighbours(t)) \cap world.immutable # {}
               PROVE  \E v \in Turfs : zones[z].out[v] = << >> /\ <<"decompress", v>> \in sent
    BY DEF OpenZonesIgnored
  <2>1. zones[z].nodes \in Seq(Turfs)
    BY DEF KatmosInv, KatmosTyped, IsZone
  <2>2. t \in Turfs
    BY <2>1, ToSetFacts
  <2>3. NextToSpace(zones[z].out)
    BY <2>2 DEF NextToSpace, HadTurn
  <2>4. Opened \ HadTurn(zones[z].out) # {}
    BY <2>3 DEF KatmosInv, SpaceOpens
  <2> QED
    BY <2>4 DEF Opened, HadTurn
<1> QED
  BY <1>1, KatmosInvariant, PTL
=============================================================================
