---------------------------- MODULE MixturesProofs ----------------------------
(***************************************************************************)
(* Proofs about Mixtures: whatever hooks are called, with whatever amounts  *)
(* and ratios and on whatever mixtures, none has less than no moles of a    *)
(* gas, a heat capacity that is kept is the one of the moles there are, and *)
(* NaN comes from empty mixtures only; what moves gas or heat between       *)
(* mixtures without NaN keeps both.                                         *)
(***************************************************************************)
EXTENDS Mixtures, InductionLemmas

-----------------------------------------------------------------------------
(***************************************************************************)
(* The inductive invariant, of every mixture by itself.                     *)
(***************************************************************************)
\* A mixture whose moles are in M.  Nothing here depends on its temperature.
Shaped(x, M) ==
    x \in [moles : [Gases -> M], nan : SUBSET Gases, temp : {x.temp}, min : Nat,
           cached : Nat \cup {Unknown}, immutable : BOOLEAN]

\* Unless a minimum was set after the heat capacity was kept, or there is NaN.
CacheRight(x) ==
    Minima \subseteq {0} =>
        /\ x.min = 0
        /\ x.nan = {} /\ x.cached # Unknown => x.cached = HeatOf(x.moles)

Sound(x) == Shaped(x, Nat) /\ CacheRight(x)

Inv == mix = [m \in Mixes |-> mix[m]] /\ \A m \in Mixes : Sound(mix[m])

-----------------------------------------------------------------------------
(***************************************************************************)
(* The heat capacity of moles is linear in them.                            *)
(***************************************************************************)
LEMMA HeatOfNat ==
    ASSUME NEW a \in [Gases -> Nat]
    PROVE  HeatOf(a) \in Nat
<1> DEFINE f == [g \in Gases |-> a[g] * Heat[g]]
<1>1. IsFiniteSet(Gases) /\ \A g \in Gases : Heat[g] \in Nat /\ a[g] \in Nat
  BY MixturesAssumption
<1>2. \A i, j \in Nat : i * j \in Nat
  OBVIOUS
<1>3. \A g \in Gases : f[g] \in Nat
  BY <1>1, <1>2
<1>4. HeatOf(a) = SumFunctionOnSet(f, Gases)
  BY DEF HeatOf
<1> HIDE DEF f
<1>5. SumFunctionOnSet(f, Gases) \in Nat
  BY <1>1, <1>3, SumOfNat
<1> QED
  BY <1>4, <1>5

LEMMA SlowIsHeatOf ==
    ASSUME NEW x, Shaped(x, Nat)
    PROVE  /\ SlowHeatCapacity(x) \in Nat
           /\ x.min = 0 /\ x.nan = {} => SlowHeatCapacity(x) = HeatOf(x.moles)
<1> DEFINE h == HeatOf(x.moles)
<1>1. x.moles \in [Gases -> Nat] /\ x.min \in Nat
  BY DEF Shaped
<1>2. h \in Nat
  BY <1>1, HeatOfNat
<1> HIDE DEF h
<1>3. \E m \in {h, x.min} : \A k \in {h, x.min} : m >= k
  <2>1. h >= x.min \/ x.min >= h
    BY <1>1, <1>2
  <2> QED
    BY <1>1, <1>2, <2>1
<1>4. Max({h, x.min}) \in {h, x.min} /\ \A k \in {h, x.min} : Max({h, x.min}) >= k
  BY <1>3 DEF Max
<1>5. SlowHeatCapacity(x) = IF x.nan # {} THEN x.min ELSE Max({h, x.min})
  BY DEF SlowHeatCapacity, h
<1>6. x.min = 0 => Max({h, x.min}) = h
  BY <1>1, <1>2, <1>4
<1> QED
  BY <1>1, <1>2, <1>4, <1>5, <1>6 DEF h

LEMMA CapacityIsHeatOf ==
    ASSUME NEW x, Sound(x)
    PROVE  /\ HeatCapacity(x) \in Nat
           /\ Minima \subseteq {0} /\ x.nan = {} => HeatCapacity(x) = HeatOf(x.moles)
<1>1. Shaped(x, Nat) /\ CacheRight(x) /\ x.cached \in Nat \cup {Unknown}
  BY DEF Sound, Shaped
<1> QED
  BY <1>1, SlowIsHeatOf DEF HeatCapacity, CacheRight

LEMMA HeatOfPlus ==
    ASSUME NEW a \in [Gases -> Nat], NEW b \in [Gases -> Nat]
    PROVE  HeatOf([g \in Gases |-> a[g] + b[g]]) = HeatOf(a) + HeatOf(b)
<1> DEFINE f == [g \in Gases |-> a[g] * Heat[g]]
           h == [g \in Gases |-> b[g] * Heat[g]]
           c == [g \in Gases |-> a[g] + b[g]]
           i == [g \in Gases |-> c[g] * Heat[g]]
<1>1. IsFiniteSet(Gases) /\ \A g \in Gases : Heat[g] \in Nat /\ a[g] \in Nat /\ b[g] \in Nat
  BY MixturesAssumption
<1>2. \A j, k, l \in Nat : j * l \in Int /\ (j + k) * l = j * l + k * l
  OBVIOUS
<1>3. \A g \in Gases : f[g] \in Int /\ h[g] \in Int /\ i[g] = f[g] + h[g]
  BY <1>1, <1>2
<1>4. HeatOf(a) = SumFunctionOnSet(f, Gases) /\ HeatOf(b) = SumFunctionOnSet(h, Gases)
      /\ HeatOf(c) = SumFunctionOnSet(i, Gases)
  BY DEF HeatOf
<1> HIDE DEF f, h, i, c
<1>5. \A g \in Gases : f[g] \in Int
  BY <1>3
<1>6. \A g \in Gases : h[g] \in Int
  BY <1>3
<1>7. \A g \in Gases : i[g] = f[g] + h[g]
  BY <1>3
<1>8. SumFunctionOnSet(i, Gases) = SumFunctionOnSet(f, Gases) + SumFunctionOnSet(h, Gases)
  BY <1>1, <1>5, <1>6, <1>7, SumPlus
<1> QED
  BY <1>4, <1>8 DEF c

\* A ratio that is a number.
LEMMA ScaledIs ==
    ASSUME NEW i, NEW r \in Int \X (Nat \ {0})
    PROVE  r # NoNumber /\ Scaled(i, r) = (i * r[1]) \div r[2]
<1>1. r # NoNumber
  BY DEF NoNumber
<1> QED
  BY <1>1 DEF Scaled

\* A share that leaves no mole split is a share of the heat capacity too.
LEMMA HeatOfScaled ==
    ASSUME NEW a \in [Gases -> Nat], NEW n \in Nat, NEW d \in Nat \ {0},
           \A g \in Gases : (a[g] * n) % d = 0
    PROVE  /\ [g \in Gases |-> Scaled(a[g], <<n, d>>)] \in [Gases -> Nat]
           /\ HeatOf([g \in Gases |-> Scaled(a[g], <<n, d>>)]) = Scaled(HeatOf(a), <<n, d>>)
           /\ d * HeatOf([g \in Gases |-> Scaled(a[g], <<n, d>>)]) = n * HeatOf(a)
<1> DEFINE c == [g \in Gases |-> Scaled(a[g], <<n, d>>)]
           f == [g \in Gases |-> a[g] * Heat[g]]
           i == [g \in Gases |-> c[g] * Heat[g]]
<1>1. IsFiniteSet(Gases) /\ \A g \in Gases : Heat[g] \in Nat /\ a[g] \in Nat
  BY MixturesAssumption
<1>2. \A j, k \in Nat : j * k \in Nat
  OBVIOUS
<1>3. \A k \in Nat : /\ k \div d \in Nat
                    /\ k % d = 0 => d * (k \div d) = k
  OBVIOUS
<1>4. \A g \in Gases : c[g] \in Nat /\ d * c[g] = a[g] * n
  <2>1. \A g \in Gases : a[g] * n \in Nat /\ (a[g] * n) % d = 0
    BY <1>1, <1>2
  <2>2. \A g \in Gases : c[g] = (a[g] * n) \div d
    BY ScaledIs
  <2> HIDE DEF c
  <2> QED
    BY <1>3, <2>1, <2>2
<1>5. c \in [Gases -> Nat]
  BY <1>4
<1>6. HeatOf(a) = SumFunctionOnSet(f, Gases) /\ HeatOf(c) = SumFunctionOnSet(i, Gases)
  BY DEF HeatOf
<1>7. \A g \in Gases : f[g] \in Nat /\ i[g] \in Nat /\ d * i[g] = n * f[g]
  <2>1. ASSUME NEW g \in Gases PROVE f[g] \in Nat /\ i[g] \in Nat /\ d * i[g] = n * f[g]
    <3>1. \A j, k, l \in Nat : d * j = k * n => d * (j * l) = n * (k * l)
      <4>1. ASSUME NEW j \in Nat, NEW k \in Nat, NEW l \in Nat, d * j = k * n
            PROVE  d * (j * l) = n * (k * l)
        <5>1. d * (j * l) = (d * j) * l
          OBVIOUS
        <5>2. n * (k * l) = (k * n) * l
          OBVIOUS
        <5> QED
          BY <4>1, <5>1, <5>2
      <4> QED
        BY <4>1
    <3>2. f[g] = a[g] * Heat[g] /\ i[g] = c[g] * Heat[g]
      OBVIOUS
    <3> HIDE DEF c, f, i
    <3>3. c[g] \in Nat /\ a[g] \in Nat /\ Heat[g] \in Nat /\ d * c[g] = n * a[g]
      <4>1. a[g] * n = n * a[g]
        BY <1>1
      <4> QED
        BY <1>1, <1>4, <4>1
    <3>4. d * c[g] = a[g] * n
      BY <1>4
    <3>5. d * (c[g] * Heat[g]) = n * (a[g] * Heat[g])
      BY <3>1, <3>3, <3>4, Zenon
    <3> QED
      BY <1>2, <3>2, <3>3, <3>5
  <2> QED
    BY <2>1
<1> HIDE DEF f, i, c
<1>8. (\A g \in Gases : f[g] \in Int) /\ (\A g \in Gases : i[g] \in Int)
      /\ \A g \in Gases : d * i[g] = n * f[g]
  BY <1>7
<1>9. n \in Int /\ d \in Int
  OBVIOUS
<1>10. d * SumFunctionOnSet(i, Gases) = n * SumFunctionOnSet(f, Gases)
  BY <1>1, <1>8, <1>9, SumScaled
<1>11. d * HeatOf(c) = n * HeatOf(a)
  BY <1>6, <1>10
<1>12. HeatOf(a) \in Nat /\ HeatOf(c) \in Nat
  BY <1>5, HeatOfNat
<1>13. \A j, k \in Nat : d * j = k => k \div d = j
  OBVIOUS
<1>14. (HeatOf(a) * n) \div d = HeatOf(c)
  <2>1. HeatOf(a) * n = n * HeatOf(a) /\ HeatOf(a) * n \in Nat
    BY <1>2, <1>12
  <2> QED
    BY <1>11, <1>12, <1>13, <2>1
<1>15. Scaled(HeatOf(a), <<n, d>>) = (HeatOf(a) * n) \div d
  BY ScaledIs
<1> QED
  BY <1>5, <1>11, <1>14, <1>15 DEF c

-----------------------------------------------------------------------------
(***************************************************************************)
(* Every method leaves sound what was sound.                                *)
(***************************************************************************)
LEMMA SoundEmpty == Sound(Empty)
BY DEF Sound, Shaped, CacheRight, Empty

LEMMA SoundRead ==
    ASSUME NEW x, Sound(x)
    PROVE  /\ Sound(Read(x)) /\ Read(x).moles = x.moles /\ Read(x).nan = x.nan
           /\ Read(x).cached = HeatCapacity(x) /\ Read(x).immutable = x.immutable
<1> DEFINE c == HeatCapacity(x)
<1>1. Shaped(x, Nat) /\ CacheRight(x) /\ c \in Nat
      /\ (Minima \subseteq {0} /\ x.nan = {} => c = HeatOf(x.moles))
  BY CapacityIsHeatOf DEF Sound
<1>2. Read(x) = [x EXCEPT !.cached = c]
  BY DEF Read
<1> HIDE DEF c
<1>3. Shaped([x EXCEPT !.cached = c], Nat) /\ CacheRight([x EXCEPT !.cached = c])
  BY <1>1 DEF Shaped, CacheRight
<1>4. /\ [x EXCEPT !.cached = c].moles = x.moles /\ [x EXCEPT !.cached = c].nan = x.nan
      /\ [x EXCEPT !.cached = c].cached = c
      /\ [x EXCEPT !.cached = c].immutable = x.immutable
  BY <1>1 DEF Shaped
<1> QED
  BY <1>2, <1>3, <1>4 DEF Sound, c

LEMMA SoundTemperature ==
    ASSUME NEW x, Sound(x), NEW n, NEW d
    PROVE  Sound(SetTemperature(x, n, d))
<1>1. ASSUME NEW t PROVE Sound([x EXCEPT !.temp = t])
  BY DEF Sound, Shaped, CacheRight
<1> QED
  BY <1>1 DEF SetTemperature

LEMMA NatIsInt == ASSUME NEW x, Shaped(x, Nat) PROVE Shaped(x, Int)
BY DEF Shaped

LEMMA SoundShape ==
    ASSUME NEW x, Sound(x)
    PROVE  /\ Shaped(x, Nat) /\ Shaped(x, Int) /\ (Minima \subseteq {0} => x.min = 0)
           /\ x.moles \in [Gases -> Nat] /\ x.nan \in SUBSET Gases /\ x.immutable \in BOOLEAN
BY DEF Sound, Shaped, CacheRight

\* The shape of a mixture with other moles, in whole numbers or not less than zero.
LEMMA OtherMoles ==
    ASSUME NEW x, Shaped(x, Int), NEW a, NEW l \in SUBSET Gases
    PROVE  LET y == WithMoles(x, a, l) IN
           /\ y.moles = [g \in Gases |-> IF g \in l THEN 0 ELSE a[g]]
           /\ y.nan = l /\ y.temp = x.temp /\ y.min = x.min /\ y.cached = x.cached
           /\ y.immutable = x.immutable
           /\ a \in [Gases -> Int] => Shaped(y, Int)
           /\ a \in [Gases -> Nat] => Shaped(y, Nat)
           /\ a \in [Gases -> Nat] /\ l = {} => y.moles = a
<1> DEFINE b == [g \in Gases |-> IF g \in l THEN 0 ELSE a[g]]
           y == [x EXCEPT !.moles = b, !.nan = l]
<1>1. WithMoles(x, a, l) = y
  BY DEF WithMoles
<1>2. /\ a \in [Gases -> Int] => b \in [Gases -> Int]
      /\ a \in [Gases -> Nat] => b \in [Gases -> Nat]
      /\ a \in [Gases -> Nat] /\ l = {} => b = a
  OBVIOUS
<1>3. b = [g \in Gases |-> IF g \in l THEN 0 ELSE a[g]]
  OBVIOUS
<1> HIDE DEF b
<1>4. y = [moles |-> b, nan |-> l, temp |-> x.temp, min |-> x.min, cached |-> x.cached,
           immutable |-> x.immutable]
  <2> DEFINE z == [x EXCEPT !.moles = b]
  <2>1. z = [moles |-> b, nan |-> x.nan, temp |-> x.temp, min |-> x.min, cached |-> x.cached,
             immutable |-> x.immutable]
    BY DEF Shaped
  <2>2. y = [z EXCEPT !.nan = l]
    OBVIOUS
  <2> HIDE DEF z, y
  <2> QED
    BY <2>1, <2>2
<1> HIDE DEF y
<1>5. /\ y.moles = b /\ y.nan = l /\ y.temp = x.temp /\ y.min = x.min
      /\ y.cached = x.cached /\ y.immutable = x.immutable
  BY <1>4
<1>6. /\ b \in [Gases -> Int] => Shaped(y, Int)
      /\ b \in [Gases -> Nat] => Shaped(y, Nat)
  BY <1>4 DEF Shaped
<1> QED
  BY <1>1, <1>2, <1>3, <1>5, <1>6

LEMMA OtherShape ==
    ASSUME NEW x, Shaped(x, Int), NEW a \in [Gases -> Int], NEW l \in SUBSET Gases
    PROVE  Shaped(WithMoles(x, a, l), Int) /\ WithMoles(x, a, l).min = x.min
<1>1. Shaped(WithMoles(x, a, l), Int)
  BY OtherMoles, Zenon
<1>2. WithMoles(x, a, l).min = x.min
  BY DEF WithMoles, Shaped
<1> QED
  BY <1>1, <1>2

\* What is made of x without the heat capacity it kept.
LEMMA Invalidated ==
    ASSUME NEW M, NEW x, Shaped(x, M)
    PROVE  /\ Shaped(Invalidate(x), M) /\ Invalidate(x).moles = x.moles
           /\ Invalidate(x).nan = x.nan /\ Invalidate(x).temp = x.temp
           /\ Invalidate(x).min = x.min /\ Invalidate(x).cached = Unknown
           /\ Invalidate(x).immutable = x.immutable
BY DEF Shaped, Invalidate

LEMMA SoundInvalidated ==
    ASSUME NEW x, Shaped(x, Nat), Minima \subseteq {0} => x.min = 0
    PROVE  Sound(Invalidate(x))
BY Invalidated DEF Sound, CacheRight

LEMMA SoundMoles ==
    ASSUME NEW x, Shaped(x, Int), Minima \subseteq {0} => x.min = 0, NEW a \in [Gases -> Nat],
           NEW l \in SUBSET Gases
    PROVE  Sound(Invalidate(WithMoles(x, a, l)))
<1> DEFINE y == WithMoles(x, a, l)
<1>1. Shaped(y, Nat) /\ y.min = x.min
  BY OtherMoles
<1> HIDE DEF y
<1>2. Sound(Invalidate(y))
  BY <1>1, SoundInvalidated
<1> QED
  BY <1>2 DEF y

\* What is collected has no NaN.
LEMMA Collected ==
    ASSUME NEW x, Shaped(x, Int)
    PROVE  /\ Shaped(GarbageCollect(x), Nat)
           /\ GarbageCollect(x).moles = [g \in Gases |-> IF x.moles[g] > 0 THEN x.moles[g] ELSE 0]
           /\ GarbageCollect(x).nan = {} /\ GarbageCollect(x).temp = x.temp
           /\ GarbageCollect(x).min = x.min /\ GarbageCollect(x).cached = x.cached
           /\ GarbageCollect(x).immutable = x.immutable
<1> DEFINE b == [g \in Gases |-> IF x.moles[g] > 0 THEN x.moles[g] ELSE 0]
<1>1. x.moles \in [Gases -> Int]
  BY DEF Shaped
<1>2. b \in [Gases -> Nat]
  BY <1>1
<1>3. GarbageCollect(x) = WithMoles(x, b, {})
  BY DEF GarbageCollect
<1>4. b = [g \in Gases |-> IF x.moles[g] > 0 THEN x.moles[g] ELSE 0]
  OBVIOUS
<1> HIDE DEF b
<1> QED
  BY <1>2, <1>3, <1>4, OtherMoles

LEMMA SoundCollected ==
    ASSUME NEW x, Shaped(x, Int), Minima \subseteq {0} => x.min = 0
    PROVE  Sound(GarbageCollect(Invalidate(x))) /\ Sound(Invalidate(GarbageCollect(x)))
<1>1. Sound(Invalidate(GarbageCollect(x)))
  BY Collected, SoundInvalidated
<1>2. Shaped(Invalidate(x), Int) /\ Invalidate(x).min = x.min /\ Invalidate(x).cached = Unknown
  BY Invalidated
<1> DEFINE y == GarbageCollect(Invalidate(x))
<1>3. Shaped(y, Nat) /\ y.min = x.min /\ y.cached = Unknown
  BY <1>2, Collected
<1> HIDE DEF y
<1>4. Sound(y)
  BY <1>3 DEF Sound, CacheRight
<1> QED
  BY <1>1, <1>4 DEF y

\* What is added to the moles of a mixture.
LEMMA Added ==
    ASSUME NEW x, Sound(x), NEW a \in [Gases -> Int], NEW l \in SUBSET Gases
    PROVE  LET y == Plus(x, a, l) IN
           /\ Shaped(y, Int) /\ (a \in [Gases -> Nat] => Shaped(y, Nat))
           /\ y.nan = x.nan \cup l /\ y.temp = x.temp /\ y.min = x.min
           /\ y.cached = x.cached /\ y.immutable = x.immutable
           /\ \A g \in Gases : y.moles[g] = IF g \in x.nan \cup l THEN 0 ELSE x.moles[g] + a[g]
<1> DEFINE b == [g \in Gases |-> x.moles[g] + a[g]]
           y == WithMoles(x, b, x.nan \cup l)
<1>1. Plus(x, a, l) = y
  BY DEF Plus
<1>2. b \in [Gases -> Int] /\ (a \in [Gases -> Nat] => b \in [Gases -> Nat])
      /\ (\A g \in Gases : b[g] = x.moles[g] + a[g])
  BY SoundShape
<1>3. x.nan \cup l \in SUBSET Gases /\ Shaped(x, Int)
  BY SoundShape
<1> HIDE DEF b
<1>4. /\ y.moles = [g \in Gases |-> IF g \in x.nan \cup l THEN 0 ELSE b[g]]
      /\ y.nan = x.nan \cup l /\ y.temp = x.temp /\ y.min = x.min /\ y.cached = x.cached
      /\ y.immutable = x.immutable /\ Shaped(y, Int) /\ (b \in [Gases -> Nat] => Shaped(y, Nat))
  BY <1>2, <1>3, OtherMoles
<1> HIDE DEF y
<1>5. \A g \in Gases : y.moles[g] = IF g \in x.nan \cup l THEN 0 ELSE x.moles[g] + a[g]
  BY <1>2, <1>4
<1> QED
  BY <1>1, <1>2, <1>4, <1>5

\* The same of mixtures without NaN.
LEMMA AddedNumbers ==
    ASSUME NEW x, Sound(x), NEW a \in [Gases -> Nat], x.nan = {}
    PROVE  Plus(x, a, {}).moles = [g \in Gases |-> x.moles[g] + a[g]]
<1>1. x.moles \in [Gases -> Nat] /\ Shaped(x, Int)
  BY SoundShape
<1> DEFINE b == [g \in Gases |-> x.moles[g] + a[g]]
<1>2. b \in [Gases -> Nat] /\ {} \in SUBSET Gases
  BY <1>1
<1>3. Plus(x, a, {}) = WithMoles(x, b, {})
  BY DEF Plus
<1>4. WithMoles(x, b, {}).moles = b
  <2> HIDE DEF b
  <2> QED
    BY <1>1, <1>2, OtherMoles
<1> QED
  BY <1>3, <1>4

LEMMA SoundSetMoles ==
    ASSUME NEW x, Sound(x), NEW g \in Gases, NEW amt \in Nat
    PROVE  Sound(SetMoles(x, g, amt))
<1> DEFINE a == [x.moles EXCEPT ![g] = amt]
<1>1. a \in [Gases -> Nat] /\ x.nan \ {g} \in SUBSET Gases
  BY SoundShape
<1> HIDE DEF a
<1>2. Sound(Invalidate(WithMoles(x, a, x.nan \ {g})))
  BY <1>1, SoundShape, SoundMoles
<1> QED
  BY <1>2 DEF SetMoles, a

LEMMA SoundAdjustMoles ==
    ASSUME NEW x, Sound(x), NEW g \in Gases, NEW amt \in Int
    PROVE  Sound(AdjustMoles(x, g, amt))
<1> DEFINE y == Plus(x, Only(g, amt), {})
<1>1. Only(g, amt) \in [Gases -> Int] /\ (amt > 0 => Only(g, amt) \in [Gases -> Nat])
  BY DEF Only
<1>2. Shaped(y, Int) /\ (amt > 0 => Shaped(y, Nat)) /\ y.min = x.min
  <2>1. {} \in SUBSET Gases
    OBVIOUS
  <2> QED
    BY <1>1, <2>1, Added
<1>3. AdjustMoles(x, g, amt) = IF x.immutable \/ amt = 0 THEN x
                               ELSE Invalidate(IF amt > 0 THEN y ELSE GarbageCollect(y))
  BY DEF AdjustMoles
<1> HIDE DEF y
<1>4. (amt > 0 => Sound(Invalidate(y))) /\ Sound(Invalidate(GarbageCollect(y)))
  BY <1>2, SoundShape, SoundInvalidated, SoundCollected
<1> QED
  BY <1>3, <1>4

LEMMA SoundAdjustMulti ==
    ASSUME NEW x, Sound(x), NEW amts \in [Gases -> Int]
    PROVE  Sound(AdjustMulti(x, amts))
<1> DEFINE y == Plus(x, amts, {})
           up == \A g \in Gases : amts[g] >= 0
<1>1. Shaped(y, Int) /\ (amts \in [Gases -> Nat] => Shaped(y, Nat)) /\ y.min = x.min
  <2>1. {} \in SUBSET Gases
    OBVIOUS
  <2> QED
    BY <2>1, Added
<1>2. up => amts \in [Gases -> Nat]
  OBVIOUS
<1>3. AdjustMulti(x, amts) =
        IF x.immutable \/ \A g \in Gases : amts[g] = 0 THEN x
        ELSE Invalidate(IF up THEN y ELSE GarbageCollect(y))
  BY DEF AdjustMulti
<1> HIDE DEF y, up
<1>4. (up => Sound(Invalidate(y))) /\ Sound(Invalidate(GarbageCollect(y)))
  BY <1>1, <1>2, SoundShape, SoundInvalidated, SoundCollected
<1> QED
  BY <1>3, <1>4

LEMMA SoundClear ==
    ASSUME NEW x, Sound(x)
    PROVE  Sound(Clear(x))
<1>1. [g \in Gases |-> 0] \in [Gases -> Nat] /\ {} \in SUBSET Gases
  OBVIOUS
<1>2. Sound(Invalidate(WithMoles(x, [g \in Gases |-> 0], {})))
  BY <1>1, SoundShape, SoundMoles
<1> QED
  BY <1>2 DEF Clear

\* A ratio the hooks may come to.
Ratio == (Int \X (Nat \ {0})) \cup {NoNumber}

\* Multiply is also called on what copy_from_mutable made: it is enough that
\* the copy has the shape of a mixture, and sound if it is not to be changed.
LEMMA SoundMultiply ==
    ASSUME NEW x, Shaped(x, Nat), Minima \subseteq {0} => x.min = 0, x.immutable => Sound(x),
           NEW r \in Ratio
    PROVE  Sound(Multiply(x, r)) /\ (~x.immutable => Multiply(x, r).nan = {})
<1> DEFINE a == [g \in Gases |-> Scaled(x.moles[g], r)]
           y == WithMoles(x, a, x.nan)
<1>1. x.moles \in [Gases -> Nat] /\ x.nan \in SUBSET Gases /\ Shaped(x, Int)
  BY NatIsInt DEF Shaped
<1>2. ASSUME NEW i \in Nat PROVE Scaled(i, r) \in Int
  <2>1. CASE r = NoNumber
    BY <2>1 DEF Scaled
  <2>2. CASE r # NoNumber
    <3>1. r \in Int \X (Nat \ {0}) /\ i * r[1] \in Int /\ r[2] \in Nat \ {0}
      BY <2>2 DEF Ratio
    <3> QED
      BY <3>1, ScaledIs
  <2> QED
    BY <2>1, <2>2
<1>3. a \in [Gases -> Int]
  BY <1>1, <1>2
<1>4. Multiply(x, r) = IF x.immutable THEN x ELSE GarbageCollect(Invalidate(y))
  BY DEF Multiply
<1> HIDE DEF a
<1>5. Shaped(y, Int) /\ y.min = x.min
  BY <1>1, <1>3, OtherShape
<1> HIDE DEF y
<1>6. Sound(GarbageCollect(Invalidate(y))) /\ GarbageCollect(Invalidate(y)).nan = {}
  BY <1>5, SoundCollected, Invalidated, Collected
<1> QED
  BY <1>4, <1>6

LEMMA SoundAdd ==
    ASSUME NEW x, Sound(x), NEW hs, NEW amt \in Int
    PROVE  Sound(Add(x, hs, amt))
<1> DEFINE a == [g \in Gases |-> IF g \in hs THEN amt ELSE 0]
           y == Plus(x, a, {})
<1>1. a \in [Gases -> Int]
  OBVIOUS
<1>2. Add(x, hs, amt) = IF x.immutable THEN x ELSE GarbageCollect(Invalidate(y))
  BY DEF Add
<1> HIDE DEF a
<1>3. Shaped(y, Int) /\ y.min = x.min
  <2>1. {} \in SUBSET Gases
    OBVIOUS
  <2> QED
    BY <1>1, <2>1, Added
<1> HIDE DEF y
<1>4. Sound(GarbageCollect(Invalidate(y)))
  BY <1>3, SoundShape, SoundCollected
<1> QED
  BY <1>2, <1>4

\* What copy_from_mutable makes of a mixture that is not immutable.
LEMMA CopiedIs ==
    ASSUME NEW x, Shaped(x, Nat), NEW y
    PROVE  [x EXCEPT !.moles = y.moles, !.nan = y.nan, !.temp = y.temp, !.cached = y.cached]
             = [moles |-> y.moles, nan |-> y.nan, temp |-> y.temp, min |-> x.min,
                cached |-> y.cached, immutable |-> x.immutable]
<1> DEFINE z == [x EXCEPT !.moles = y.moles, !.nan = y.nan, !.temp = y.temp, !.cached = y.cached]
           u == [x EXCEPT !.moles = y.moles]
           v == [u EXCEPT !.nan = y.nan]
           w == [v EXCEPT !.temp = y.temp]
<1>1. u = [moles |-> y.moles, nan |-> x.nan, temp |-> x.temp, min |-> x.min,
           cached |-> x.cached, immutable |-> x.immutable]
  BY DEF Shaped
<1>2. z = [w EXCEPT !.cached = y.cached]
  OBVIOUS
<1> HIDE DEF u, z
<1>3. v = [moles |-> y.moles, nan |-> y.nan, temp |-> x.temp, min |-> x.min,
           cached |-> x.cached, immutable |-> x.immutable]
  BY <1>1
<1> HIDE DEF v
<1>4. w = [moles |-> y.moles, nan |-> y.nan, temp |-> y.temp, min |-> x.min,
           cached |-> x.cached, immutable |-> x.immutable]
  BY <1>3
<1> HIDE DEF w
<1>5. z = [moles |-> y.moles, nan |-> y.nan, temp |-> y.temp, min |-> x.min,
           cached |-> y.cached, immutable |-> x.immutable]
  BY <1>2, <1>4
<1> QED
  BY <1>5 DEF z

LEMMA SoundCopy ==
    ASSUME NEW x, Sound(x), NEW y, Sound(y)
    PROVE  Sound(CopyFromMutable(x, y))
<1> DEFINE z == [x EXCEPT !.moles = y.moles, !.nan = y.nan, !.temp = y.temp, !.cached = y.cached]
<1>1. z = [moles |-> y.moles, nan |-> y.nan, temp |-> y.temp, min |-> x.min,
           cached |-> y.cached, immutable |-> x.immutable]
  BY SoundShape, CopiedIs
<1> HIDE DEF z
<1>2. Sound(z)
  BY <1>1 DEF Sound, Shaped, CacheRight
<1> QED
  BY <1>2 DEF CopyFromMutable, z

\* merge and share_ratio: the sum of the moles is what the kept sum of the heat
\* capacities is for.
LEMMA SoundMerged ==
    ASSUME NEW y, Shaped(y, Nat), Minima \subseteq {0} => y.min = 0, NEW n, NEW d,
           NEW h \in Nat, Minima \subseteq {0} /\ y.nan = {} => h = HeatOf(y.moles)
    PROVE  Sound([SetTemperature(y, n, d) EXCEPT !.cached = h])
<1> DEFINE z == SetTemperature(y, n, d)
<1>1. ASSUME NEW t PROVE LET w == [y EXCEPT !.temp = t] IN
                         /\ Shaped(w, Nat) /\ w.moles = y.moles /\ w.nan = y.nan /\ w.min = y.min
  BY DEF Shaped
<1>2. Shaped(z, Nat) /\ z.moles = y.moles /\ z.nan = y.nan /\ z.min = y.min
  <2>1. z = y \/ z = [y EXCEPT !.temp = Quotient(n, d)]
    BY DEF SetTemperature
  <2> HIDE DEF z
  <2> QED
    BY <1>1, <2>1
<1> HIDE DEF z
<1> DEFINE w == [z EXCEPT !.cached = h]
<1>3. Shaped(w, Nat) /\ w.moles = y.moles /\ w.nan = y.nan /\ w.min = y.min /\ w.cached = h
  BY <1>2 DEF Shaped
<1> HIDE DEF w
<1>4. Sound(w)
  BY <1>3 DEF Sound, CacheRight
<1> QED
  BY <1>4 DEF w, z

LEMMA SoundMerge ==
    ASSUME NEW x, Sound(x), NEW y, Sound(y)
    PROVE  Sound(Merge(x, y)) /\ Sound(Given(x, y))
<1> DEFINE c == HeatCapacity(x)
           e == HeatCapacity(y)
           h == c + e
           n == Energy(x) + Energy(y)
           w == Plus(x, y.moles, y.nan)
<1>1. x.moles \in [Gases -> Nat] /\ y.moles \in [Gases -> Nat] /\ y.moles \in [Gases -> Int]
      /\ x.nan \in SUBSET Gases /\ y.nan \in SUBSET Gases /\ (Minima \subseteq {0} => x.min = 0)
  BY SoundShape
<1>2. c \in Nat /\ e \in Nat
      /\ (Minima \subseteq {0} /\ x.nan = {} => c = HeatOf(x.moles))
      /\ (Minima \subseteq {0} /\ y.nan = {} => e = HeatOf(y.moles))
  BY CapacityIsHeatOf
<1>3. Merge(x, y) = IF x.immutable THEN x ELSE [SetTemperature(w, n, h) EXCEPT !.cached = h]
  BY DEF Merge
<1>4. Shaped(w, Nat) /\ w.nan = x.nan \cup y.nan /\ w.min = x.min
  BY <1>1, Added
<1>5. ASSUME x.nan = {}, y.nan = {}
      PROVE  w.moles = [g \in Gases |-> x.moles[g] + y.moles[g]]
  <2>1. w = Plus(x, y.moles, {})
    BY <1>5
  <2> HIDE DEF w
  <2> QED
    BY <1>1, <1>5, <2>1, AddedNumbers
<1> HIDE DEF c, e, w
<1>6. h \in Nat
  BY <1>2
<1>7. ASSUME Minima \subseteq {0}, w.nan = {}
      PROVE  h = HeatOf(w.moles)
  <2>1. x.nan = {} /\ y.nan = {}
    BY <1>4, <1>7
  <2>2. h = HeatOf(x.moles) + HeatOf(y.moles)
    BY <1>2, <1>7, <2>1
  <2> QED
    BY <1>1, <1>5, <2>1, <2>2, HeatOfPlus
<1> HIDE DEF h, n
<1>8. Sound([SetTemperature(w, n, h) EXCEPT !.cached = h])
  BY <1>1, <1>4, <1>6, <1>7, SoundMerged
<1>9. Sound(Given(x, y))
  BY SoundRead DEF Given
<1> QED
  BY <1>3, <1>8, <1>9

\* A clamped ratio is one between zero and one.
LEMMA Clamped ==
    ASSUME NEW r \in Int \X (Nat \ {0})
    PROVE  /\ Clamp(r) \in Int \X (Nat \ {0}) /\ Clamp(r)[1] \in 0..Clamp(r)[2]
           /\ Rest(Clamp(r)) \in Int \X (Nat \ {0})
BY DEF Clamp, Rest

LEMMA ClampedRatio ==
    ASSUME NEW r \in Ratio
    PROVE  /\ Clamp(r) \in Ratio /\ Rest(Clamp(r)) \in Ratio
           /\ Clamp(r) # NoNumber => Clamp(r)[1] \in 0..Clamp(r)[2]
<1>1. CASE r = NoNumber
  BY <1>1 DEF Clamp, Rest, NoNumber, Ratio
<1>2. CASE r \in Int \X (Nat \ {0})
  BY <1>2, Clamped DEF Ratio
<1> QED
  BY <1>1, <1>2 DEF Ratio

LEMMA ScaledWithin ==
    ASSUME NEW r \in Int \X (Nat \ {0}), r[1] \in 0..r[2], NEW i \in Nat
    PROVE  Scaled(i, r) \in 0..i
<1> DEFINE n == r[1]
           d == r[2]
<1>1. n \in Nat /\ d \in Nat \ {0} /\ n <= d
  OBVIOUS
<1>2. Scaled(i, r) = (i * n) \div d
  BY ScaledIs
<1> HIDE DEF n, d
<1>3. i * n \in Nat /\ i * n <= i * d
  BY <1>1
<1>4. \A j \in Nat : (j \div d) \in Nat /\ d * (j \div d) <= j
  BY <1>1
<1>5. \A j \in Nat : d * j <= i * d => j <= i
  BY <1>1
<1> QED
  <2> DEFINE j == (i * n) \div d
  <2>1. j \in Nat /\ d * j <= i * n
    BY <1>3, <1>4
  <2>2. d * j \in Nat /\ i * d \in Nat
    BY <1>1, <2>1
  <2> HIDE DEF j
  <2>3. d * j <= i * d
    BY <1>3, <2>1, <2>2
  <2>4. j <= i
    BY <1>5, <2>1, <2>3
  <2> QED
    BY <1>2, <2>1, <2>4 DEF j

LEMMA SoundRemove ==
    ASSUME NEW x, Sound(x), NEW y, Sound(y), NEW r \in Ratio
    PROVE  Sound(RemoveRatioInto(x, y, r)[1]) /\ Sound(RemoveRatioInto(x, y, r)[2])
<1> DEFINE c == Clamp(r)
           i == CopyFromMutable(y, x)
<1>1. c \in Ratio /\ Rest(c) \in Ratio
  BY ClampedRatio
<1>2. Sound(i)
  BY SoundCopy
<1>3. RemoveRatioInto(x, y, r) = IF r # NoNumber /\ r[1] <= 0 THEN <<x, y>>
                                 ELSE <<Multiply(x, Rest(c)), Multiply(i, c)>>
  BY DEF RemoveRatioInto
<1> HIDE DEF c, i
<1>4. ASSUME NEW z, Sound(z), NEW s \in Ratio PROVE Sound(Multiply(z, s))
  <2>1. Shaped(z, Nat) /\ (Minima \subseteq {0} => z.min = 0)
    BY <1>4 DEF Sound, CacheRight
  <2> QED
    BY <1>4, <2>1, SoundMultiply
<1>5. Sound(Multiply(x, Rest(c))) /\ Sound(Multiply(i, c))
  BY <1>1, <1>2, <1>4
<1> QED
  BY <1>3, <1>5

LEMMA SoundTransferRatio ==
    ASSUME NEW x, Sound(x), NEW y, Sound(y), NEW r \in Ratio
    PROVE  Sound(TransferRatio(x, y, r)[1]) /\ Sound(TransferRatio(x, y, r)[2])
<1> DEFINE s == RemoveRatioInto(x, Empty, r)
<1>1. Sound(s[1]) /\ Sound(s[2])
  BY SoundEmpty, SoundRemove
<1>2. TransferRatio(x, y, r) = <<s[1], Merge(y, s[2])>>
  BY DEF TransferRatio, RemoveRatio
<1> HIDE DEF s
<1>3. Sound(Merge(y, s[2]))
  BY <1>1, SoundMerge
<1> QED
  BY <1>1, <1>2, <1>3

\* No more is taken than there is: the ratio is clamped, or NaN.
LEMMA SoundTransferGases ==
    ASSUME NEW x, Sound(x), NEW y, Sound(y), NEW r \in Ratio, NEW gs \in SUBSET Gases
    PROVE  /\ Sound(TransferGasesTo(x, y, r, gs)[1])
           /\ Sound(TransferGasesTo(x, y, r, gs)[2])
<1> DEFINE c     == Clamp(r)
           lost  == IF c = NoNumber THEN gs ELSE gs \cap x.nan
           delta == [g \in Gases |-> IF g \in gs THEN Scaled(x.moles[g], c) ELSE 0]
           a     == [g \in Gases |-> 0 - delta[g]]
           taken == Plus(x, a, lost)
           given == IF y.immutable THEN y ELSE Plus(y, delta, {})
           z     == Read(Invalidate(given))
           n     == Energy(y) + HeatOf(delta) * x.temp
<1>1. TransferGasesTo(x, y, r, gs)
        = <<Invalidate(taken),
            IF lost # {} THEN z ELSE SetTemperature(z, n, HeatCapacity(z))>>
  BY DEF TransferGasesTo
<1>2. /\ x.moles \in [Gases -> Nat] /\ Shaped(y, Nat) /\ lost \in SUBSET Gases
      /\ (Minima \subseteq {0} => x.min = 0) /\ (Minima \subseteq {0} => y.min = 0)
  BY SoundShape
<1>3. \A g \in Gases : x.moles[g] \in Nat /\ delta[g] \in 0..x.moles[g]
  <2>1. c \in Ratio /\ (c # NoNumber => c[1] \in 0..c[2])
    BY ClampedRatio
  <2> HIDE DEF c
  <2>2. ASSUME NEW i \in Nat PROVE Scaled(i, c) \in 0..i
    <3>1. CASE c = NoNumber
      BY <3>1 DEF Scaled
    <3>2. CASE c # NoNumber
      BY <2>1, <3>2, ScaledWithin DEF Ratio
    <3> QED
      BY <3>1, <3>2
  <2> QED
    BY <1>2, <2>2
<1> HIDE DEF delta, lost
<1>4. delta \in [Gases -> Nat] /\ delta \in [Gases -> Int]
  <2>1. DOMAIN delta = Gases /\ delta = [g \in Gases |-> delta[g]]
    BY DEF delta
  <2>2. \A g \in Gases : delta[g] \in Nat
    BY <1>3
  <2> QED
    BY <2>1, <2>2
<1>5. a \in [Gases -> Int] /\ \A g \in Gases : a[g] = 0 - delta[g]
  BY <1>4
<1> HIDE DEF a
<1>6. Shaped(taken, Nat) /\ taken.min = x.min
  <2>1. /\ Shaped(taken, Int) /\ taken.min = x.min
        /\ \A g \in Gases : taken.moles[g]
                              = IF g \in x.nan \cup lost THEN 0 ELSE x.moles[g] + a[g]
    BY <1>2, <1>5, Added
  <2> HIDE DEF taken
  <2>2. \A g \in Gases : taken.moles[g] \in Nat
    BY <1>3, <1>5, <2>1
  <2> QED
    BY <2>1, <2>2 DEF Shaped
<1>7. Sound(Invalidate(taken))
  <2> HIDE DEF taken
  <2> QED
    BY <1>2, <1>6, SoundInvalidated
<1>8. Sound(z)
  <2>1. Shaped(Plus(y, delta, {}), Nat) /\ Plus(y, delta, {}).min = y.min
    BY <1>4, Added
  <2>2. Shaped(given, Nat) /\ (Minima \subseteq {0} => given.min = 0)
    BY <1>2, <2>1
  <2> HIDE DEF given
  <2>3. Sound(Invalidate(given))
    BY <2>2, SoundInvalidated
  <2> QED
    BY <2>3, SoundRead
<1> HIDE DEF z, taken, n
<1>9. Sound(SetTemperature(z, n, HeatCapacity(z)))
  BY <1>8, SoundTemperature
<1> QED
  BY <1>1, <1>7, <1>8, <1>9

\* If a ratio splits no mole, it does not when it is clamped.
LEMMA WholeClamped ==
    ASSUME NEW y, y.moles \in [Gases -> Nat], NEW r \in Int \X (Nat \ {0}), Whole(y, r)
    PROVE  \A g \in Gases : (y.moles[g] * Clamp(r)[1]) % Clamp(r)[2] = 0
<1> DEFINE c == Clamp(r)
<1> SUFFICES ASSUME NEW g \in Gases PROVE (y.moles[g] * c[1]) % c[2] = 0
  OBVIOUS
<1>1. y.moles[g] \in Nat /\ (y.moles[g] * r[1]) % r[2] = 0
  BY ScaledIs DEF Whole
<1>2. ASSUME NEW i \in Nat, NEW d \in Nat \ {0}
      PROVE  (i * 0) % d = 0 /\ (i * d) % d = 0
  <2>1. i * 0 = 0 /\ i * d = d * i /\ i * d \in Nat
    OBVIOUS
  <2>2. \A j \in Nat, k \in Nat : j = d * k => j % d = 0
    OBVIOUS
  <2>3. 0 = d * 0
    OBVIOUS
  <2> QED
    BY <2>1, <2>2, <2>3
<1>3. c = r \/ c = <<0, r[2]>> \/ c = <<r[2], r[2]>>
  BY DEF Clamp
<1>4. r[2] \in Nat \ {0}
  OBVIOUS
<1> HIDE DEF c
<1> QED
  BY <1>1, <1>2, <1>3, <1>4

\* The share of the giver has its share of the heat capacity: no mole of the
\* giver is split.
LEMMA SoundShare ==
    ASSUME NEW x, Sound(x), NEW y, Sound(y), NEW r \in Int \X (Nat \ {0}), Whole(y, r)
    PROVE  Sound(ShareRatio(x, y, r))
<1> DEFINE c    == Clamp(r)
           kept == Multiply(x, Rest(c))
           part == [g \in Gases |-> Scaled(y.moles[g], c)]
           w    == Plus(kept, part, y.nan)
           e    == Scaled(HeatCapacity(y), c)
           h    == HeatCapacity(kept) + e
           n    == Energy(kept) + e * y.temp
<1>1. ShareRatio(x, y, r)
        = IF x.immutable THEN x
          ELSE [SetTemperature(w, n, h) EXCEPT !.cached = h]
  BY DEF ShareRatio
<1>2. /\ c[1] \in Nat /\ c[2] \in Nat \ {0} /\ c[1] <= c[2] /\ c = <<c[1], c[2]>>
      /\ Rest(c) \in Int \X (Nat \ {0})
  <2>1. c \in Int \X (Nat \ {0}) /\ c[1] \in 0..c[2] /\ Rest(c) \in Int \X (Nat \ {0})
    BY Clamped
  <2> HIDE DEF c
  <2> QED
    BY <2>1
<1>3. Sound(kept)
  <2>1. Shaped(x, Nat) /\ (Minima \subseteq {0} => x.min = 0)
    BY DEF Sound, CacheRight
  <2>2. Rest(c) \in Ratio
    BY <1>2 DEF Ratio
  <2> HIDE DEF c
  <2> QED
    BY <2>1, <2>2, SoundMultiply
<1>4. y.moles \in [Gases -> Nat] /\ kept.moles \in [Gases -> Nat] /\ y.nan \in SUBSET Gases
      /\ (Minima \subseteq {0} => kept.min = 0)
  BY <1>3, SoundShape
<1>5. \A g \in Gases : (y.moles[g] * c[1]) % c[2] = 0
  BY <1>4, WholeClamped
<1>6. part \in [Gases -> Nat] /\ HeatOf(part) = Scaled(HeatOf(y.moles), c)
  <2> DEFINE k == c[1]
             l == c[2]
             a == y.moles
  <2>1. k \in Nat /\ l \in Nat \ {0} /\ c = <<k, l>> /\ a \in [Gases -> Nat]
        /\ \A g \in Gases : (a[g] * k) % l = 0
    BY <1>2, <1>4, <1>5
  <2>2. part = [g \in Gases |-> Scaled(a[g], c)]
    OBVIOUS
  <2> HIDE DEF c, k, l, a, part
  <2>3. /\ [g \in Gases |-> Scaled(a[g], <<k, l>>)] \in [Gases -> Nat]
        /\ HeatOf([g \in Gases |-> Scaled(a[g], <<k, l>>)]) = Scaled(HeatOf(a), <<k, l>>)
    BY <2>1, HeatOfScaled
  <2> QED
    BY <2>1, <2>2, <2>3 DEF a
<1>7. HeatCapacity(y) \in Nat /\ HeatCapacity(kept) \in Nat
      /\ (Minima \subseteq {0} /\ y.nan = {} => HeatCapacity(y) = HeatOf(y.moles))
      /\ (Minima \subseteq {0} /\ kept.nan = {} => HeatCapacity(kept) = HeatOf(kept.moles))
  BY <1>3, CapacityIsHeatOf
<1> HIDE DEF kept, part
<1>8. e \in Nat
  <2>1. c \in Int \X (Nat \ {0}) /\ c[1] \in 0..c[2]
    BY Clamped
  <2> HIDE DEF c
  <2> QED
    BY <1>7, <2>1, ScaledWithin
<1>9. Shaped(w, Nat) /\ w.nan = kept.nan \cup y.nan /\ w.min = kept.min
  <2>1. part \in [Gases -> Int]
    BY <1>6
  <2> QED
    BY <1>3, <1>4, <1>6, <2>1, Added
<1>10. ASSUME Minima \subseteq {0}, w.nan = {}
       PROVE  h = HeatOf(w.moles)
  <2>1. kept.nan = {} /\ y.nan = {}
    BY <1>9, <1>10
  <2>2. w = Plus(kept, part, {})
    BY <2>1
  <2> HIDE DEF w
  <2>3. w.moles = [g \in Gases |-> kept.moles[g] + part[g]]
    BY <1>3, <1>6, <2>1, <2>2, AddedNumbers
  <2>4. HeatOf(w.moles) = HeatOf(kept.moles) + HeatOf(part)
    BY <1>4, <1>6, <2>3, HeatOfPlus
  <2>5. HeatOf(part) = e /\ HeatOf(kept.moles) = HeatCapacity(kept)
    BY <1>6, <1>7, <1>10, <2>1
  <2> HIDE DEF e
  <2> QED
    BY <2>4, <2>5
<1>11. h \in Nat
  <2> HIDE DEF e
  <2> QED
    BY <1>7, <1>8
<1> HIDE DEF w, h, n
<1>12. Sound([SetTemperature(w, n, h) EXCEPT !.cached = h])
  BY <1>4, <1>9, <1>10, <1>11, SoundMerged
<1> QED
  BY <1>1, <1>12

LEMMA SoundHeat ==
    ASSUME NEW x, Sound(x), NEW heat
    PROVE  Sound(AdjustHeat(x, heat))
<1>1. Sound(Read(x))
  BY SoundRead
<1> QED
  BY <1>1, SoundTemperature DEF AdjustHeat

LEMMA SoundConducted ==
    ASSUME NEW x, Sound(x), NEW k, NEW temp, NEW cap
    PROVE  Sound(Conducted(x, k, temp, cap))
<1>1. ASSUME NEW t PROVE Sound([x EXCEPT !.temp = t])
  BY DEF Sound, Shaped, CacheRight
<1> QED
  BY <1>1 DEF Conducted

LEMMA SoundTemperatureShare ==
    ASSUME NEW x, Sound(x), NEW y, Sound(y), NEW k
    PROVE  Sound(TemperatureShare(x, y, k)[1]) /\ Sound(TemperatureShare(x, y, k)[2])
<1>1. Sound(Read(x)) /\ Sound(Read(y))
  BY SoundRead
<1>2. /\ Sound(Conducted(Read(x), k, y.temp, HeatCapacity(y)))
      /\ Sound(Conducted(Read(y), k, x.temp, HeatCapacity(x)))
  BY <1>1, SoundConducted
<1> QED
  BY <1>1, <1>2 DEF TemperatureShare

LEMMA SoundShareNonGas ==
    ASSUME NEW x, Sound(x), NEW k, NEW temp, NEW cap
    PROVE  Sound(TemperatureShareNonGas(x, k, temp, cap))
<1>1. Sound(Read(x))
  BY SoundRead
<1>2. Sound(Conducted(Read(x), k, temp, cap))
  BY <1>1, SoundConducted
<1> QED
  BY <1>1, <1>2 DEF TemperatureShareNonGas

-----------------------------------------------------------------------------
(***************************************************************************)
(* equalize_all_hook, the hooks of one mixture, and those of two.           *)
(***************************************************************************)
LEMMA TotalVolume ==
    ASSUME NEW S \in SUBSET Mixes, S # {}
    PROVE  SumFunctionOnSet(Volume, S) \in Nat \ {0}
<1>1. PICK m \in S : TRUE
  OBVIOUS
<1>2. IsFiniteSet(S) /\ IsFiniteSet(S \ {m}) /\ \A k \in S : Volume[k] \in Nat \ {0}
  BY MixturesAssumption, FS_Subset
<1>3. (\A k \in S : Volume[k] \in Int) /\ \A k \in S \ {m} : Volume[k] \in Nat
  BY <1>2
<1>4. SumFunctionOnSet(Volume, S) = Volume[m] + SumFunctionOnSet(Volume, S \ {m})
  BY <1>2, <1>3, SumRemove
<1>5. SumFunctionOnSet(Volume, S \ {m}) \in Nat
  BY <1>2, <1>3, SumOfNat
<1> QED
  BY <1>2, <1>4, <1>5

LEMMA TogetherShaped ==
    ASSUME Inv, NEW S \in SUBSET Mixes
    PROVE  Shaped(Together(S), Nat) /\ Together(S).nan = UNION {mix[m].nan : m \in S}
<1> DEFINE a(g) == [m \in S |-> mix[m].moles[g]]
           c    == [m \in S |-> HeatCapacity(mix[m])]
           i    == [g \in Gases |-> SumFunction(a(g))]
           j    == SumFunction(c)
           e    == SumFunction([m \in S |-> Energy(mix[m])])
           l    == UNION {mix[m].nan : m \in S}
           y    == WithMoles(Empty, i, l)
           x    == [y EXCEPT !.cached = j]
<1>1. IsFiniteSet(S)
  BY MixturesAssumption, FS_Subset
<1>2. \A m \in S : Sound(mix[m])
  BY DEF Inv
<1>3. ASSUME NEW g \in Gases PROVE SumFunction(a(g)) \in Nat
  <2>1. \A m \in S : a(g)[m] \in Nat
    BY <1>2, SoundShape
  <2>2. SumFunction(a(g)) = SumFunctionOnSet(a(g), S)
    BY DEF SumFunction
  <2> HIDE DEF a
  <2> QED
    BY <1>1, <2>1, <2>2, SumOfNat
<1>4. j \in Nat
  <2>1. \A m \in S : c[m] \in Nat
    BY <1>2, CapacityIsHeatOf
  <2>2. j = SumFunctionOnSet(c, S)
    BY DEF SumFunction
  <2> HIDE DEF c, j
  <2> QED
    BY <1>1, <2>1, <2>2, SumOfNat
<1>5. i \in [Gases -> Nat] /\ l \in SUBSET Gases
  <2>1. \A m \in S : mix[m].nan \in SUBSET Gases
    BY <1>2, SoundShape
  <2> QED
    BY <1>3, <2>1
<1>6. Together(S) = SetTemperature(x, e, j)
  BY DEF Together
<1> HIDE DEF a, c, i, j, e, l
<1>7. Shaped(x, Nat) /\ x.nan = l
  <2>1. Shaped(Empty, Int)
    BY SoundEmpty, SoundShape
  <2>2. Shaped(y, Nat)
    BY <1>5, <2>1, OtherMoles
  <2>3. y.nan = l
    <3> DEFINE o == Empty
    <3>1. Shaped(o, Int)
      BY <2>1
    <3> HIDE DEF o
    <3>2. WithMoles(o, i, l).nan = l
      BY <3>1 DEF WithMoles, Shaped
    <3> QED
      BY <3>2 DEF o
  <2> HIDE DEF y
  <2> QED
    BY <1>4, <2>2, <2>3 DEF Shaped
<1> HIDE DEF x
<1>8. ASSUME NEW t PROVE Shaped([x EXCEPT !.temp = t], Nat) /\ [x EXCEPT !.temp = t].nan = l
  BY <1>7 DEF Shaped
<1> QED
  BY <1>6, <1>7, <1>8 DEF SetTemperature, l

LEMMA SoundEqualized ==
    ASSUME Inv, NEW S \in SUBSET Mixes, NEW m \in S
    PROVE  Sound(Equalized(S)[m])
<1> DEFINE x == Read(mix[m])
           y == CopyFromMutable(x, Together(S))
           r == Portion(m, S)
<1>1. Equalized(S)[m] = Multiply(y, r)
  BY DEF Equalized
<1>2. Sound(x)
  BY SoundRead DEF Inv
<1>3. r \in Ratio
  BY TotalVolume, MixturesAssumption DEF Portion, Ratio
<1> DEFINE z == Together(S)
<1>4. Shaped(z, Nat)
  BY TogetherShaped
<1> HIDE DEF x, z, r
<1>5. Shaped(y, Nat) /\ (Minima \subseteq {0} => y.min = 0) /\ (y.immutable => y = x)
  <2>1. Shaped(x, Nat) /\ (Minima \subseteq {0} => x.min = 0)
    BY <1>2 DEF Sound, CacheRight
  <2>2. y = IF x.immutable THEN x
            ELSE [moles |-> z.moles, nan |-> z.nan, temp |-> z.temp, min |-> x.min,
                  cached |-> z.cached, immutable |-> x.immutable]
    BY <2>1, CopiedIs DEF CopyFromMutable, z
  <2> HIDE DEF y
  <2> QED
    BY <1>4, <2>1, <2>2 DEF Shaped
<1> HIDE DEF y
<1>6. Sound(Multiply(y, r))
  BY <1>2, <1>3, <1>5, SoundMultiply
<1> QED
  BY <1>1, <1>6 DEF y, r, z

LEMMA OneChanged ==
    ASSUME Inv, NEW a \in Mixes, NEW x, Sound(x), Change(a, x)
    PROVE  Inv'
BY DEF Inv, Change

LEMMA TwoChanged ==
    ASSUME Inv, NEW a \in Mixes, NEW b \in Mixes, NEW x, Sound(x[1]), Sound(x[2]),
           ChangeBoth(a, b, x)
    PROVE  Inv'
<1> DEFINE f == [m \in Mixes |-> IF m = a THEN x[1] ELSE IF m = b THEN x[2] ELSE mix[m]]
<1>1. mix' = f
  BY DEF ChangeBoth
<1>2. \A m \in Mixes : Sound(f[m])
  BY DEF Inv
<1>3. f = [m \in Mixes |-> f[m]]
  OBVIOUS
<1> HIDE DEF f
<1> QED
  BY <1>1, <1>2, <1>3 DEF Inv

LEMMA SingleKeeps ==
    ASSUME Inv, NEW a \in Mixes, Single(a)
    PROVE  Inv'
<1> DEFINE x == mix[a]
<1>1. Sound(x) /\ Shaped(x, Nat) /\ (Minima \subseteq {0} => x.min = 0)
  BY DEF Inv, Sound, CacheRight
<1> HIDE DEF x
<1>2. Amounts \subseteq Int /\ Ratios \subseteq Ratio /\ Minima \subseteq Nat
  BY MixturesAssumption DEF Ratio
<1>3. ASSUME NEW g \in Gases, NEW amt \in Amounts, SetMolesHook(a, g, amt) PROVE Inv'
  <2>1. Sound(SetMoles(x, g, amt)) /\ Change(a, SetMoles(x, g, amt))
    BY <1>1, <1>2, <1>3, SoundSetMoles DEF SetMolesHook, x
  <2> QED
    BY <2>1, OneChanged
<1>4. ASSUME NEW g \in Gases, NEW amt \in Amounts, AdjustMolesHook(a, g, amt) PROVE Inv'
  <2>1. Sound(AdjustMoles(x, g, amt)) /\ Change(a, AdjustMoles(x, g, amt))
    BY <1>1, <1>2, <1>4, SoundAdjustMoles DEF AdjustMolesHook, x
  <2> QED
    BY <2>1, OneChanged
<1>5. ASSUME NEW g \in Gases, NEW amt \in Amounts, NEW temp \in Temps,
             AdjustMolesTempHook(a, g, amt, temp)
      PROVE  Inv'
  <2> DEFINE y == SetTemperature(SetMoles(Empty, g, amt), temp, 1)
  <2>1. amt \in Nat
    BY <1>2, <1>5 DEF AdjustMolesTempHook
  <2>2. Sound(SetMoles(Empty, g, amt))
    BY <2>1, SoundEmpty, SoundSetMoles
  <2>3. Sound(y)
    BY <2>2, SoundTemperature
  <2>4. Change(a, Merge(x, y))
    BY <1>5 DEF AdjustMolesTempHook, x
  <2> HIDE DEF y
  <2>5. Sound(Merge(x, y))
    BY <1>1, <2>3, SoundMerge
  <2> QED
    BY <2>4, <2>5, OneChanged
<1>6. ASSUME NEW amts \in [Gases -> Amounts], AdjustMultiHook(a, amts) PROVE Inv'
  <2>1. amts \in [Gases -> Int]
    BY <1>2
  <2>2. Sound(AdjustMulti(x, amts))
    BY <1>1, <2>1, SoundAdjustMulti
  <2>3. Change(a, AdjustMulti(x, amts))
    BY <1>6 DEF AdjustMultiHook, x
  <2> QED
    BY <2>2, <2>3, OneChanged
<1>7. ASSUME NEW amts \in [Gases -> Amounts], ParseHook(a, amts) PROVE Inv'
  <2>1. amts \in [Gases -> Nat]
    <3>1. \A g \in Gases : amts[g] >= 0
      BY <1>7 DEF ParseHook
    <3>2. amts \in [Gases -> Int]
      BY <1>2
    <3>3. \A g \in Gases : amts[g] \in Nat
      BY <3>1, <3>2
    <3> QED
      BY <3>2, <3>3
  <2>2. Sound(Invalidate(WithMoles(x, amts, {})))
    <3>1. {} \in SUBSET Gases
      OBVIOUS
    <3> QED
      BY <1>1, <2>1, <3>1, NatIsInt, SoundMoles
  <2> DEFINE y == IF x.immutable THEN x ELSE Invalidate(WithMoles(x, amts, {}))
  <2>3. Change(a, y)
    BY <1>7 DEF ParseHook, x
  <2>4. Sound(y)
    BY <1>1, <2>2
  <2> HIDE DEF y
  <2> QED
    BY <2>3, <2>4, OneChanged
<1>8. ASSUME NEW amts \in [Gases -> Amounts], NEW temp \in Temps, ParseTempHook(a, amts, temp)
      PROVE  Inv'
  <2> DEFINE t == IF temp < TCMB THEN TCMB ELSE temp
             z == WithMoles(x, amts, {})
             y == IF x.immutable THEN x ELSE Invalidate([z EXCEPT !.temp = t])
  <2>1. amts \in [Gases -> Nat]
    BY <1>2, <1>8 DEF ParseTempHook
  <2>2. Change(a, y)
    BY <1>8 DEF ParseTempHook, x
  <2> HIDE DEF t
  <2>3. Sound(Invalidate([z EXCEPT !.temp = t]))
    <3>1. Shaped(x, Int) /\ {} \in SUBSET Gases
      BY <1>1, NatIsInt
    <3>2. Shaped(z, Nat) /\ z.min = x.min
      BY <2>1, <3>1, OtherMoles
    <3> HIDE DEF z
    <3>3. Shaped([z EXCEPT !.temp = t], Nat) /\ [z EXCEPT !.temp = t].min = x.min
      BY <3>2 DEF Shaped
    <3> QED
      BY <1>1, <3>3, SoundInvalidated
  <2>4. Sound(y)
    BY <1>1, <2>3
  <2> HIDE DEF y
  <2> QED
    BY <2>2, <2>4, OneChanged
<1>9. ASSUME NEW temp \in Temps, SetTemperatureHook(a, temp) PROVE Inv'
  <2> DEFINE t == IF temp < TCMB THEN TCMB ELSE temp
  <2>1. Change(a, SetTemperature(x, t, 1))
    BY <1>9 DEF SetTemperatureHook, x
  <2> HIDE DEF t
  <2>2. Sound(SetTemperature(x, t, 1))
    BY <1>1, SoundTemperature
  <2> QED
    BY <2>1, <2>2, OneChanged
<1>10. ASSUME NEW temp \in Temps, NEW k \in Coefficients, NEW cap \in Range(Heat),
              TemperatureShareHook4(a, k, temp, cap)
       PROVE  Inv'
  <2>1. Change(a, TemperatureShareNonGas(x, k, temp, cap))
    BY <1>10 DEF TemperatureShareHook4, x
  <2>2. Sound(TemperatureShareNonGas(x, k, temp, cap))
    BY <1>1, SoundShareNonGas
  <2> QED
    BY <2>1, <2>2, OneChanged
<1>11. ASSUME NEW heat \in Heats, AdjustHeatHook(a, heat) PROVE Inv'
  <2>1. Sound(AdjustHeat(x, heat)) /\ Change(a, AdjustHeat(x, heat))
    BY <1>1, <1>11, SoundHeat DEF AdjustHeatHook, x
  <2> QED
    BY <2>1, OneChanged
<1>12. ASSUME NEW amt \in Amounts, AddHook(a, amt) PROVE Inv'
  <2>1. PICK hs \in SUBSET Gases : Change(a, Add(x, hs, amt))
    BY <1>12 DEF AddHook, x
  <2>2. Sound(Add(x, hs, amt))
    BY <1>1, <1>2, SoundAdd
  <2> QED
    BY <2>1, <2>2, OneChanged
<1>13. ASSUME NEW r \in Ratios, MultiplyHook(a, r) PROVE Inv'
  <2>1. Change(a, Multiply(x, r))
    BY <1>13 DEF MultiplyHook, x
  <2>2. Sound(Multiply(x, r))
    BY <1>1, <1>2, SoundMultiply
  <2> QED
    BY <2>1, <2>2, OneChanged
<1>14. ASSUME NEW amt \in Minima, MinHeatCapHook(a, amt) PROVE Inv'
  <2>1. Change(a, [x EXCEPT !.min = amt])
    BY <1>14 DEF MinHeatCapHook, x
  <2>2. Sound([x EXCEPT !.min = amt])
    <3>1. amt \in Nat /\ (Minima \subseteq {0} => amt = 0)
      BY <1>2
    <3> QED
      BY <1>1, <3>1 DEF Sound, Shaped, CacheRight
  <2> QED
    BY <2>1, <2>2, OneChanged
<1>15. CASE ClearHook(a)
  <2>1. Sound(Clear(x)) /\ Change(a, Clear(x))
    BY <1>1, <1>15, SoundClear DEF ClearHook, x
  <2> QED
    BY <2>1, OneChanged
<1>16. CASE HeatCapHook(a)
  <2>1. Sound(Read(x)) /\ Change(a, Read(x))
    BY <1>1, <1>16, SoundRead DEF HeatCapHook, x
  <2> QED
    BY <2>1, OneChanged
<1>17. CASE MarkImmutableHook(a)
  <2>1. Change(a, [x EXCEPT !.immutable = TRUE])
    BY <1>17 DEF MarkImmutableHook, x
  <2>2. Sound([x EXCEPT !.immutable = TRUE])
    BY <1>1 DEF Sound, Shaped, CacheRight
  <2> QED
    BY <2>1, <2>2, OneChanged
<1> QED
  BY <1>3, <1>4, <1>5, <1>6, <1>7, <1>8, <1>9, <1>10, <1>11, <1>12, <1>13, <1>14, <1>15,
     <1>16, <1>17 DEF Single

\* An amount of a total is a ratio, or NaN.
LEMMA PartOfIsRatio ==
    ASSUME NEW x, Sound(x), NEW amt \in Int
    PROVE  PartOf(x, amt) \in Ratio
<1> DEFINE t == TotalMoles(x)
<1>1. t \in Nat
  <2>1. IsFiniteSet(Gases) /\ x.moles \in [Gases -> Nat]
    BY SoundShape, MixturesAssumption
  <2>2. \A g \in Gases : x.moles[g] \in Nat
    BY <2>1
  <2> QED
    BY <2>1, <2>2, SumOfNat DEF TotalMoles
<1>2. PartOf(x, amt) = NoNumber \/ PartOf(x, amt) = <<amt, Max({t, 1})>>
  BY DEF PartOf
<1> HIDE DEF t
<1>3. \E m \in {t, 1} : \A k \in {t, 1} : m >= k
  <2>1. t >= 1 \/ 1 >= t
    BY <1>1
  <2> QED
    BY <1>1, <2>1
<1>4. Max({t, 1}) \in {t, 1} /\ \A k \in {t, 1} : Max({t, 1}) >= k
  BY <1>3 DEF Max
<1>5. Max({t, 1}) \in Nat \ {0}
  BY <1>1, <1>4
<1> QED
  BY <1>2, <1>5 DEF Ratio

LEMMA PairKeeps ==
    ASSUME Inv, NEW a \in Mixes, NEW b \in Mixes, Pair(a, b)
    PROVE  Inv'
<1> DEFINE x == mix[a]
           y == mix[b]
<1>1. Sound(x) /\ Sound(y)
  BY DEF Inv
<1> HIDE DEF x, y
<1>2. /\ Ratios \subseteq Int \X (Nat \ {0}) /\ Ratios \subseteq Ratio /\ Amounts \subseteq Int
      /\ <<Volume[a], Volume[b]>> \in Ratio
  BY MixturesAssumption DEF Ratio
<1>3. CASE MergeHook(a, b)
  <2> DEFINE p == <<Merge(x, y), Given(x, y)>>
  <2>1. ChangeBoth(a, b, p)
    BY <1>3 DEF MergeHook, x, y
  <2>2. Sound(p[1]) /\ Sound(p[2])
    BY <1>1, SoundMerge
  <2> HIDE DEF p
  <2> QED
    BY <2>1, <2>2, TwoChanged
<1>4. CASE CopyFromHook(a, b)
  <2>1. Sound(CopyFromMutable(x, y)) /\ Change(a, CopyFromMutable(x, y))
    BY <1>1, <1>4, SoundCopy DEF CopyFromHook, x, y
  <2> QED
    BY <2>1, OneChanged
<1>5. CASE EqualizeWithHook(a, b)
  <2> DEFINE r == <<Volume[a], Volume[b]>>
             z == CopyFromMutable(x, y)
  <2>1. Change(a, Multiply(z, r))
    BY <1>5 DEF EqualizeWithHook, x, y
  <2>2. Sound(z) /\ r \in Ratio
    BY <1>1, <1>2, SoundCopy
  <2> HIDE DEF z, r
  <2>3. Shaped(z, Nat) /\ (Minima \subseteq {0} => z.min = 0)
    BY <2>2 DEF Sound, CacheRight
  <2>4. Sound(Multiply(z, r))
    BY <2>2, <2>3, SoundMultiply
  <2> QED
    BY <2>1, <2>4, OneChanged
<1>6. ASSUME NEW k \in Coefficients, TemperatureShareHook(a, b, k) PROVE Inv'
  <2> DEFINE p == TemperatureShare(x, y, k)
  <2>1. ChangeBoth(a, b, p)
    BY <1>6 DEF TemperatureShareHook, x, y
  <2>2. Sound(p[1]) /\ Sound(p[2])
    BY <1>1, SoundTemperatureShare
  <2> HIDE DEF p
  <2> QED
    BY <2>1, <2>2, TwoChanged
<1>7. ASSUME NEW r \in Ratio, RemoveRatioHook(a, b, r) PROVE Inv'
  <2> DEFINE p == RemoveRatioInto(x, y, r)
  <2>1. ChangeBoth(a, b, p)
    BY <1>7 DEF RemoveRatioHook, x, y
  <2>2. Sound(p[1]) /\ Sound(p[2])
    BY <1>1, SoundRemove
  <2> HIDE DEF p
  <2> QED
    BY <2>1, <2>2, TwoChanged
<1>8. ASSUME NEW r \in Ratio, TransferRatioHook(a, b, r) PROVE Inv'
  <2> DEFINE p == TransferRatio(x, y, r)
  <2>1. ChangeBoth(a, b, p)
    BY <1>8 DEF TransferRatioHook, x, y
  <2>2. Sound(p[1]) /\ Sound(p[2])
    BY <1>1, SoundTransferRatio
  <2> HIDE DEF p
  <2> QED
    BY <2>1, <2>2, TwoChanged
<1>9. ASSUME NEW r \in Ratios, PlanetShare(a, b, r) PROVE Inv'
  <2> DEFINE p == <<ShareRatio(x, y, r), Given(x, y)>>
  <2>1. ChangeBoth(a, b, p) /\ Whole(y, r)
    BY <1>9 DEF PlanetShare, x, y
  <2>2. Sound(ShareRatio(x, y, r)) /\ Sound(Given(x, y))
    BY <1>1, <1>2, <2>1, SoundShare, SoundMerge
  <2>3. Sound(p[1]) /\ Sound(p[2])
    BY <2>2
  <2> HIDE DEF p
  <2> QED
    BY <2>1, <2>3, TwoChanged
<1>10. ASSUME NEW r \in Ratio, NEW gs \in SUBSET Gases, ScrubIntoHook(a, b, r, gs) PROVE Inv'
  <2> DEFINE p == TransferGasesTo(x, y, r, gs)
  <2>1. ChangeBoth(a, b, p)
    BY <1>10 DEF ScrubIntoHook, x, y
  <2>2. Sound(p[1]) /\ Sound(p[2])
    BY <1>1, SoundTransferGases
  <2> HIDE DEF p
  <2> QED
    BY <2>1, <2>2, TwoChanged
<1>11. ASSUME NEW amt \in Amounts PROVE PartOf(x, amt) \in Ratio
  BY <1>1, <1>2, PartOfIsRatio
<1>12. ASSUME NEW amt \in Amounts, RemoveHook(a, b, amt) PROVE Inv'
  BY <1>7, <1>11, <1>12 DEF RemoveHook, x
<1>13. ASSUME NEW amt \in Amounts, TransferHook(a, b, amt) PROVE Inv'
  BY <1>8, <1>11, <1>13 DEF TransferHook, x
<1>14. ASSUME NEW amt \in Amounts, NEW gs \in SUBSET Gases, RemoveByFlagHook(a, b, amt, gs)
       PROVE  Inv'
  BY <1>10, <1>11, <1>14 DEF RemoveByFlagHook, x
<1>15. ASSUME NEW r \in Ratios, RemoveRatioHook(a, b, r) PROVE Inv'
  BY <1>2, <1>7, <1>15
<1>16. ASSUME NEW r \in Ratios, TransferRatioHook(a, b, r) PROVE Inv'
  BY <1>2, <1>8, <1>16
<1>17. ASSUME NEW r \in Ratios, NEW gs \in SUBSET Gases, ScrubIntoHook(a, b, r, gs) PROVE Inv'
  BY <1>2, <1>10, <1>17
<1> QED
  BY <1>3, <1>4, <1>5, <1>6, <1>9, <1>12, <1>13, <1>14, <1>15, <1>16, <1>17 DEF Pair

LEMMA EqualizeKeeps ==
    ASSUME Inv, NEW S \in SUBSET Mixes, EqualizeAllHook(S)
    PROVE  Inv'
<1>1. mix' = Equalized(S)
  BY DEF EqualizeAllHook
<1>2. \A m \in Mixes : Sound(mix[m])
  BY DEF Inv
<1>3. ASSUME NEW m \in Mixes PROVE Sound(Equalized(S)[m])
  <2>1. CASE m \in S
    BY <2>1, SoundEqualized
  <2>2. CASE m \notin S
    BY <1>2, <2>2 DEF Equalized
  <2> QED
    BY <2>1, <2>2
<1>4. Equalized(S) = [m \in Mixes |-> Equalized(S)[m]]
  BY DEF Equalized
<1> QED
  BY <1>1, <1>3, <1>4 DEF Inv

-----------------------------------------------------------------------------
(***************************************************************************)
(* The theorems.                                                            *)
(***************************************************************************)
\* Whatever hooks are called, every mixture has the shape of a mixture with no
\* less than no moles, and one the minimum of which is zero keeps no stale heat
\* capacity.
THEOREM Invariant == Spec => []Inv
<1>1. Init => Inv
  BY SoundEmpty DEF Init, Inv
<1>2. Inv /\ [Next]_mix => Inv'
  <2> SUFFICES ASSUME Inv, [Next]_mix PROVE Inv'
    OBVIOUS
  <2>1. CASE UNCHANGED mix
    BY <2>1 DEF Inv
  <2>2. ASSUME NEW a \in Mixes, Single(a) PROVE Inv'
    BY <2>2, SingleKeeps
  <2>3. ASSUME NEW a \in Mixes, NEW b \in Mixes, Pair(a, b) PROVE Inv'
    BY <2>3, PairKeeps
  <2>4. ASSUME NEW S \in SUBSET Mixes, EqualizeAllHook(S) PROVE Inv'
    BY <2>4, EqualizeKeeps
  <2> QED
    BY <2>1, <2>2, <2>3, <2>4 DEF Next
<1> QED
  BY <1>1, <1>2, PTL DEF Spec

\* No order of calls of the hooks of src/lib.rs, with whatever negative amounts
\* and ratios, those that are NaN included, leaves less than no moles of a gas:
\* moles that are numbers are at least zero.  That others are NaN it does not rule
\* out, for the code lets it happen.
THEOREM NeverNegative == Spec => []NoNegativeMoles
<1>1. Inv => NoNegativeMoles
  <2> SUFFICES ASSUME Inv, NEW m \in Mixes, NEW g \in Gases PROVE mix[m].moles[g] >= 0
    BY DEF NoNegativeMoles
  <2>1. mix[m].moles \in [Gases -> Nat]
    BY SoundShape DEF Inv
  <2> QED
    BY <2>1
<1> QED
  BY <1>1, Invariant, PTL

\* While set_min_heat_capacity is not given a minimum, which does not throw away
\* what was kept (mixture.rs:125), heat_capacity never answers for moles that a
\* mixture without NaN no longer has, one that held NaN before included.
THEOREM CacheNeverStale ==
    ASSUME Minima \subseteq {0}
    PROVE  Spec => []CacheFresh
<1>1. Inv => CacheFresh
  <2> SUFFICES ASSUME Inv, NEW m \in Mixes, mix[m].nan = {}, mix[m].cached # Unknown
               PROVE  mix[m].cached = SlowHeatCapacity(mix[m])
    BY DEF CacheFresh
  <2>1. Sound(mix[m])
    BY DEF Inv
  <2>2. Shaped(mix[m], Nat) /\ CacheRight(mix[m])
    BY <2>1 DEF Sound
  <2>3. mix[m].min = 0 /\ mix[m].cached = HeatOf(mix[m].moles)
    BY <2>2 DEF CacheRight
  <2> QED
    BY <2>2, <2>3, SlowIsHeatOf
<1> QED
  BY <1>1, Invariant, PTL

-----------------------------------------------------------------------------
(***************************************************************************)
(* What may be NaN after a call.                                            *)
(***************************************************************************)
LEMMA NaNOfTemperature ==
    ASSUME NEW x, Shaped(x, Nat), NEW n, NEW d
    PROVE  SetTemperature(x, n, d).nan = x.nan
<1>1. [x EXCEPT !.temp = Quotient(n, d)].nan = x.nan
  BY DEF Shaped
<1> QED
  BY <1>1 DEF SetTemperature

LEMMA NaNOfConducted ==
    ASSUME NEW x, Shaped(x, Nat), NEW k, NEW temp, NEW cap
    PROVE  Conducted(x, k, temp, cap).nan = x.nan
<1>1. ASSUME NEW t PROVE [x EXCEPT !.temp = t].nan = x.nan
  BY DEF Shaped
<1> QED
  BY <1>1 DEF Conducted

\* What sets, adds or takes moles of one mixture brings no NaN.
LEMMA NaNOfMoles ==
    ASSUME NEW x, Sound(x), NEW a \in [Gases -> Int], NEW l \in SUBSET Gases
    PROVE  /\ Invalidate(WithMoles(x, a, l)).nan = l
           /\ Invalidate(Plus(x, a, {})).nan = x.nan
           /\ Invalidate(GarbageCollect(Plus(x, a, {}))).nan = {}
           /\ GarbageCollect(Invalidate(Plus(x, a, {}))).nan = {}
<1>1. Shaped(x, Int) /\ {} \in SUBSET Gases
  BY SoundShape
<1>2. Shaped(WithMoles(x, a, l), Int) /\ WithMoles(x, a, l).nan = l
  <2>1. WithMoles(x, a, l).nan = l
    BY <1>1 DEF WithMoles, Shaped
  <2> QED
    BY <1>1, <2>1, OtherShape
<1> DEFINE y == Plus(x, a, {})
<1>3. Shaped(y, Int) /\ y.nan = x.nan
  <2>1. Shaped(y, Int)
    BY <1>1, Added
  <2>2. y.nan = x.nan \cup {}
    BY <1>1 DEF Plus, WithMoles, Shaped
  <2> QED
    BY <2>1, <2>2
<1> HIDE DEF y
<1>4. /\ Invalidate(y).nan = x.nan /\ Shaped(Invalidate(y), Int)
      /\ GarbageCollect(y).nan = {} /\ Shaped(GarbageCollect(y), Nat)
  BY <1>3, Invalidated, Collected
<1>5. Invalidate(GarbageCollect(y)).nan = {} /\ GarbageCollect(Invalidate(y)).nan = {}
  <2>1. GarbageCollect(Invalidate(y)).nan = {}
    BY <1>4, Collected
  <2>2. Invalidate(GarbageCollect(y)).nan = {}
    BY <1>4, Invalidated
  <2> QED
    BY <2>1, <2>2
<1>6. Invalidate(WithMoles(x, a, l)).nan = l
  <2> DEFINE w == WithMoles(x, a, l)
  <2>1. Shaped(w, Int) /\ w.nan = l
    BY <1>2
  <2> HIDE DEF w
  <2>2. Invalidate(w).nan = l
    BY <2>1, Invalidated
  <2> QED
    BY <2>2 DEF w
<1> QED
  BY <1>4, <1>5, <1>6 DEF y

LEMMA NaNOfMultiply ==
    ASSUME NEW x, Sound(x), NEW r \in Ratio
    PROVE  Multiply(x, r).nan \subseteq x.nan
<1>1. Shaped(x, Nat) /\ (Minima \subseteq {0} => x.min = 0) /\ x.immutable \in BOOLEAN
  BY SoundShape
<1>2. ~x.immutable => Multiply(x, r).nan = {}
  BY <1>1, SoundMultiply
<1>3. x.immutable => Multiply(x, r) = x
  BY DEF Multiply
<1> QED
  BY <1>1, <1>2, <1>3

LEMMA NaNOfMerge ==
    ASSUME NEW x, Sound(x), NEW y, Sound(y)
    PROVE  /\ Merge(x, y).nan \subseteq x.nan \cup y.nan
           /\ Given(x, y).nan = y.nan
<1> DEFINE both == HeatCapacity(x) + HeatCapacity(y)
           n == Energy(x) + Energy(y)
           w == Plus(x, y.moles, y.nan)
           z == SetTemperature(w, n, both)
<1>1. Merge(x, y) = IF x.immutable THEN x ELSE [z EXCEPT !.cached = both]
  BY DEF Merge
<1>2. Given(x, y).nan = y.nan
  BY SoundRead DEF Given
<1>3. Shaped(w, Nat) /\ w.nan = x.nan \cup y.nan
  <2>1. y.moles \in [Gases -> Nat] /\ y.moles \in [Gases -> Int] /\ y.nan \in SUBSET Gases
    BY SoundShape
  <2> QED
    BY <2>1, Added
<1> HIDE DEF w, both, n
<1>4. z.nan = w.nan
  BY <1>3, NaNOfTemperature
<1>5. ASSUME NEW c PROVE [z EXCEPT !.cached = c].nan = z.nan
  <2>1. z = w \/ z = [w EXCEPT !.temp = Quotient(n, both)]
    BY DEF SetTemperature
  <2> HIDE DEF z
  <2> QED
    BY <1>3, <2>1 DEF Shaped
<1> QED
  BY <1>1, <1>2, <1>3, <1>4, <1>5

LEMMA NaNOfCopy ==
    ASSUME NEW x, Sound(x), NEW y
    PROVE  CopyFromMutable(x, y).nan \in {x.nan, y.nan}
<1> DEFINE z == [x EXCEPT !.moles = y.moles, !.nan = y.nan, !.temp = y.temp, !.cached = y.cached]
<1>1. z = [moles |-> y.moles, nan |-> y.nan, temp |-> y.temp, min |-> x.min,
           cached |-> y.cached, immutable |-> x.immutable]
  BY SoundShape, CopiedIs
<1>2. CopyFromMutable(x, y) = IF x.immutable THEN x ELSE z
  BY DEF CopyFromMutable
<1> HIDE DEF z
<1>3. z.nan = y.nan
  BY <1>1
<1> QED
  BY <1>2, <1>3

\* multiply after copy_from_mutable leaves numbers, unless the mixture is immutable.
LEMMA NaNOfCopied ==
    ASSUME NEW x, Sound(x), NEW y, Shaped(y, Nat), NEW r \in Ratio
    PROVE  Multiply(CopyFromMutable(x, y), r).nan \subseteq x.nan
<1> DEFINE z == CopyFromMutable(x, y)
<1>1. Shaped(x, Nat) /\ (Minima \subseteq {0} => x.min = 0) /\ x.immutable \in BOOLEAN
  BY SoundShape
<1>2. CASE x.immutable
  <2>1. z = x
    BY <1>2 DEF CopyFromMutable
  <2> HIDE DEF z
  <2> QED
    BY <2>1, NaNOfMultiply DEF z
<1>3. CASE ~x.immutable
  <2>1. z = [moles |-> y.moles, nan |-> y.nan, temp |-> y.temp, min |-> x.min,
             cached |-> y.cached, immutable |-> x.immutable]
    BY <1>1, <1>3, CopiedIs DEF CopyFromMutable
  <2> HIDE DEF z
  <2>2. Shaped(z, Nat) /\ (Minima \subseteq {0} => z.min = 0) /\ ~z.immutable
    BY <1>1, <1>3, <2>1 DEF Shaped
  <2>3. Multiply(z, r).nan = {}
    BY <2>2, SoundMultiply
  <2> QED
    BY <2>3 DEF z
<1> QED
  BY <1>1, <1>2, <1>3

LEMMA NaNOfRemove ==
    ASSUME NEW x, Sound(x), NEW y, Sound(y), NEW r \in Ratio
    PROVE  /\ RemoveRatioInto(x, y, r)[1].nan \subseteq x.nan
           /\ RemoveRatioInto(x, y, r)[2].nan \subseteq y.nan
<1> DEFINE c == Clamp(r)
           u == Multiply(x, Rest(c))
           v == Multiply(CopyFromMutable(y, x), c)
<1>1. RemoveRatioInto(x, y, r) = IF r # NoNumber /\ r[1] <= 0 THEN <<x, y>> ELSE <<u, v>>
  BY DEF RemoveRatioInto
<1>2. c \in Ratio /\ Rest(c) \in Ratio
  BY ClampedRatio
<1> HIDE DEF c
<1>3. u.nan \subseteq x.nan
  BY <1>2, NaNOfMultiply
<1>4. v.nan \subseteq y.nan
  BY <1>2, SoundShape, NaNOfCopied
<1> QED
  BY <1>1, <1>3, <1>4

LEMMA NaNOfTransfer ==
    ASSUME NEW x, Sound(x), NEW y, Sound(y), NEW r \in Ratio
    PROVE  /\ TransferRatio(x, y, r)[1].nan \subseteq x.nan
           /\ TransferRatio(x, y, r)[2].nan \subseteq y.nan
<1> DEFINE p == RemoveRatioInto(x, Empty, r)
<1>1. TransferRatio(x, y, r) = <<p[1], Merge(y, p[2])>>
  BY DEF TransferRatio, RemoveRatio
<1>2. Empty.nan = {}
  BY DEF Empty
<1>3. p[1].nan \subseteq x.nan /\ p[2].nan = {} /\ Sound(p[2])
  BY <1>2, SoundEmpty, NaNOfRemove, SoundRemove
<1> HIDE DEF p
<1>4. Merge(y, p[2]).nan \subseteq y.nan
  BY <1>3, NaNOfMerge
<1> QED
  BY <1>1, <1>3, <1>4

\* transfer_gases_to is the one that makes NaN, if the ratio is.
LEMMA NaNOfTransferGases ==
    ASSUME NEW x, Sound(x), NEW y, Sound(y), NEW r \in Ratio, NEW gs \in SUBSET Gases
    PROVE  /\ r # NoNumber => TransferGasesTo(x, y, r, gs)[1].nan \subseteq x.nan
           /\ TransferGasesTo(x, y, r, gs)[2].nan = y.nan
<1> DEFINE c     == Clamp(r)
           lost  == IF c = NoNumber THEN gs ELSE gs \cap x.nan
           delta == [g \in Gases |-> IF g \in gs THEN Scaled(x.moles[g], c) ELSE 0]
           a     == [g \in Gases |-> 0 - delta[g]]
           taken == Plus(x, a, lost)
           given == IF y.immutable THEN y ELSE Plus(y, delta, {})
           z     == Read(Invalidate(given))
           n     == Energy(y) + HeatOf(delta) * x.temp
<1>1. TransferGasesTo(x, y, r, gs)
        = <<Invalidate(taken),
            IF lost # {} THEN z ELSE SetTemperature(z, n, HeatCapacity(z))>>
  BY DEF TransferGasesTo
<1>2. x.moles \in [Gases -> Nat] /\ lost \in SUBSET Gases
      /\ (Minima \subseteq {0} => y.min = 0) /\ Shaped(y, Nat)
  BY SoundShape
<1>3. r # NoNumber => lost \subseteq x.nan
  <2>1. ASSUME r # NoNumber PROVE c # NoNumber
    <3>1. r \in Int \X (Nat \ {0})
      BY <2>1 DEF Ratio
    <3>2. c \in Int \X (Nat \ {0})
      BY <3>1, Clamped
    <3> HIDE DEF c
    <3> QED
      BY <3>2, ScaledIs
  <2> QED
    BY <2>1
<1>4. delta \in [Gases -> Nat] /\ delta \in [Gases -> Int]
  <2>1. c \in Ratio /\ (c # NoNumber => c[1] \in 0..c[2])
    BY ClampedRatio
  <2> HIDE DEF c
  <2>2. ASSUME NEW i \in Nat PROVE Scaled(i, c) \in 0..i
    <3>1. CASE c = NoNumber
      BY <3>1 DEF Scaled
    <3>2. CASE c # NoNumber
      BY <2>1, <3>2, ScaledWithin DEF Ratio
    <3> QED
      BY <3>1, <3>2
  <2>3. \A g \in Gases : delta[g] \in Nat
    BY <1>2, <2>2
  <2> QED
    BY <2>3
<1> HIDE DEF lost, delta
<1>5. a \in [Gases -> Int]
  BY <1>4
<1> HIDE DEF a
<1>6. taken.nan = x.nan \cup lost /\ Shaped(taken, Int)
  BY <1>2, <1>5, Added
<1> HIDE DEF taken
<1>7. Invalidate(taken).nan = x.nan \cup lost
  BY <1>6, Invalidated
<1>8. Sound(z) /\ z.nan = y.nan
  <2>1. Shaped(Plus(y, delta, {}), Nat) /\ Plus(y, delta, {}).min = y.min
        /\ Plus(y, delta, {}).nan = y.nan
    <3>1. {} \in SUBSET Gases
      OBVIOUS
    <3>2. Shaped(Plus(y, delta, {}), Nat) /\ Plus(y, delta, {}).min = y.min
      BY <1>4, <3>1, Added
    <3>3. Plus(y, delta, {}).nan = y.nan \cup {}
      BY <1>2 DEF Plus, WithMoles, Shaped
    <3> QED
      BY <3>2, <3>3
  <2>2. Shaped(given, Nat) /\ (Minima \subseteq {0} => given.min = 0) /\ given.nan = y.nan
    BY <1>2, <2>1
  <2> HIDE DEF given
  <2>3. Sound(Invalidate(given)) /\ Invalidate(given).nan = y.nan
    BY <2>2, SoundInvalidated, Invalidated
  <2> QED
    BY <2>3, SoundRead
<1> HIDE DEF z, n
<1>9. SetTemperature(z, n, HeatCapacity(z)).nan = y.nan
  BY <1>8, NaNOfTemperature DEF Sound
<1> QED
  BY <1>1, <1>3, <1>7, <1>8, <1>9

LEMMA NaNOfShare ==
    ASSUME NEW x, Sound(x), NEW y, Sound(y), NEW r \in Int \X (Nat \ {0}), Whole(y, r)
    PROVE  ShareRatio(x, y, r).nan \subseteq x.nan \cup y.nan
<1> DEFINE c    == Clamp(r)
           kept == Multiply(x, Rest(c))
           part == [g \in Gases |-> Scaled(y.moles[g], c)]
           w    == Plus(kept, part, y.nan)
           e    == Scaled(HeatCapacity(y), c)
           h    == HeatCapacity(kept) + e
           n    == Energy(kept) + e * y.temp
           z    == SetTemperature(w, n, h)
<1>1. ShareRatio(x, y, r) = IF x.immutable THEN x ELSE [z EXCEPT !.cached = h]
  BY DEF ShareRatio
<1>2. c \in Ratio /\ Rest(c) \in Ratio /\ c \in Int \X (Nat \ {0}) /\ c[1] \in 0..c[2]
  BY Clamped DEF Ratio
<1> HIDE DEF c
<1>3. kept.nan \subseteq x.nan
  BY <1>2, NaNOfMultiply
<1>4. Sound(kept)
  <2>1. Shaped(x, Nat) /\ (Minima \subseteq {0} => x.min = 0)
    BY SoundShape
  <2> QED
    BY <1>2, <2>1, SoundMultiply
<1>5. part \in [Gases -> Nat] /\ part \in [Gases -> Int] /\ y.nan \in SUBSET Gases
  <2>1. y.moles \in [Gases -> Nat] /\ y.nan \in SUBSET Gases
    BY SoundShape
  <2>2. \A i \in Nat : Scaled(i, c) \in Nat
    BY <1>2, ScaledWithin
  <2> QED
    BY <2>1, <2>2
<1> HIDE DEF kept, part, h, n
<1>6. Shaped(w, Nat) /\ w.nan = kept.nan \cup y.nan
  BY <1>4, <1>5, Added
<1> HIDE DEF w
<1>7. Shaped(z, Nat) /\ z.nan = w.nan
  <2>1. z = w \/ z = [w EXCEPT !.temp = Quotient(n, h)]
    BY DEF SetTemperature
  <2> HIDE DEF z
  <2> QED
    BY <1>6, <2>1 DEF Shaped
<1> HIDE DEF z
<1>8. [z EXCEPT !.cached = h].nan = z.nan
  BY <1>7 DEF Shaped
<1> QED
  BY <1>1, <1>3, <1>6, <1>7, <1>8

LEMMA NaNOfSharing ==
    ASSUME NEW x, Sound(x), NEW y, Sound(y), NEW k
    PROVE  TemperatureShare(x, y, k)[1].nan = x.nan /\ TemperatureShare(x, y, k)[2].nan = y.nan
<1>1. Sound(Read(x)) /\ Sound(Read(y)) /\ Read(x).nan = x.nan /\ Read(y).nan = y.nan
  BY SoundRead
<1>2. /\ Conducted(Read(x), k, y.temp, HeatCapacity(y)).nan = x.nan
      /\ Conducted(Read(y), k, x.temp, HeatCapacity(x)).nan = y.nan
  BY <1>1, NaNOfConducted DEF Sound
<1> QED
  BY <1>1, <1>2 DEF TemperatureShare

\* No mixture loses a gas that it had.
Quiet == \A m \in Mixes : mix'[m].nan \subseteq mix[m].nan

LEMMA QuietOne ==
    ASSUME Inv, NEW a \in Mixes, NEW x, x.nan \subseteq mix[a].nan, Change(a, x)
    PROVE  Quiet
BY DEF Inv, Change, Quiet

LEMMA QuietTwo ==
    ASSUME Inv, NEW a \in Mixes, NEW b \in Mixes, NEW x, x[1].nan \subseteq mix[a].nan,
           x[2].nan \subseteq mix[b].nan, ChangeBoth(a, b, x)
    PROVE  Quiet
<1> DEFINE f == [m \in Mixes |-> IF m = a THEN x[1] ELSE IF m = b THEN x[2] ELSE mix[m]]
<1>1. mix' = f
  BY DEF ChangeBoth
<1>2. \A m \in Mixes : f[m].nan \subseteq mix[m].nan
  OBVIOUS
<1> HIDE DEF f
<1> QED
  BY <1>1, <1>2 DEF Quiet

\* No hook of one mixture makes NaN.
LEMMA SingleQuiet ==
    ASSUME Inv, NEW a \in Mixes, Single(a)
    PROVE  Quiet
<1> DEFINE x == mix[a]
<1>1. Sound(x) /\ Shaped(x, Nat) /\ {} \in SUBSET Gases /\ x.nan \in SUBSET Gases
      /\ x.moles \in [Gases -> Nat]
  BY SoundShape DEF Inv
<1> HIDE DEF x
<1>2. Amounts \subseteq Int /\ Ratios \subseteq Ratio
  BY MixturesAssumption DEF Ratio
<1>3. ASSUME NEW g \in Gases, NEW amt \in Amounts, SetMolesHook(a, g, amt) PROVE Quiet
  <2> DEFINE i == [x.moles EXCEPT ![g] = amt]
  <2>1. i \in [Gases -> Int] /\ x.nan \ {g} \in SUBSET Gases
    BY <1>1, <1>2
  <2> HIDE DEF i
  <2>2. Invalidate(WithMoles(x, i, x.nan \ {g})).nan = x.nan \ {g}
    BY <1>1, <2>1, NaNOfMoles
  <2>3. SetMoles(x, g, amt).nan \subseteq x.nan
    BY <2>2 DEF SetMoles, i
  <2>4. Change(a, SetMoles(x, g, amt))
    BY <1>3 DEF SetMolesHook, x
  <2> QED
    BY <2>3, <2>4, QuietOne DEF x
<1>4. ASSUME NEW g \in Gases, NEW amt \in Amounts, AdjustMolesHook(a, g, amt) PROVE Quiet
  <2> DEFINE i == Only(g, amt)
  <2>1. i \in [Gases -> Int]
    BY <1>2 DEF Only
  <2> HIDE DEF i
  <2>2. Invalidate(Plus(x, i, {})).nan = x.nan /\ Invalidate(GarbageCollect(Plus(x, i, {}))).nan = {}
    BY <1>1, <2>1, NaNOfMoles
  <2>3. AdjustMoles(x, g, amt).nan \subseteq x.nan
    BY <2>2 DEF AdjustMoles, i
  <2>4. Change(a, AdjustMoles(x, g, amt))
    BY <1>4 DEF AdjustMolesHook, x
  <2> QED
    BY <2>3, <2>4, QuietOne DEF x
<1>5. ASSUME NEW g \in Gases, NEW amt \in Amounts, NEW temp \in Temps,
             AdjustMolesTempHook(a, g, amt, temp)
      PROVE  Quiet
  <2> DEFINE i == [Empty.moles EXCEPT ![g] = amt]
             u == SetMoles(Empty, g, amt)
             y == SetTemperature(u, temp, 1)
  <2>1. amt \in Nat
    BY <1>2, <1>5 DEF AdjustMolesTempHook
  <2>2. Sound(u)
    BY <2>1, SoundEmpty, SoundSetMoles
  <2>3. u.nan = {}
    <3>1. i \in [Gases -> Int] /\ {} \in SUBSET Gases
      BY <2>1 DEF Empty
    <3>2. Empty.nan \ {g} = {} /\ Empty.immutable = FALSE
      BY DEF Empty
    <3> HIDE DEF i
    <3>3. Invalidate(WithMoles(Empty, i, {})).nan = {}
      BY <3>1, SoundEmpty, NaNOfMoles
    <3> QED
      BY <3>2, <3>3 DEF SetMoles, i
  <2>4. Change(a, Merge(x, y))
    BY <1>5 DEF AdjustMolesTempHook, x
  <2> HIDE DEF u
  <2>5. Sound(y) /\ y.nan = {}
    BY <2>2, <2>3, SoundTemperature, NaNOfTemperature DEF Sound
  <2> HIDE DEF y
  <2>6. Merge(x, y).nan \subseteq x.nan
    BY <1>1, <2>5, NaNOfMerge
  <2> QED
    BY <2>4, <2>6, QuietOne DEF x
<1>6. ASSUME NEW amts \in [Gases -> Amounts], AdjustMultiHook(a, amts) PROVE Quiet
  <2>1. amts \in [Gases -> Int]
    BY <1>2
  <2>2. Invalidate(Plus(x, amts, {})).nan = x.nan
        /\ Invalidate(GarbageCollect(Plus(x, amts, {}))).nan = {}
    BY <1>1, <2>1, NaNOfMoles
  <2>3. AdjustMulti(x, amts).nan \subseteq x.nan
    BY <2>2 DEF AdjustMulti
  <2>4. Change(a, AdjustMulti(x, amts))
    BY <1>6 DEF AdjustMultiHook, x
  <2> QED
    BY <2>3, <2>4, QuietOne DEF x
<1>7. ASSUME NEW amts \in [Gases -> Amounts] PROVE amts \in [Gases -> Int]
  BY <1>2
<1>8. ASSUME NEW amts \in [Gases -> Amounts], ParseHook(a, amts) PROVE Quiet
  <2> DEFINE y == IF x.immutable THEN x ELSE Invalidate(WithMoles(x, amts, {}))
  <2>1. Invalidate(WithMoles(x, amts, {})).nan = {}
    BY <1>1, <1>7, NaNOfMoles
  <2>2. Change(a, y) /\ y.nan \subseteq x.nan
    BY <1>8, <2>1 DEF ParseHook, x
  <2> HIDE DEF y
  <2> QED
    BY <2>2, QuietOne DEF x
<1>9. ASSUME NEW amts \in [Gases -> Amounts], NEW temp \in Temps, ParseTempHook(a, amts, temp)
      PROVE  Quiet
  <2> DEFINE t == IF temp < TCMB THEN TCMB ELSE temp
             z == WithMoles(x, amts, {})
             y == IF x.immutable THEN x ELSE Invalidate([z EXCEPT !.temp = t])
  <2>1. Change(a, y)
    BY <1>9 DEF ParseTempHook, x
  <2>2. z.nan = {} /\ Shaped(z, Int)
    <3>1. Shaped(x, Int)
      BY <1>1, NatIsInt
    <3>2. z.nan = {}
      BY <3>1 DEF WithMoles, Shaped
    <3> QED
      BY <1>1, <1>7, <3>1, <3>2, OtherShape
  <2> HIDE DEF t, z
  <2>3. Shaped([z EXCEPT !.temp = t], Int) /\ [z EXCEPT !.temp = t].nan = {}
    BY <2>2 DEF Shaped
  <2>4. Invalidate([z EXCEPT !.temp = t]).nan = {}
    BY <2>3, Invalidated
  <2>5. y.nan \subseteq x.nan
    BY <2>4
  <2> HIDE DEF y
  <2> QED
    BY <2>1, <2>5, QuietOne DEF x
<1>10. ASSUME NEW temp \in Temps, SetTemperatureHook(a, temp) PROVE Quiet
  <2> DEFINE t == IF temp < TCMB THEN TCMB ELSE temp
  <2>1. Change(a, SetTemperature(x, t, 1))
    BY <1>10 DEF SetTemperatureHook, x
  <2> HIDE DEF t
  <2>2. SetTemperature(x, t, 1).nan = x.nan
    BY <1>1, NaNOfTemperature
  <2> QED
    BY <2>1, <2>2, QuietOne DEF x
<1>11. ASSUME NEW temp \in Temps, NEW k \in Coefficients, NEW cap \in Range(Heat),
              TemperatureShareHook4(a, k, temp, cap)
       PROVE  Quiet
  <2>1. Change(a, TemperatureShareNonGas(x, k, temp, cap))
    BY <1>11 DEF TemperatureShareHook4, x
  <2>2. Sound(Read(x)) /\ Read(x).nan = x.nan
    BY <1>1, SoundRead
  <2>3. Conducted(Read(x), k, temp, cap).nan = x.nan
    BY <2>2, NaNOfConducted DEF Sound
  <2>4. TemperatureShareNonGas(x, k, temp, cap).nan = x.nan
    BY <2>2, <2>3 DEF TemperatureShareNonGas
  <2> QED
    BY <2>1, <2>4, QuietOne DEF x
<1>12. ASSUME NEW heat \in Heats, AdjustHeatHook(a, heat) PROVE Quiet
  <2>1. Change(a, AdjustHeat(x, heat))
    BY <1>12 DEF AdjustHeatHook, x
  <2>2. Sound(Read(x)) /\ Read(x).nan = x.nan
    BY <1>1, SoundRead
  <2>3. AdjustHeat(x, heat).nan = x.nan
    BY <2>2, NaNOfTemperature DEF AdjustHeat, Sound
  <2> QED
    BY <2>1, <2>3, QuietOne DEF x
<1>13. ASSUME NEW amt \in Amounts, AddHook(a, amt) PROVE Quiet
  <2>1. PICK hs \in SUBSET Gases : Change(a, Add(x, hs, amt))
    BY <1>13 DEF AddHook, x
  <2> DEFINE i == [g \in Gases |-> IF g \in hs THEN amt ELSE 0]
  <2>2. i \in [Gases -> Int]
    BY <1>2
  <2> HIDE DEF i
  <2>3. GarbageCollect(Invalidate(Plus(x, i, {}))).nan = {}
    BY <1>1, <2>2, NaNOfMoles
  <2>4. Add(x, hs, amt).nan \subseteq x.nan
    BY <2>3 DEF Add, i
  <2> QED
    BY <2>1, <2>4, QuietOne DEF x
<1>14. ASSUME NEW r \in Ratios, MultiplyHook(a, r) PROVE Quiet
  <2>1. Change(a, Multiply(x, r)) /\ r \in Ratio
    BY <1>2, <1>14 DEF MultiplyHook, x
  <2>2. Multiply(x, r).nan \subseteq x.nan
    BY <1>1, <2>1, NaNOfMultiply
  <2> QED
    BY <2>1, <2>2, QuietOne DEF x
<1>15. ASSUME NEW amt \in Minima, MinHeatCapHook(a, amt) PROVE Quiet
  <2>1. Change(a, [x EXCEPT !.min = amt]) /\ [x EXCEPT !.min = amt].nan = x.nan
    BY <1>1, <1>15 DEF MinHeatCapHook, Shaped, x
  <2> QED
    BY <2>1, QuietOne DEF x
<1>16. CASE ClearHook(a)
  <2> DEFINE i == [g \in Gases |-> 0]
  <2>1. i \in [Gases -> Int]
    OBVIOUS
  <2> HIDE DEF i
  <2>2. Invalidate(WithMoles(x, i, {})).nan = {}
    BY <1>1, <2>1, NaNOfMoles
  <2>3. Change(a, Clear(x)) /\ Clear(x).nan \subseteq x.nan
    BY <1>16, <2>2 DEF ClearHook, Clear, x, i
  <2> QED
    BY <2>3, QuietOne DEF x
<1>17. CASE HeatCapHook(a)
  <2>1. Change(a, Read(x)) /\ Read(x).nan = x.nan
    BY <1>1, <1>17, SoundRead DEF HeatCapHook, x
  <2> QED
    BY <2>1, QuietOne DEF x
<1>18. CASE MarkImmutableHook(a)
  <2>1. Change(a, [x EXCEPT !.immutable = TRUE]) /\ [x EXCEPT !.immutable = TRUE].nan = x.nan
    BY <1>1, <1>18 DEF MarkImmutableHook, Shaped, x
  <2> QED
    BY <2>1, QuietOne DEF x
<1> QED
  BY <1>3, <1>4, <1>5, <1>6, <1>8, <1>9, <1>10, <1>11, <1>12, <1>13, <1>14, <1>15, <1>16,
     <1>17, <1>18 DEF Single

LEMMA ZeroParts ==
    ASSUME NEW S, IsFiniteSet(S), NEW f, \A x \in S : f[x] \in Nat, SumFunctionOnSet(f, S) = 0
    PROVE  \A x \in S : f[x] = 0
<1> SUFFICES ASSUME NEW x \in S PROVE f[x] = 0
  OBVIOUS
<1>1. \A y \in S : f[y] \in Int
  OBVIOUS
<1>2. SumFunctionOnSet(f, S) = f[x] + SumFunctionOnSet(f, S \ {x})
  BY <1>1, SumRemove
<1>3. IsFiniteSet(S \ {x}) /\ \A y \in S \ {x} : f[y] \in Nat
  BY FS_Subset
<1>4. SumFunctionOnSet(f, S \ {x}) \in Nat
  BY <1>3, SumOfNat
<1> QED
  BY <1>2, <1>4

\* What NaNFromNothing says of a step.
Loses ==
    \A m \in Mixes : \A g \in mix'[m].nan \ mix[m].nan :
        \/ \E o \in Mixes \ {m} : g \in mix[o].nan
        \/ mix[m].nan # {}
        \/ \A h \in Gases : mix[m].moles[h] = 0

\* A mixture takes NaN from another.
LEMMA LosesFrom ==
    ASSUME Inv, NEW a \in Mixes, NEW b \in Mixes, NEW x,
           x[1].nan \subseteq mix[a].nan \cup mix[b].nan, x[2].nan \subseteq mix[b].nan,
           ChangeBoth(a, b, x)
    PROVE  Loses
<1> DEFINE f == [m \in Mixes |-> IF m = a THEN x[1] ELSE IF m = b THEN x[2] ELSE mix[m]]
<1>1. mix' = f
  BY DEF ChangeBoth
<1>2. \A m \in Mixes : \A g \in f[m].nan \ mix[m].nan : \E o \in Mixes \ {m} : g \in mix[o].nan
  <2> SUFFICES ASSUME NEW m \in Mixes, NEW g \in f[m].nan, g \notin mix[m].nan
               PROVE  \E o \in Mixes \ {m} : g \in mix[o].nan
    OBVIOUS
  <2>1. m = a /\ g \in x[1].nan
    OBVIOUS
  <2>2. g \in mix[b].nan /\ b # m
    BY <2>1
  <2> QED
    BY <2>2
<1> HIDE DEF f
<1> QED
  BY <1>1, <1>2 DEF Loses

\* No part of nothing is a number, nor is one of NaN.
LEMMA NoPart ==
    ASSUME NEW x, Sound(x), NEW amt \in Int, PartOf(x, amt) = NoNumber
    PROVE  x.nan # {} \/ \A h \in Gases : x.moles[h] = 0
<1> DEFINE t == TotalMoles(x)
           f == x.moles
<1>1. IsFiniteSet(Gases) /\ \A g \in Gases : f[g] \in Nat
  BY SoundShape, MixturesAssumption
<1>2. t = SumFunctionOnSet(f, Gases)
  BY DEF TotalMoles
<1> HIDE DEF f
<1>3. t \in Nat
  BY <1>1, <1>2, SumOfNat
<1>4. t = 0 => \A h \in Gases : f[h] = 0
  BY <1>1, <1>2, ZeroParts
<1>5. PartOf(x, amt) = IF x.nan # {} \/ (amt = 0 /\ t = 0) THEN NoNumber
                      ELSE <<amt, Max({t, 1})>>
  BY DEF PartOf
<1> HIDE DEF t
<1>6. Max({t, 1}) # 0
  <2>1. \E m \in {t, 1} : \A k \in {t, 1} : m >= k
    <3>1. t >= 1 \/ 1 >= t
      BY <1>3
    <3> QED
      BY <1>3, <3>1
  <2>2. Max({t, 1}) \in {t, 1} /\ \A k \in {t, 1} : Max({t, 1}) >= k
    BY <2>1 DEF Max
  <2> QED
    BY <1>3, <2>2
<1>7. <<amt, Max({t, 1})>> # NoNumber
  BY <1>6 DEF NoNumber
<1> QED
  BY <1>4, <1>5, <1>7 DEF f

\* Of the hooks of two mixtures remove_by_flag is the one that may make NaN.
LEMMA PairLoses ==
    ASSUME Inv, NEW a \in Mixes, NEW b \in Mixes, Pair(a, b)
    PROVE  Loses
<1> DEFINE x == mix[a]
           y == mix[b]
<1>1. Sound(x) /\ Sound(y)
  BY DEF Inv
<1>2. Quiet => Loses
  BY DEF Quiet, Loses
<1>3. x = mix[a] /\ y = mix[b]
  OBVIOUS
<1> HIDE DEF x, y
<1>4. /\ Ratios \subseteq Int \X (Nat \ {0}) /\ Ratios \subseteq Ratio /\ Amounts \subseteq Int
      /\ <<Volume[a], Volume[b]>> \in Ratio
  BY MixturesAssumption DEF Ratio
<1>5. CASE MergeHook(a, b)
  <2> DEFINE p == <<Merge(x, y), Given(x, y)>>
  <2>1. ChangeBoth(a, b, p)
    BY <1>3, <1>5 DEF MergeHook
  <2>2. p[1].nan \subseteq x.nan \cup y.nan /\ p[2].nan \subseteq y.nan
    BY <1>1, NaNOfMerge
  <2> HIDE DEF p
  <2> QED
    BY <1>3, <2>1, <2>2, LosesFrom
<1>6. CASE CopyFromHook(a, b)
  <2>1. CopyFromMutable(x, y).nan \in {x.nan, y.nan} /\ Change(a, CopyFromMutable(x, y))
    BY <1>1, <1>3, <1>6, NaNOfCopy DEF CopyFromHook
  <2>2. mix' = [mix EXCEPT ![a] = CopyFromMutable(x, y)]
    BY <2>1 DEF Change
  <2> SUFFICES ASSUME NEW m \in Mixes, NEW g \in mix'[m].nan, g \notin mix[m].nan
               PROVE  \E o \in Mixes \ {m} : g \in mix[o].nan
    BY DEF Loses
  <2>3. m = a /\ g \in y.nan
    BY <1>3, <2>1, <2>2 DEF Inv
  <2> QED
    BY <1>3, <2>3
<1>7. CASE EqualizeWithHook(a, b)
  <2> DEFINE r == <<Volume[a], Volume[b]>>
             z == Multiply(CopyFromMutable(x, y), r)
  <2>1. Change(a, z)
    BY <1>3, <1>7 DEF EqualizeWithHook
  <2>2. z.nan \subseteq x.nan
    <3>1. r \in Ratio /\ Shaped(y, Nat)
      BY <1>1, <1>4 DEF Sound
    <3> HIDE DEF r
    <3> QED
      BY <1>1, <3>1, NaNOfCopied
  <2> HIDE DEF z
  <2> QED
    BY <1>2, <1>3, <2>1, <2>2, QuietOne
<1>8. ASSUME NEW k \in Coefficients, TemperatureShareHook(a, b, k) PROVE Loses
  <2> DEFINE p == TemperatureShare(x, y, k)
  <2>1. ChangeBoth(a, b, p)
    BY <1>3, <1>8 DEF TemperatureShareHook
  <2>2. p[1].nan \subseteq x.nan /\ p[2].nan \subseteq y.nan
    BY <1>1, NaNOfSharing
  <2> HIDE DEF p
  <2> QED
    BY <1>2, <1>3, <2>1, <2>2, QuietTwo
<1>9. ASSUME NEW r \in Ratio, RemoveRatioHook(a, b, r) PROVE Loses
  <2> DEFINE p == RemoveRatioInto(x, y, r)
  <2>1. ChangeBoth(a, b, p)
    BY <1>3, <1>9 DEF RemoveRatioHook
  <2>2. p[1].nan \subseteq x.nan /\ p[2].nan \subseteq y.nan
    BY <1>1, NaNOfRemove
  <2> HIDE DEF p
  <2> QED
    BY <1>2, <1>3, <2>1, <2>2, QuietTwo
<1>10. ASSUME NEW r \in Ratio, TransferRatioHook(a, b, r) PROVE Loses
  <2> DEFINE p == TransferRatio(x, y, r)
  <2>1. ChangeBoth(a, b, p)
    BY <1>3, <1>10 DEF TransferRatioHook
  <2>2. p[1].nan \subseteq x.nan /\ p[2].nan \subseteq y.nan
    BY <1>1, NaNOfTransfer
  <2> HIDE DEF p
  <2> QED
    BY <1>2, <1>3, <2>1, <2>2, QuietTwo
<1>11. ASSUME NEW r \in Ratios, PlanetShare(a, b, r) PROVE Loses
  <2> DEFINE p == <<ShareRatio(x, y, r), Given(x, y)>>
  <2>1. ChangeBoth(a, b, p) /\ Whole(y, r)
    BY <1>3, <1>11 DEF PlanetShare
  <2>2. ShareRatio(x, y, r).nan \subseteq x.nan \cup y.nan
    BY <1>1, <1>4, <2>1, NaNOfShare
  <2>3. p[1].nan \subseteq x.nan \cup y.nan /\ p[2].nan \subseteq y.nan
    BY <1>1, <2>2, NaNOfMerge
  <2> HIDE DEF p
  <2> QED
    BY <1>3, <2>1, <2>3, LosesFrom
<1>12. ASSUME NEW r \in Ratio, NEW gs \in SUBSET Gases, ScrubIntoHook(a, b, r, gs),
              r # NoNumber \/ x.nan # {} \/ \A h \in Gases : x.moles[h] = 0
       PROVE  Loses
  <2> DEFINE p == TransferGasesTo(x, y, r, gs)
             f == [m \in Mixes |-> IF m = a THEN p[1] ELSE IF m = b THEN p[2] ELSE mix[m]]
  <2>1. ChangeBoth(a, b, p)
    BY <1>3, <1>12 DEF ScrubIntoHook
  <2>2. (r # NoNumber => p[1].nan \subseteq x.nan) /\ p[2].nan \subseteq y.nan
    BY <1>1, NaNOfTransferGases
  <2> HIDE DEF p
  <2>3. CASE r # NoNumber
    BY <1>2, <1>3, <2>1, <2>2, <2>3, QuietTwo
  <2>4. CASE r = NoNumber
    <3>1. mix' = f
      BY <2>1 DEF ChangeBoth
    <3>2. \A m \in Mixes : f[m].nan \subseteq mix[m].nan \/ m = a
      BY <1>3, <2>2
    <3> HIDE DEF f
    <3> QED
      BY <1>3, <1>12, <2>4, <3>1, <3>2 DEF Loses
  <2> QED
    BY <2>3, <2>4
<1>13. ASSUME NEW amt \in Amounts
       PROVE  /\ PartOf(x, amt) \in Ratio
              /\ PartOf(x, amt) = NoNumber => x.nan # {} \/ \A h \in Gases : x.moles[h] = 0
  BY <1>1, <1>4, PartOfIsRatio, NoPart
<1>14. ASSUME NEW amt \in Amounts, RemoveHook(a, b, amt) PROVE Loses
  BY <1>3, <1>9, <1>13, <1>14 DEF RemoveHook
<1>15. ASSUME NEW amt \in Amounts, TransferHook(a, b, amt) PROVE Loses
  BY <1>3, <1>10, <1>13, <1>15 DEF TransferHook
<1>16. ASSUME NEW amt \in Amounts, NEW gs \in SUBSET Gases, RemoveByFlagHook(a, b, amt, gs)
       PROVE  Loses
  <2>1. ScrubIntoHook(a, b, PartOf(x, amt), gs)
    BY <1>3, <1>16 DEF RemoveByFlagHook
  <2> QED
    BY <1>12, <1>13, <2>1
<1>17. ASSUME NEW r \in Ratios, RemoveRatioHook(a, b, r) PROVE Loses
  BY <1>4, <1>9, <1>17
<1>18. ASSUME NEW r \in Ratios, TransferRatioHook(a, b, r) PROVE Loses
  BY <1>4, <1>10, <1>18
<1>19. ASSUME NEW r \in Ratios, NEW gs \in SUBSET Gases, ScrubIntoHook(a, b, r, gs)
       PROVE  Loses
  <2>1. r # NoNumber /\ r \in Ratio
    BY <1>4, ScaledIs
  <2> QED
    BY <1>12, <1>19, <2>1
<1> QED
  BY <1>5, <1>6, <1>7, <1>8, <1>11, <1>14, <1>15, <1>16, <1>17, <1>18, <1>19 DEF Pair

\* equalize_all_hook makes none: what multiply leaves is collected.
LEMMA EqualizeQuiet ==
    ASSUME Inv, NEW S \in SUBSET Mixes, EqualizeAllHook(S)
    PROVE  Quiet
<1>1. mix' = Equalized(S)
  BY DEF EqualizeAllHook
<1>2. ASSUME NEW m \in S PROVE Equalized(S)[m].nan \subseteq mix[m].nan
  <2> DEFINE x == Read(mix[m])
             z == Together(S)
             r == Portion(m, S)
  <2>1. Equalized(S)[m] = Multiply(CopyFromMutable(x, z), r)
    BY DEF Equalized
  <2>2. Sound(x) /\ x.nan = mix[m].nan /\ Shaped(z, Nat)
    BY SoundRead, TogetherShaped DEF Inv
  <2>3. r \in Ratio
    BY TotalVolume, MixturesAssumption DEF Portion, Ratio
  <2> HIDE DEF x, z, r
  <2> QED
    BY <2>1, <2>2, <2>3, NaNOfCopied
<1>3. \A m \in Mixes \ S : Equalized(S)[m] = mix[m]
  BY DEF Equalized
<1> QED
  BY <1>1, <1>2, <1>3 DEF Quiet

\* Whatever is called, with whatever finite amounts and ratios, a mixture loses a gas to
\* NaN only if it takes it from one that has lost it, or has lost another or holds
\* no gas: the division of remove_by_flag (lib.rs:370-371) is the one source of NaN,
\* and only an empty mixture, or one that holds NaN already, divides by it.
THEOREM NaNOnlyFromNothing == Spec => NaNFromNothing
<1>1. Inv /\ [Next]_mix => [Loses]_mix
  <2> SUFFICES ASSUME Inv, Next PROVE Loses
    OBVIOUS
  <2>1. Quiet => Loses
    BY DEF Quiet, Loses
  <2>2. ASSUME NEW a \in Mixes, Single(a) PROVE Loses
    BY <2>1, <2>2, SingleQuiet
  <2>3. ASSUME NEW a \in Mixes, NEW b \in Mixes, Pair(a, b) PROVE Loses
    BY <2>3, PairLoses
  <2>4. ASSUME NEW S \in SUBSET Mixes, EqualizeAllHook(S) PROVE Loses
    BY <2>1, <2>4, EqualizeQuiet
  <2> QED
    BY <2>2, <2>3, <2>4 DEF Next
<1>2. [][Loses]_mix <=> NaNFromNothing
  BY DEF Loses, NaNFromNothing
<1> QED
  BY <1>1, <1>2, Invariant, PTL DEF Spec

-----------------------------------------------------------------------------
(***************************************************************************)
(* What moves gas or heat keeps both.                                       *)
(***************************************************************************)
\* A mixture the heat of which is that of its moles, all of which are numbers.
Plain(x) == Shaped(x, Nat) /\ x.min = 0 /\ x.nan = {} /\ x.temp \in Int

Held(x) == HeatOf(x.moles) * x.temp

LEMMA PlainHeld ==
    ASSUME NEW x, Plain(x)
    PROVE  /\ x.moles \in [Gases -> Nat] /\ HeatOf(x.moles) \in Nat
           /\ SlowHeatCapacity(x) * x.temp = Held(x)
           /\ Held(x) \in Int
<1>1. x.moles \in [Gases -> Nat] /\ x.temp \in Int
  BY DEF Plain, Shaped
<1>2. HeatOf(x.moles) \in Nat
  BY <1>1, HeatOfNat
<1>3. SlowHeatCapacity(x) = HeatOf(x.moles)
  BY SlowIsHeatOf DEF Plain
<1>4. \A i \in Nat, j \in Int : i * j \in Int
  OBVIOUS
<1> QED
  BY <1>1, <1>2, <1>3, <1>4 DEF Held

LEMMA SumOfTwo ==
    ASSUME NEW f, f[1] \in Int, f[2] \in Int
    PROVE  SumFunctionOnSet(f, {1, 2}) = f[1] + f[2]
<1>1. IsFiniteSet({1, 2}) /\ IsFiniteSet({2}) /\ {1, 2} \ {1} = {2} /\ {2} \ {2} = {}
  <2>1. IsFiniteSet({1}) /\ IsFiniteSet({2})
    BY FS_Singleton
  <2>2. IsFiniteSet({1} \cup {2})
    BY <2>1, FS_AddElement
  <2>3. {1} \cup {2} = {1, 2} /\ {1, 2} \ {1} = {2} /\ {2} \ {2} = {}
    OBVIOUS
  <2> QED
    BY <2>1, <2>2, <2>3
<1>2. SumFunctionOnSet(f, {1, 2}) = f[1] + SumFunctionOnSet(f, {2})
  <2>1. \A x \in {1, 2} : f[x] \in Int
    OBVIOUS
  <2> QED
    BY <1>1, <2>1, SumRemove
<1>3. SumFunctionOnSet(f, {2}) = f[2] + SumFunctionOnSet(f, {})
  <2>1. \A x \in {2} : f[x] \in Int
    OBVIOUS
  <2> QED
    BY <1>1, <2>1, SumRemove
<1> QED
  BY <1>2, <1>3, SumEmpty

\* The totals of two mixtures.
LEMMA TotalsOfTwo ==
    ASSUME NEW x, Plain(x), NEW y, Plain(y)
    PROVE  /\ \A g \in Gases : TotalMolesOf(<<x, y>>, g) = x.moles[g] + y.moles[g]
           /\ TotalEnergyOf(<<x, y>>) = Held(x) + Held(y)
<1> DEFINE p == <<x, y>>
           f(g) == [m \in {1, 2} |-> p[m].moles[g]]
           h == [m \in {1, 2} |-> SlowHeatCapacity(p[m]) * p[m].temp]
<1>1. DOMAIN p = {1, 2} /\ p[1] = x /\ p[2] = y
  OBVIOUS
<1> HIDE DEF p
<1>2. ASSUME NEW g \in Gases PROVE TotalMolesOf(p, g) = x.moles[g] + y.moles[g]
  <2>1. f(g)[1] = x.moles[g] /\ f(g)[2] = y.moles[g] /\ x.moles[g] \in Int /\ y.moles[g] \in Int
    BY <1>1, PlainHeld
  <2>2. TotalMolesOf(p, g) = SumFunctionOnSet(f(g), {1, 2})
    BY <1>1 DEF TotalMolesOf, SumFunction
  <2> HIDE DEF f
  <2> QED
    BY <2>1, <2>2, SumOfTwo
<1>3. TotalEnergyOf(p) = Held(x) + Held(y)
  <2>1. h[1] = Held(x) /\ h[2] = Held(y) /\ Held(x) \in Int /\ Held(y) \in Int
    BY <1>1, PlainHeld
  <2>2. TotalEnergyOf(p) = SumFunctionOnSet(h, {1, 2})
    BY <1>1 DEF TotalEnergyOf, SumFunction
  <2> HIDE DEF h
  <2> QED
    BY <2>1, <2>2, SumOfTwo
<1> QED
  BY <1>2, <1>3 DEF p

LEMMA PairConserves ==
    ASSUME NEW x, Plain(x), NEW y, Plain(y), NEW u, NEW v,
           u.temp # Broken /\ v.temp # Broken =>
              /\ Plain(u) /\ Plain(v)
              /\ \A g \in Gases : u.moles[g] + v.moles[g] = x.moles[g] + y.moles[g]
              /\ Held(u) + Held(v) = Held(x) + Held(y)
    PROVE  Conserves(<<x, y>>, <<u, v>>)
<1>1. SUFFICES ASSUME u.temp # Broken, v.temp # Broken
               PROVE  /\ u.nan = {} /\ v.nan = {}
                      /\ \A g \in Gases : TotalMolesOf(<<u, v>>, g) = TotalMolesOf(<<x, y>>, g)
                      /\ TotalEnergyOf(<<u, v>>) = TotalEnergyOf(<<x, y>>)
  <2>1. DOMAIN <<u, v>> = {1, 2} /\ <<u, v>>[1] = u /\ <<u, v>>[2] = v
    OBVIOUS
  <2> QED
    BY <2>1 DEF Conserves
<1>2. Plain(u) /\ Plain(v) /\ u.nan = {} /\ v.nan = {}
  BY <1>1 DEF Plain
<1> QED
  BY <1>1, <1>2, TotalsOfTwo

LEMMA Exact ==
    ASSUME NEW n \in Nat, NEW d \in Nat \ {0}, n % d = 0
    PROVE  n \div d \in Int /\ d * (n \div d) = n
OBVIOUS

LEMMA Cancelled ==
    ASSUME NEW d \in Nat \ {0}, NEW f \in Int, NEW h \in Int, d * f = d * h \/ d * f = h * d
    PROVE  f = h
<1>1. \A o \in Nat \ {0}, l \in Nat \ {0} : o * l \in Nat \ {0}
  OBVIOUS
<1>2. d * (f - h) = d * f - d * h /\ d * (h - f) = d * h - d * f /\ h * d = d * h
      /\ d * f \in Int /\ d * h \in Int
  OBVIOUS
<1>3. ~(f - h \in Nat \ {0}) /\ ~(h - f \in Nat \ {0})
  BY <1>1, <1>2
<1> QED
  BY <1>3

\* None of two bodies has no temperature or less: together they are without heat
\* only if they have no heat capacity.
LEMMA HeatOfTwo ==
    ASSUME NEW c \in Nat, NEW e \in Nat, NEW s \in Nat \ {0}, NEW t \in Nat \ {0}
    PROVE  /\ c * s + e * t \in Nat /\ c + e \in Nat /\ c + e <= c * s + e * t
           /\ c + e = 0 => c * s + e * t = 0
<1>1. c * s \in Nat /\ e * t \in Nat /\ c * s >= c /\ e * t >= e
  OBVIOUS
<1>2. 0 * s = 0 /\ 0 * t = 0
  OBVIOUS
<1> QED
  BY <1>1, <1>2

\* A temperature that is the heat by the heat capacity, where set_temperature
\* does nothing if there is no heat.
LEMMA Weighed ==
    ASSUME NEW x, Shaped(x, Nat), ~x.immutable, x.temp \in Int, NEW n \in Nat, NEW d \in Nat,
           d <= n, d = 0 => n = 0, SetTemperature(x, n, d).temp # Broken
    PROVE  SetTemperature(x, n, d).temp \in Int /\ d * SetTemperature(x, n, d).temp = n
<1>1. CASE d = 0
  <2>1. 0 * x.temp = 0
    OBVIOUS
  <2>2. SetTemperature(x, n, d) = x
    BY <1>1 DEF SetTemperature
  <2> QED
    BY <1>1, <2>1, <2>2
<1>2. CASE d # 0
  <2>1. SetTemperature(x, n, d) = [x EXCEPT !.temp = Quotient(n, d)]
    BY <1>2 DEF SetTemperature
  <2>2. SetTemperature(x, n, d).temp = Quotient(n, d)
    BY <2>1 DEF Shaped
  <2>3. n % d = 0 /\ Quotient(n, d) = n \div d
    BY <2>2 DEF Quotient
  <2>4. n \div d \in Int /\ d * (n \div d) = n
    <3>1. n \in Nat /\ d \in Nat \ {0} /\ n % d = 0
      BY <1>2, <2>3
    <3> QED
      BY <3>1, Exact, Zenon
  <2> QED
    BY <2>2, <2>3, <2>4
<1> QED
  BY <1>1, <1>2

LEMMA SoundIsPlain ==
    ASSUME NEW x, Sound(x), Minima \subseteq {0}, x.temp \in Int, x.nan = {}
    PROVE  Plain(x) /\ HeatCapacity(x) = HeatOf(x.moles)
BY CapacityIsHeatOf DEF Plain, Sound, CacheRight

LEMMA MergeKeeps ==
    ASSUME NEW x, Sound(x), NEW y, Sound(y), Minima \subseteq {0}, ~x.immutable,
           x.nan = {}, y.nan = {},
           x.temp \in Nat \ {0}, y.temp \in Nat \ {0}, Merge(x, y).temp # Broken
    PROVE  /\ Plain(Merge(x, y))
           /\ \A g \in Gases : Merge(x, y).moles[g] = x.moles[g] + y.moles[g]
           /\ Held(Merge(x, y)) = Held(x) + Held(y)
<1> DEFINE c == HeatCapacity(x)
           e == HeatCapacity(y)
           d == c + e
           n == Energy(x) + Energy(y)
           m == [g \in Gases |-> x.moles[g] + y.moles[g]]
           w == Plus(x, y.moles, {})
           z == SetTemperature(w, n, d)
           v == [z EXCEPT !.cached = d]
<1>1. x.moles \in [Gases -> Nat] /\ y.moles \in [Gases -> Nat] /\ Shaped(x, Nat)
  BY SoundShape DEF Sound
<1>2. c \in Nat /\ e \in Nat /\ c = HeatOf(x.moles) /\ e = HeatOf(y.moles) /\ x.min = 0
  BY CapacityIsHeatOf, SoundIsPlain DEF Plain
<1>3. Merge(x, y) = v
  BY DEF Merge
<1>4. n = c * x.temp + e * y.temp
  BY DEF Energy
<1>5. m \in [Gases -> Nat] /\ \A g \in Gases : m[g] = x.moles[g] + y.moles[g]
  BY <1>1
<1>6. HeatOf(m) = d
  BY <1>1, <1>2, HeatOfPlus
<1> HIDE DEF c, e, d, n, m
<1>7. Shaped(w, Nat) /\ ~w.immutable /\ w.temp \in Int /\ w.moles = m /\ w.min = 0 /\ w.nan = {}
  <2>1. y.moles \in [Gases -> Int] /\ {} \in SUBSET Gases
    BY <1>1
  <2>2. Shaped(w, Nat) /\ w.immutable = x.immutable /\ w.temp = x.temp /\ w.min = x.min
        /\ w.nan = {}
    BY <1>1, <2>1, Added
  <2>3. w.moles = m
    BY <1>1, AddedNumbers DEF m
  <2> HIDE DEF w
  <2> QED
    BY <1>2, <2>2, <2>3
<1> HIDE DEF w
<1>8. Shaped(z, Nat) /\ z.moles = m /\ z.min = 0 /\ z.nan = {}
  <2>1. z = w \/ z = [w EXCEPT !.temp = Quotient(n, d)]
    BY DEF SetTemperature
  <2> HIDE DEF z
  <2> QED
    BY <1>7, <2>1 DEF Shaped
<1>9. v.temp = z.temp /\ v.moles = m /\ v.min = 0 /\ v.nan = {}
  <2> HIDE DEF z
  <2> QED
    BY <1>8 DEF Shaped
<1>10. z.temp # Broken
  BY <1>3, <1>9
<1>11. n \in Nat /\ d \in Nat /\ d <= n /\ (d = 0 => n = 0)
  BY <1>2, <1>4, HeatOfTwo DEF d
<1>12. z.temp \in Int /\ d * z.temp = n
  BY <1>7, <1>10, <1>11, Weighed
<1>13. Shaped(v, Nat)
  <2> HIDE DEF z
  <2> QED
    BY <1>8, <1>11 DEF Shaped
<1> HIDE DEF v, z
<1>14. Plain(v)
  BY <1>9, <1>12, <1>13 DEF Plain
<1>15. Held(v) = n
  BY <1>6, <1>9, <1>12 DEF Held
<1>16. Held(x) + Held(y) = n
  BY <1>2, <1>4 DEF Held
<1> QED
  BY <1>3, <1>5, <1>9, <1>14, <1>15, <1>16

\* What multiply makes of a mutable mixture, for a ratio that is not negative.
LEMMA Multiplied ==
    ASSUME NEW x, Shaped(x, Nat), ~x.immutable, x.nan = {},
           NEW r \in Int \X (Nat \ {0}), r[1] >= 0
    PROVE  /\ \A g \in Gases : Multiply(x, r).moles[g] = Scaled(x.moles[g], r)
           /\ Multiply(x, r).moles = [g \in Gases |-> Scaled(x.moles[g], r)]
           /\ Multiply(x, r).temp = x.temp /\ Multiply(x, r).nan = {}
<1> DEFINE a == [g \in Gases |-> Scaled(x.moles[g], r)]
           w == WithMoles(x, a, {})
           y == Invalidate(w)
           z == GarbageCollect(y)
<1>1. Multiply(x, r) = z
  BY DEF Multiply
<1>2. r[1] \in Nat /\ r[2] \in Nat \ {0} /\ x.moles \in [Gases -> Nat] /\ Shaped(x, Int)
  BY NatIsInt DEF Shaped
<1>3. ASSUME NEW i \in Nat PROVE Scaled(i, r) \in Nat
  <2>1. i * r[1] \in Nat
    BY <1>2
  <2> QED
    BY <1>2, <2>1, ScaledIs
<1>4. a \in [Gases -> Nat] /\ {} \in SUBSET Gases
  BY <1>2, <1>3
<1>5. a = [g \in Gases |-> Scaled(x.moles[g], r)] /\ \A g \in Gases : a[g] = Scaled(x.moles[g], r)
  OBVIOUS
<1> HIDE DEF a
<1>6. Shaped(w, Nat) /\ w.moles = a /\ w.temp = x.temp
  BY <1>2, <1>4, OtherMoles
<1> HIDE DEF w
<1>7. Shaped(y, Int) /\ y.moles = a /\ y.temp = x.temp
  BY <1>6, Invalidated, NatIsInt
<1> HIDE DEF y
<1>8. /\ z.moles = [g \in Gases |-> IF y.moles[g] > 0 THEN y.moles[g] ELSE 0]
      /\ z.nan = {} /\ z.temp = y.temp
  BY <1>7, Collected
<1> HIDE DEF z
<1>9. z.moles = a
  BY <1>4, <1>7, <1>8
<1> QED
  BY <1>1, <1>5, <1>7, <1>8, <1>9

\* A part and the rest of it.
LEMMA PartAndRest ==
    ASSUME NEW i \in Nat, NEW c \in Int \X (Nat \ {0}), c[1] \in 0..c[2], (i * c[1]) % c[2] = 0
    PROVE  Scaled(i, c) + Scaled(i, Rest(c)) = i
<1> DEFINE k == c[1]
           d == c[2]
           j == (i * k) \div d
<1>1. k \in Nat /\ d \in Nat \ {0} /\ k <= d
  OBVIOUS
<1>2. Scaled(i, c) = j /\ Scaled(i, Rest(c)) = (i * (d - k)) \div d
  <2>1. Rest(c) \in Int \X (Nat \ {0}) /\ Rest(c)[1] = d - k /\ Rest(c)[2] = d
    BY <1>1 DEF Rest
  <2>2. Scaled(i, Rest(c)) = (i * Rest(c)[1]) \div Rest(c)[2]
    BY <2>1, ScaledIs, Zenon
  <2>3. Scaled(i, c) = (i * c[1]) \div c[2]
    BY ScaledIs
  <2> QED
    BY <2>1, <2>2, <2>3
<1>3. (i * k) % d = 0
  OBVIOUS
<1> HIDE DEF k, d
<1>4. i * k \in Nat
  BY <1>1
<1>5. j \in Int /\ d * j = i * k
  BY <1>1, <1>3, <1>4, Exact, Zenon
<1> HIDE DEF j
<1>6. i * (d - k) = i * d - i * k /\ i * d = d * i /\ d * (i - j) = d * i - d * j
  BY <1>1, <1>5
<1>7. i * (d - k) = d * (i - j)
  BY <1>4, <1>5, <1>6
<1>8. \A m \in Int : (d * m) \div d = m
  BY <1>1
<1>9. i - j \in Int
  BY <1>5
<1>10. (i * (d - k)) \div d = i - j
  BY <1>7, <1>8, <1>9
<1> QED
  BY <1>2, <1>5, <1>10

LEMMA RemoveKeeps ==
    ASSUME NEW x, Sound(x), Minima \subseteq {0}, ~x.immutable, x.nan = {}, x.temp \in Nat \ {0},
           NEW r \in Int \X (Nat \ {0}), Whole(x, r), NEW p, p = RemoveRatio(x, r)
    PROVE  /\ Plain(p[1]) /\ Plain(p[2]) /\ p[2].temp \in Nat \ {0}
           /\ \A g \in Gases : p[1].moles[g] + p[2].moles[g] = x.moles[g]
           /\ Held(p[1]) + Held(p[2]) = Held(x)
<1>1. x.moles \in [Gases -> Nat] /\ Shaped(x, Nat) /\ Plain(x) /\ TCMB \in Nat \ {0}
      /\ HeatOf(x.moles) \in Nat
  BY SoundShape, SoundIsPlain, PlainHeld, MixturesAssumption DEF Sound
<1> DEFINE c == Clamp(r)
           i == CopyFromMutable(Empty, x)
<1>2. p = IF r[1] <= 0 THEN <<x, Empty>> ELSE <<Multiply(x, Rest(c)), Multiply(i, c)>>
  BY ScaledIs DEF RemoveRatio, RemoveRatioInto
<1>3. CASE r[1] <= 0
  <2> DEFINE o == [g \in Gases |-> 0]
  <2>1. p[1] = x /\ p[2] = Empty
    BY <1>2, <1>3
  <2>2. Empty.moles = o /\ Empty.temp = TCMB /\ Empty.min = 0 /\ Empty.nan = {}
        /\ Shaped(Empty, Nat)
    BY SoundEmpty DEF Empty, Sound
  <2>3. Plain(Empty)
    BY <1>1, <2>2 DEF Plain
  <2>4. HeatOf(o) = 0
    <3>1. o \in [Gases -> Nat]
      OBVIOUS
    <3>2. [g \in Gases |-> o[g] + o[g]] = o
      OBVIOUS
    <3> HIDE DEF o
    <3>3. HeatOf(o) = HeatOf(o) + HeatOf(o) /\ HeatOf(o) \in Nat
      BY <3>1, <3>2, HeatOfPlus, HeatOfNat
    <3> QED
      BY <3>3
  <2>5. Held(Empty) = 0
    BY <1>1, <2>2, <2>4 DEF Held
  <2>6. \A g \in Gases : x.moles[g] + Empty.moles[g] = x.moles[g]
    BY <1>1, <2>2
  <2>7. Held(x) \in Int
    BY <1>1, PlainHeld
  <2> QED
    BY <1>1, <2>1, <2>2, <2>3, <2>5, <2>6, <2>7
<1>4. CASE ~(r[1] <= 0)
  <2> DEFINE u == Multiply(x, Rest(c))
             v == Multiply(i, c)
  <2>1. p[1] = u /\ p[2] = v
    BY <1>2, <1>4
  <2>2. c \in Int \X (Nat \ {0}) /\ c[1] \in 0..c[2] /\ Rest(c) \in Int \X (Nat \ {0})
        /\ \A g \in Gases : (x.moles[g] * c[1]) % c[2] = 0
    BY <1>1, Clamped, WholeClamped
  <2> HIDE DEF c
  <2>3. c[1] >= 0 /\ Rest(c)[1] >= 0
    BY <2>2 DEF Rest
  <2>4. Shaped(i, Nat) /\ ~i.immutable /\ i.moles = x.moles /\ i.temp = x.temp /\ i.nan = {}
    <3>1. i = [moles |-> x.moles, nan |-> {}, temp |-> x.temp, min |-> 0, cached |-> x.cached,
               immutable |-> FALSE]
      <4> DEFINE o == Empty
      <4>1. Shaped(o, Nat) /\ o.min = 0 /\ o.immutable = FALSE
        BY SoundEmpty DEF Sound, Empty
      <4> HIDE DEF o
      <4>2. CopyFromMutable(o, x)
              = [moles |-> x.moles, nan |-> x.nan, temp |-> x.temp, min |-> o.min,
                 cached |-> x.cached, immutable |-> o.immutable]
        BY <4>1, CopiedIs DEF CopyFromMutable
      <4> QED
        BY <4>1, <4>2 DEF o
    <3> HIDE DEF i
    <3> QED
      BY <1>1, <3>1 DEF Shaped
  <2>5. Sound(i)
    BY SoundEmpty, SoundCopy
  <2> HIDE DEF i
  <2>6. u.temp = x.temp /\ u.nan = {} /\ \A g \in Gases : u.moles[g] = Scaled(x.moles[g], Rest(c))
    BY <1>1, <2>2, <2>3, Multiplied
  <2>7. v.temp = x.temp /\ v.nan = {} /\ \A g \in Gases : v.moles[g] = Scaled(x.moles[g], c)
    <3>1. v.temp = i.temp /\ v.nan = {} /\ \A g \in Gases : v.moles[g] = Scaled(i.moles[g], c)
      BY <2>2, <2>3, <2>4, Multiplied
    <3> HIDE DEF v
    <3> QED
      BY <2>4, <3>1
  <2>8. Sound(u) /\ Sound(v)
    <3>1. Minima \subseteq {0} => x.min = 0 /\ i.min = 0
      BY <2>5 DEF Sound, CacheRight
    <3>2. c \in Ratio /\ Rest(c) \in Ratio
      BY <2>2 DEF Ratio
    <3> QED
      BY <1>1, <3>2, <2>4, <2>5, <3>1, SoundMultiply
  <2> HIDE DEF u, v
  <2>9. Plain(u) /\ Plain(v)
    BY <2>6, <2>7, <2>8, SoundIsPlain
  <2>10. \A g \in Gases : u.moles[g] + v.moles[g] = x.moles[g]
    <3>1. ASSUME NEW g \in Gases PROVE u.moles[g] + v.moles[g] = x.moles[g]
      <4>1. x.moles[g] \in Nat /\ (x.moles[g] * c[1]) % c[2] = 0
        BY <1>1, <2>2
      <4>2. Scaled(x.moles[g], c) + Scaled(x.moles[g], Rest(c)) = x.moles[g]
        BY <2>2, <4>1, PartAndRest
      <4>3. u.moles[g] \in Nat /\ v.moles[g] \in Nat
        BY <2>9, PlainHeld
      <4> QED
        BY <2>6, <2>7, <4>2, <4>3
    <3> QED
      BY <3>1
  <2>11. HeatOf(u.moles) + HeatOf(v.moles) = HeatOf(x.moles)
    <3> DEFINE a == u.moles
               b == v.moles
               m == [g \in Gases |-> a[g] + b[g]]
    <3>1. a \in [Gases -> Nat] /\ b \in [Gases -> Nat]
      BY <2>9, PlainHeld
    <3>2. m = x.moles
      BY <1>1, <2>10
    <3> HIDE DEF a, b
    <3>3. HeatOf(m) = HeatOf(a) + HeatOf(b)
      BY <3>1, HeatOfPlus
    <3> QED
      BY <3>2, <3>3 DEF a, b
  <2>12. Held(u) + Held(v) = Held(x)
    <3>1. HeatOf(u.moles) \in Nat /\ HeatOf(v.moles) \in Nat
      BY <2>9, PlainHeld
    <3>2. \A k \in Nat, l \in Nat, t \in Nat : (k + l) * t = k * t + l * t
      OBVIOUS
    <3> QED
      BY <2>6, <2>7, <2>11, <3>1, <3>2 DEF Held
  <2> QED
    BY <2>1, <2>7, <2>9, <2>10, <2>12
<1> QED
  BY <1>3, <1>4

\* transfer_ratio_hook and transfer_hook.
LEMMA TransferRatioConserves ==
    ASSUME NEW x, Sound(x), NEW y, Sound(y), Minima \subseteq {0},
           ~x.immutable, ~y.immutable, x.nan = {}, y.nan = {},
           x.temp \in Nat \ {0}, y.temp \in Nat \ {0},
           NEW r \in Int \X (Nat \ {0}), Whole(x, r)
    PROVE  Conserves(<<x, y>>, TransferRatio(x, y, r))
<1> DEFINE p == RemoveRatio(x, r)
           z == Merge(y, p[2])
<1>1. TransferRatio(x, y, r) = <<p[1], z>>
  BY DEF TransferRatio
<1>2. /\ Plain(p[1]) /\ Plain(p[2]) /\ p[2].temp \in Nat \ {0}
      /\ \A g \in Gases : p[1].moles[g] + p[2].moles[g] = x.moles[g]
      /\ Held(p[1]) + Held(p[2]) = Held(x)
  BY RemoveKeeps
<1>3. Sound(p[2]) /\ p[2].nan = {}
  <2>1. r \in Ratio
    BY DEF Ratio
  <2> QED
    BY <1>2, <2>1, SoundEmpty, SoundRemove DEF RemoveRatio, Plain
<1> HIDE DEF p
<1>4. z.temp # Broken =>
        /\ Plain(z)
        /\ \A g \in Gases : z.moles[g] = y.moles[g] + p[2].moles[g]
        /\ Held(z) = Held(y) + Held(p[2])
  BY <1>2, <1>3, MergeKeeps
<1>5. Plain(x) /\ Plain(y)
  BY SoundIsPlain
<1>6. /\ \A g \in Gases : /\ x.moles[g] \in Int /\ y.moles[g] \in Int
                         /\ p[1].moles[g] \in Int /\ p[2].moles[g] \in Int
      /\ Held(x) \in Int /\ Held(y) \in Int /\ Held(p[1]) \in Int /\ Held(p[2]) \in Int
  BY <1>2, <1>5, PlainHeld
<1> HIDE DEF z
<1>7. z.temp # Broken =>
        /\ \A g \in Gases : p[1].moles[g] + z.moles[g] = x.moles[g] + y.moles[g]
        /\ Held(p[1]) + Held(z) = Held(x) + Held(y)
  BY <1>2, <1>4, <1>6
<1>8. Conserves(<<x, y>>, <<p[1], z>>)
  BY <1>2, <1>4, <1>5, <1>7, PairConserves
<1> QED
  BY <1>1, <1>8

\* What a read heat capacity leaves as it was.
LEMMA ReadKeeps ==
    ASSUME NEW x, Shaped(x, Nat)
    PROVE  /\ Read(x).moles = x.moles /\ Read(x).temp = x.temp
           /\ Read(x).immutable = x.immutable
<1> DEFINE c == HeatCapacity(x)
<1>1. Read(x) = [x EXCEPT !.cached = c]
  BY DEF Read
<1> HIDE DEF c
<1> QED
  BY <1>1 DEF Shaped

\* transfer_gases_to: what is taken is given, at the temperature of the giver.
LEMMA TransferGasesConserves ==
    ASSUME NEW x, Sound(x), NEW y, Sound(y), Minima \subseteq {0},
           ~x.immutable, ~y.immutable, x.nan = {}, y.nan = {},
           x.temp \in Nat \ {0}, y.temp \in Nat \ {0},
           NEW r \in Int \X (Nat \ {0}), NEW gs \in SUBSET Gases
    PROVE  Conserves(<<x, y>>, TransferGasesTo(x, y, r, gs))
<1> DEFINE c     == Clamp(r)
           delta == [g \in Gases |-> IF g \in gs THEN Scaled(x.moles[g], c) ELSE 0]
           a     == [g \in Gases |-> x.moles[g] - delta[g]]
           b     == [g \in Gases |-> y.moles[g] + delta[g]]
           lost  == IF c = NoNumber THEN gs ELSE gs \cap x.nan
           least == [g \in Gases |-> 0 - delta[g]]
           taken == Plus(x, least, {})
           given == Plus(y, delta, {})
           w     == Invalidate(given)
           z     == Read(w)
           n     == Energy(y) + HeatOf(delta) * x.temp
           d     == HeatCapacity(z)
           u     == Invalidate(taken)
           v     == SetTemperature(z, n, d)
<1>1. TransferGasesTo(x, y, r, gs) = <<u, v>>
  <2>1. lost = {}
    <3>1. c \in Int \X (Nat \ {0})
      BY Clamped
    <3> HIDE DEF c
    <3>2. c # NoNumber
      BY <3>1, ScaledIs
    <3> QED
      BY <3>2
  <2>2. TransferGasesTo(x, y, r, gs)
          = <<Invalidate(Plus(x, least, lost)), IF lost # {} THEN z ELSE v>>
    BY DEF TransferGasesTo
  <2> HIDE DEF lost, v, z, least
  <2> QED
    BY <2>1, <2>2
<1>2. /\ x.moles \in [Gases -> Nat] /\ y.moles \in [Gases -> Nat]
      /\ Shaped(x, Nat) /\ Shaped(y, Nat) /\ Shaped(x, Int) /\ Shaped(y, Int)
      /\ (Minima \subseteq {0} => x.min = 0) /\ (Minima \subseteq {0} => y.min = 0)
      /\ Plain(x) /\ Plain(y) /\ HeatCapacity(y) = HeatOf(y.moles)
  BY SoundShape, SoundIsPlain DEF Sound
<1>3. \A g \in Gases : x.moles[g] \in Nat /\ y.moles[g] \in Nat /\ delta[g] \in 0..x.moles[g]
  <2>1. c \in Int \X (Nat \ {0}) /\ c[1] \in 0..c[2]
    BY Clamped
  <2> HIDE DEF c
  <2>2. \A i \in Nat : Scaled(i, c) \in 0..i
    BY <2>1, ScaledWithin
  <2> QED
    BY <1>2, <2>2
<1>4. delta \in [Gases -> Nat]
  <2>1. delta = [g \in Gases |-> delta[g]]
    OBVIOUS
  <2>2. \A g \in Gases : delta[g] \in Nat
    BY <1>3
  <2> HIDE DEF delta
  <2> QED
    BY <2>1, <2>2
<1> HIDE DEF delta
<1>5. least \in [Gases -> Int] /\ \A g \in Gases : least[g] = 0 - delta[g]
  BY <1>4
<1>6. /\ a \in [Gases -> Nat] /\ b \in [Gases -> Nat]
      /\ \A g \in Gases : a[g] + delta[g] = x.moles[g]
      /\ \A g \in Gases : b[g] = y.moles[g] + delta[g]
  BY <1>3
<1>7. HeatOf(b) = HeatOf(y.moles) + HeatOf(delta)
  BY <1>2, <1>4, HeatOfPlus
<1>8. taken.moles = a /\ taken.nan = {} /\ taken.temp = x.temp /\ taken.min = x.min
       /\ Shaped(taken, Nat)
  <2> HIDE DEF least
  <2>1. {} \in SUBSET Gases
    OBVIOUS
  <2>2. /\ \A g \in Gases : taken.moles[g] = IF g \in {} THEN 0 ELSE x.moles[g] + least[g]
        /\ taken.nan = {} /\ taken.temp = x.temp /\ taken.min = x.min /\ Shaped(taken, Int)
    BY <1>5, <2>1, Added
  <2> HIDE DEF taken
  <2>3. taken.moles \in [Gases -> Int]
    BY <2>2 DEF Shaped
  <2>4. taken.moles = a
    BY <1>3, <1>5, <2>2, <2>3
  <2>5. taken.moles \in [Gases -> Nat]
    BY <1>6, <2>4
  <2> HIDE DEF a
  <2>6. Shaped(taken, Nat)
    BY <2>2, <2>5 DEF Shaped
  <2> QED
    BY <2>2, <2>4, <2>6
<1>9. given.moles = b /\ given.nan = {} /\ given.temp = y.temp /\ given.min = y.min
       /\ given.immutable = y.immutable /\ Shaped(given, Nat)
  <2>1. {} \in SUBSET Gases /\ delta \in [Gases -> Int]
    BY <1>4
  <2>2. given.nan = {} /\ given.temp = y.temp /\ given.min = y.min
        /\ given.immutable = y.immutable /\ Shaped(given, Nat)
    BY <1>4, <2>1, Added
  <2>3. given.moles = b
    BY <1>4, AddedNumbers
  <2> QED
    BY <2>2, <2>3
<1> HIDE DEF a, b, least, taken, given
<1>10. HeatOf(x.moles) = HeatOf(a) + HeatOf(delta)
  <2> DEFINE m == [g \in Gases |-> a[g] + delta[g]]
  <2>1. m = x.moles
    BY <1>2, <1>6
  <2>2. HeatOf(m) = HeatOf(a) + HeatOf(delta)
    BY <1>4, <1>6, HeatOfPlus
  <2> HIDE DEF m
  <2> QED
    BY <2>1, <2>2
<1>11. Sound(u) /\ Sound(w)
  BY <1>2, <1>8, <1>9, SoundInvalidated
<1>12. u.moles = a /\ u.temp = x.temp /\ u.nan = {}
  BY <1>8, Invalidated
<1>13. w.moles = b /\ w.temp = y.temp /\ w.immutable = y.immutable /\ w.nan = {}
  BY <1>9, Invalidated
<1> HIDE DEF u, w
<1>14. Sound(z) /\ z.moles = b /\ z.temp = y.temp /\ z.immutable = y.immutable /\ z.nan = {}
  BY <1>11, <1>13, SoundRead, ReadKeeps DEF Sound
<1> HIDE DEF z
<1>15. Plain(z) /\ d = HeatOf(b)
  BY <1>14, SoundIsPlain
<1> HIDE DEF d
<1>16. /\ HeatOf(x.moles) \in Nat /\ HeatOf(y.moles) \in Nat /\ HeatOf(delta) \in Nat
       /\ HeatOf(a) \in Nat
  BY <1>2, <1>4, <1>6, HeatOfNat
<1>17. n = HeatOf(y.moles) * y.temp + HeatOf(delta) * x.temp
  BY <1>2 DEF Energy
<1> HIDE DEF n
<1>18. n \in Nat /\ d \in Nat /\ d <= n /\ (d = 0 => n = 0)
  <2>1. ASSUME NEW i \in Nat, NEW j \in Nat, NEW s \in Nat \ {0}, NEW t \in Nat \ {0},
               d = i + j, n = i * s + j * t
        PROVE  n \in Nat /\ d \in Nat /\ d <= n /\ (d = 0 => n = 0)
    BY <2>1, HeatOfTwo
  <2>2. d = HeatOf(y.moles) + HeatOf(delta)
    BY <1>7, <1>15
  <2> QED
    BY <1>16, <1>17, <2>1, <2>2
<1>19. v.temp # Broken => v.temp \in Int /\ d * v.temp = n
  BY <1>14, <1>18, Weighed DEF Sound
<1>20. Sound(v) /\ v.moles = b /\ v.nan = {}
  <2>1. v = z \/ v = [z EXCEPT !.temp = Quotient(n, d)]
    BY DEF SetTemperature
  <2>2. Sound(v)
    BY <1>14, SoundTemperature
  <2> HIDE DEF v
  <2> QED
    BY <1>14, <2>1, <2>2 DEF Sound, Shaped
<1> HIDE DEF v
<1>21. Plain(u)
  BY <1>11, <1>12, SoundIsPlain
<1>22. v.temp # Broken => Plain(v)
  BY <1>19, <1>20, SoundIsPlain
<1>23. \A g \in Gases : u.moles[g] + v.moles[g] = x.moles[g] + y.moles[g]
  <2>1. \A g \in Gases : a[g] \in Nat /\ delta[g] \in Nat
    BY <1>4, <1>6
  <2> QED
    BY <1>3, <1>6, <1>12, <1>20, <2>1
<1>24. v.temp # Broken => Held(u) + Held(v) = Held(x) + Held(y)
  <2>1. \A i \in Nat, j \in Nat, t \in Nat : (i + j) * t = i * t + j * t
    OBVIOUS
  <2>2. v.temp # Broken => Held(v) = n
    BY <1>15, <1>19, <1>20 DEF Held
  <2>3. Held(u) = HeatOf(a) * x.temp /\ Held(x) = (HeatOf(a) + HeatOf(delta)) * x.temp
        /\ Held(y) = HeatOf(y.moles) * y.temp
    BY <1>10, <1>12 DEF Held
  <2>4. Held(x) = HeatOf(a) * x.temp + HeatOf(delta) * x.temp
    BY <1>16, <2>1, <2>3
  <2>5. HeatOf(a) * x.temp \in Int /\ HeatOf(delta) * x.temp \in Int /\ HeatOf(y.moles) * y.temp \in Int
    BY <1>16
  <2> QED
    BY <1>17, <2>2, <2>3, <2>4, <2>5
<1>25. Conserves(<<x, y>>, <<u, v>>)
  BY <1>2, <1>21, <1>22, <1>23, <1>24, PairConserves
<1> QED
  BY <1>1, <1>25

\* Heat that goes by a coefficient of at most one from one body to another does
\* not cool either below the colder of the two.
LEMMA NoColder ==
    ASSUME NEW c \in Nat, NEW e \in Nat, NEW k \in Nat, NEW l \in Nat, k <= l,
           NEW s \in Int, NEW t \in Int, NEW b \in Nat, b <= s, b <= t
    PROVE  b * (l * (c + e)) <= s * (l * (c + e)) - k * (s - t) * e
<1> DEFINE p == s - b
           q == t - b
<1>1. p \in Nat /\ q \in Nat /\ s = b + p /\ t = b + q
  OBVIOUS
<1> HIDE DEF p, q
<1>2. (b + p) * (l * (c + e)) = b * (l * (c + e)) + p * (l * (c + e))
  BY <1>1
<1>3. p * (l * (c + e)) = p * (l * c) + (p * e) * l
  BY <1>1
<1>4. k * (p - q) * e = (p * e) * k - (q * e) * k
  BY <1>1
<1>5. s - t = p - q
  BY <1>1
<1>6. p * (l * c) \in Nat /\ (q * e) * k \in Nat /\ p * e \in Nat
  BY <1>1
<1>7. \A i \in Nat : i * k <= i * l /\ i * k \in Nat /\ i * l \in Nat
  OBVIOUS
<1>8. (p * e) * k <= (p * e) * l /\ (p * e) * k \in Nat /\ (p * e) * l \in Nat
  BY <1>6, <1>7
<1>9. b * (l * (c + e)) \in Nat
  OBVIOUS
<1> DEFINE big == b * (l * (c + e))
           i   == p * (l * c)
           j   == (p * e) * l
           m   == (p * e) * k
           o   == (q * e) * k
<1>10. s * (l * (c + e)) = big + i + j /\ k * (s - t) * e = m - o
  BY <1>1, <1>2, <1>3, <1>4, <1>5, <1>6, <1>8, <1>9
<1>11. big \in Nat /\ i \in Nat /\ j \in Nat /\ m \in Nat /\ o \in Nat /\ m <= j
  BY <1>6, <1>8, <1>9
<1> HIDE DEF big, i, j, m, o
<1>12. big <= big + i + j - (m - o)
  BY <1>11
<1> QED
  BY <1>10, <1>12 DEF big

\* What one body loses the other gains.
LEMMA HeatExchanged ==
    ASSUME NEW c \in Nat, NEW e \in Nat, NEW k \in Nat, NEW l \in Nat,
           NEW s \in Int, NEW t \in Int
    PROVE  c * (s * (l * (c + e)) - k * (s - t) * e) + e * (t * (l * (e + c)) - k * (t - s) * c)
             = (l * (c + e)) * (c * s + e * t)
OBVIOUS

LEMMA ConductedKeeps ==
    ASSUME NEW x, Plain(x), ~x.immutable, TCMB <= x.temp, NEW c \in Nat \ {0}, HeatCapacity(x) = c,
           NEW temp \in Int, TCMB <= temp, NEW cap \in Nat \ {0},
           NEW k \in Nat \X (Nat \ {0}), k[1] <= k[2],
           NEW v, v = Conducted(x, k, temp, cap), v.temp # Broken
    PROVE  /\ Plain(v) /\ v.moles = x.moles
           /\ (k[2] * (c + cap)) * v.temp
                = x.temp * (k[2] * (c + cap)) - k[1] * (x.temp - temp) * cap
<1> DEFINE i == k[1]
           j == k[2]
           d == j * (c + cap)
           n == x.temp * d - i * (x.temp - temp) * cap
<1>1. i \in Nat /\ j \in Nat \ {0} /\ i <= j /\ x.temp \in Int /\ Shaped(x, Nat) /\ x.min = 0
      /\ TCMB \in Nat
  BY MixturesAssumption DEF Plain
<1>2. v = [x EXCEPT !.temp = IF n < TCMB * d THEN TCMB ELSE Quotient(n, d)]
  BY DEF Conducted
<1> HIDE DEF i, j
<1>3. TCMB * d <= n
  <2>1. c \in Nat /\ cap \in Nat
    OBVIOUS
  <2> QED
    BY <1>1, <2>1, NoColder
<1>4. d \in Nat \ {0}
  <2>1. \A a \in Nat \ {0}, b \in Nat \ {0} : a * b \in Nat \ {0}
    OBVIOUS
  <2>2. c + cap \in Nat \ {0}
    OBVIOUS
  <2> QED
    BY <1>1, <2>1, <2>2
<1>5. n \in Int
  <2>1. \A a \in Int, b \in Int : a * b \in Int /\ a - b \in Int
    OBVIOUS
  <2>2. d \in Int /\ i \in Int /\ cap \in Int /\ x.temp \in Int
    BY <1>1, <1>4
  <2> HIDE DEF d
  <2>3. x.temp * d \in Int /\ x.temp - temp \in Int
    BY <2>1, <2>2
  <2>4. i * (x.temp - temp) \in Int
    BY <2>1, <2>2, <2>3
  <2>5. i * (x.temp - temp) * cap \in Int
    BY <2>1, <2>2, <2>4
  <2> QED
    BY <2>1, <2>3, <2>5
<1> HIDE DEF n, d
<1>6. TCMB * d \in Nat
  BY <1>1, <1>4
<1>7. n \in Nat /\ ~(n < TCMB * d)
  BY <1>3, <1>5, <1>6
<1>8. v = [x EXCEPT !.temp = Quotient(n, d)]
  BY <1>2, <1>7
<1>9. v.temp = Quotient(n, d) /\ v.moles = x.moles /\ v.min = 0 /\ v.nan = {} /\ Shaped(v, Nat)
  BY <1>1, <1>8 DEF Shaped, Plain
<1>10. n % d = 0 /\ v.temp = n \div d
  BY <1>9 DEF Quotient
<1>11. n \div d \in Int /\ d * (n \div d) = n
  BY <1>4, <1>7, <1>10, Exact, Zenon
<1>12. Plain(v)
  BY <1>9, <1>10, <1>11 DEF Plain
<1>13. d * v.temp = n
  BY <1>10, <1>11
<1> QED
  BY <1>9, <1>12, <1>13 DEF n, d, i, j

\* temperature_share, with coefficients of at most one.
LEMMA TemperatureShareConserves ==
    ASSUME NEW x, Sound(x), NEW y, Sound(y), Minima \subseteq {0},
           ~x.immutable, ~y.immutable, x.nan = {}, y.nan = {}, x.temp \in Int, y.temp \in Int,
           TCMB <= x.temp, TCMB <= y.temp,
           NEW k \in Nat \X (Nat \ {0}), k[1] <= k[2]
    PROVE  Conserves(<<x, y>>, TemperatureShare(x, y, k))
<1> DEFINE p == Read(x)
           q == Read(y)
           c == HeatCapacity(x)
           e == HeatCapacity(y)
           u == Conducted(p, k, y.temp, e)
           v == Conducted(q, k, x.temp, c)
<1>1. Plain(x) /\ Plain(y) /\ c = HeatOf(x.moles) /\ e = HeatOf(y.moles)
      /\ c \in Nat /\ e \in Nat
  BY SoundIsPlain, CapacityIsHeatOf
<1>2. TemperatureShare(x, y, k)
        = IF x.temp = y.temp THEN <<x, y>> ELSE IF c = 0 \/ e = 0 THEN <<p, q>> ELSE <<u, v>>
  BY DEF TemperatureShare
<1>3. /\ Sound(p) /\ p.moles = x.moles /\ p.temp = x.temp /\ p.immutable = x.immutable
      /\ Sound(q) /\ q.moles = y.moles /\ q.temp = y.temp /\ q.immutable = y.immutable
      /\ p.nan = {} /\ q.nan = {}
  BY <1>1, SoundRead, ReadKeeps DEF Plain
<1> HIDE DEF p, q
<1>4. Plain(p) /\ HeatCapacity(p) = c /\ Plain(q) /\ HeatCapacity(q) = e
  BY <1>1, <1>3, SoundIsPlain
<1> HIDE DEF c, e
<1>5. CASE x.temp = y.temp
  <2>1. Conserves(<<x, y>>, <<x, y>>)
    BY <1>1, PairConserves
  <2> QED
    BY <1>2, <1>5, <2>1
<1>6. CASE x.temp # y.temp /\ (c = 0 \/ e = 0)
  <2>1. Held(p) = Held(x) /\ Held(q) = Held(y)
    BY <1>3 DEF Held
  <2>2. \A g \in Gases : p.moles[g] + q.moles[g] = x.moles[g] + y.moles[g]
    BY <1>3
  <2>3. Conserves(<<x, y>>, <<p, q>>)
    BY <1>1, <1>4, <2>1, <2>2, PairConserves
  <2> QED
    BY <1>2, <1>6, <2>3
<1>7. CASE x.temp # y.temp /\ ~(c = 0 \/ e = 0)
  <2>1. c \in Nat \ {0} /\ e \in Nat \ {0}
    BY <1>1, <1>7
  <2>2. ASSUME u.temp # Broken
        PROVE  /\ Plain(u) /\ u.moles = x.moles
               /\ (k[2] * (c + e)) * u.temp
                    = x.temp * (k[2] * (c + e)) - k[1] * (x.temp - y.temp) * e
    <3> DEFINE w == u
    <3>1. w = Conducted(p, k, y.temp, e) /\ w.temp # Broken
      BY <2>2
    <3> HIDE DEF w
    <3>2. /\ Plain(w) /\ w.moles = p.moles
          /\ (k[2] * (c + e)) * w.temp
               = p.temp * (k[2] * (c + e)) - k[1] * (p.temp - y.temp) * e
      <4>1. /\ Plain(p) /\ ~p.immutable /\ TCMB <= p.temp /\ HeatCapacity(p) = c
            /\ c \in Nat \ {0} /\ e \in Nat \ {0}
        BY <1>3, <1>4, <2>1
      <4> QED
        BY <3>1, <4>1, ConductedKeeps
    <3> QED
      BY <1>3, <3>2 DEF w
  <2>3. ASSUME v.temp # Broken
        PROVE  /\ Plain(v) /\ v.moles = y.moles
               /\ (k[2] * (e + c)) * v.temp
                    = y.temp * (k[2] * (e + c)) - k[1] * (y.temp - x.temp) * c
    <3> DEFINE w == v
    <3>1. w = Conducted(q, k, x.temp, c) /\ w.temp # Broken
      BY <2>3
    <3> HIDE DEF w
    <3>2. /\ Plain(w) /\ w.moles = q.moles
          /\ (k[2] * (e + c)) * w.temp
               = q.temp * (k[2] * (e + c)) - k[1] * (q.temp - x.temp) * c
      <4>1. /\ Plain(q) /\ ~q.immutable /\ TCMB <= q.temp /\ HeatCapacity(q) = e
            /\ c \in Nat \ {0} /\ e \in Nat \ {0}
        BY <1>3, <1>4, <2>1
      <4> QED
        BY <3>1, <4>1, ConductedKeeps
    <3> QED
      BY <1>3, <3>2 DEF w
  <2> HIDE DEF u, v
  <2>4. ASSUME u.temp # Broken, v.temp # Broken
        PROVE  /\ Plain(u) /\ Plain(v)
               /\ \A g \in Gases : u.moles[g] + v.moles[g] = x.moles[g] + y.moles[g]
               /\ Held(u) + Held(v) = Held(x) + Held(y)
    <3> DEFINE i == k[1]
               j == k[2]
               s == x.temp
               t == y.temp
               a == u.temp
               b == v.temp
               n == s * (j * (c + e)) - i * (s - t) * e
               m == t * (j * (e + c)) - i * (t - s) * c
               d == j * (c + e)
    <3>1. Plain(u) /\ Plain(v) /\ u.moles = x.moles /\ v.moles = y.moles
      BY <2>2, <2>3, <2>4
    <3>2. d * a = n /\ (j * (e + c)) * b = m
      BY <2>2, <2>3, <2>4
    <3>3. /\ i \in Nat /\ j \in Nat \ {0} /\ s \in Int /\ t \in Int /\ a \in Int /\ b \in Int
          /\ c \in Nat /\ e \in Nat
      BY <2>1, <3>1 DEF Plain
    <3> HIDE DEF i, j, s, t, a, b
    <3>4. d \in Nat \ {0} /\ j * (e + c) = d
      <4>1. \A f \in Nat \ {0}, h \in Nat \ {0} : f * h \in Nat \ {0}
        OBVIOUS
      <4>2. c + e \in Nat \ {0} /\ e + c = c + e
        BY <2>1
      <4> QED
        BY <3>3, <4>1, <4>2
    <3>5. c * n + e * m = d * (c * s + e * t)
      BY <3>3, HeatExchanged
    <3> HIDE DEF n, m, d
    <3>6. c * (d * a) + e * (d * b) = d * (c * s + e * t)
      BY <3>2, <3>4, <3>5
    <3>7. c * a + e * b = c * s + e * t
      <4>2. c * (d * a) + e * (d * b) = d * (c * a + e * b)
        BY <3>3, <3>4
      <4>3. c * a + e * b \in Int /\ c * s + e * t \in Int
        BY <3>3
      <4> QED
        BY <3>4, <3>6, <4>2, <4>3, Cancelled
    <3>8. Held(u) = c * a /\ Held(v) = e * b /\ Held(x) = c * s /\ Held(y) = e * t
      BY <1>1, <3>1 DEF Held, a, b, s, t
    <3> QED
      BY <3>1, <3>7, <3>8
  <2>5. Conserves(<<x, y>>, <<u, v>>)
    BY <1>1, <2>4, PairConserves
  <2> QED
    BY <1>2, <1>7, <2>5 DEF u, v
<1> QED
  BY <1>5, <1>6, <1>7

\* The moles that several mixtures have together have the heat capacities that
\* they have together.
LEMMA HeatOfSum ==
    ASSUME NEW S, IsFiniteSet(S), NEW a, \A m \in S : a[m] \in [Gases -> Nat],
           NEW c, \A g \in Gases : \A m \in S : c[g][m] = a[m][g],
           NEW f, \A m \in S : f[m] = HeatOf(a[m]),
           NEW t \in [Gases -> Nat], \A g \in Gases : t[g] = SumFunctionOnSet(c[g], S)
    PROVE  HeatOf(t) = SumFunctionOnSet(f, S)
<1> DEFINE b(R) == [g \in Gases |-> SumFunctionOnSet(c[g], R)]
           P == {R \in SUBSET S : b(R) \in [Gases -> Nat] /\ HeatOf(b(R)) = SumFunctionOnSet(f, R)}
<1>1. \A m \in S : f[m] \in Nat
  BY HeatOfNat
<1>2. \A m \in S : f[m] \in Int
  BY <1>1
<1>3. {} \in P
  <2> DEFINE o == b({})
  <2>1. \A g \in Gases : o[g] = 0
    BY SumEmpty
  <2>2. o = [g \in Gases |-> o[g]]
    OBVIOUS
  <2> HIDE DEF o
  <2>3. o \in [Gases -> Nat] /\ [g \in Gases |-> o[g] + o[g]] = o
    BY <2>1, <2>2
  <2>4. HeatOf(o) = HeatOf(o) + HeatOf(o) /\ HeatOf(o) \in Nat
    BY <2>3, HeatOfPlus, HeatOfNat
  <2>5. HeatOf(o) = 0
    <3>1. \A i \in Nat : i = i + i => i = 0
      OBVIOUS
    <3> QED
      BY <2>4, <3>1, Zenon
  <2>6. SumFunctionOnSet(f, {}) = 0
    BY SumEmpty, Zenon
  <2> QED
    BY <2>3, <2>5, <2>6 DEF o
<1>4. \A R \in SUBSET S : \A x \in R :
        /\ R \ {x} \in P
        /\ SumFunctionOnSet(f, R) = f[x] + SumFunctionOnSet(f, R \ {x})
        /\ SumFunctionOnSet(f, R \ {x}) \in Int
        => R \in P
  <2> SUFFICES ASSUME NEW R \in SUBSET S, NEW x \in R, R \ {x} \in P,
                      SumFunctionOnSet(f, R) = f[x] + SumFunctionOnSet(f, R \ {x})
               PROVE  R \in P
    OBVIOUS
  <2> DEFINE d == b(R \ {x})
             e == b(R)
             i == a[x]
  <2>1. d \in [Gases -> Nat] /\ HeatOf(d) = SumFunctionOnSet(f, R \ {x}) /\ i \in [Gases -> Nat]
        /\ HeatOf(i) = f[x]
    OBVIOUS
  <2>2. IsFiniteSet(R)
    BY FS_Subset
  <2>3. ASSUME NEW g \in Gases PROVE e[g] = i[g] + d[g]
    <3>1. \A m \in R : c[g][m] \in Int
      OBVIOUS
    <3>2. SumFunctionOnSet(c[g], R) = c[g][x] + SumFunctionOnSet(c[g], R \ {x})
      BY <2>2, <3>1, SumRemove
    <3> QED
      BY <3>2
  <2>4. e = [g \in Gases |-> e[g]]
    OBVIOUS
  <2> HIDE DEF d, e, i
  <2>5. e = [g \in Gases |-> i[g] + d[g]]
    BY <2>3, <2>4
  <2>6. e \in [Gases -> Nat]
    BY <2>1, <2>5
  <2>7. HeatOf(e) = HeatOf(i) + HeatOf(d)
    BY <2>1, <2>5, HeatOfPlus
  <2>8. HeatOf(e) = SumFunctionOnSet(f, R)
    BY <2>1, <2>7
  <2> QED
    BY <2>6, <2>8 DEF e
<1> HIDE DEF P
<1>5. S \in P
  BY <1>2, <1>3, <1>4, SumInduction
<1>6. b(S) = t
  OBVIOUS
<1> QED
  BY <1>5, <1>6 DEF P

\* Shares of what several have, as large as their volumes, are all of it.
LEMMA Portions ==
    ASSUME NEW S \in SUBSET Mixes, S # {}, NEW f, \A m \in Mixes : f[m] \in Int,
           NEW h, \A m \in Mixes : h[m] \in Int, \A m \in Mixes \ S : h[m] = f[m],
           \A m \in S : SumFunctionOnSet(Volume, S) * h[m] = Volume[m] * SumFunctionOnSet(f, S)
    PROVE  SumFunctionOnSet(h, Mixes) = SumFunctionOnSet(f, Mixes)
<1> DEFINE w == SumFunctionOnSet(Volume, S)
           n == SumFunctionOnSet(f, S)
           o == SumFunctionOnSet(h, S)
<1>1. IsFiniteSet(Mixes) /\ IsFiniteSet(S) /\ IsFiniteSet(Mixes \ S)
  BY MixturesAssumption, FS_Subset
<1>2. (\A m \in S : Volume[m] \in Nat \ {0}) /\ (\A m \in S : Volume[m] \in Int)
      /\ \A m \in S : Volume[m] \in Nat
  BY MixturesAssumption
<1>3. w \in Nat \ {0}
  BY TotalVolume
<1>4. (\A m \in S : f[m] \in Int) /\ (\A m \in S : h[m] \in Int)
  OBVIOUS
<1>5. n \in Int /\ o \in Int
  BY <1>1, <1>4, SumInt
<1>6. w * o = n * w
  <2>1. \A m \in S : w * h[m] = n * Volume[m]
    <3>1. \A i \in Int, j \in Int : i * j = j * i
      OBVIOUS
    <3> QED
      BY <1>2, <1>5, <3>1
  <2>2. w \in Int /\ n \in Int
    BY <1>3, <1>5
  <2> HIDE DEF w, n
  <2>3. w * SumFunctionOnSet(h, S) = n * SumFunctionOnSet(Volume, S)
    BY <1>1, <1>2, <1>4, <2>1, <2>2, SumScaled
  <2> QED
    BY <2>3 DEF w
<1> HIDE DEF w, n, o
<1>7. o = n
  BY <1>3, <1>5, <1>6, Cancelled
<1>8. SumFunctionOnSet(h, Mixes \ S) = SumFunctionOnSet(f, Mixes \ S)
  <2>1. (\A m \in Mixes \ S : f[m] \in Int) /\ \A m \in Mixes \ S : h[m] = f[m]
    OBVIOUS
  <2> QED
    BY <1>1, <2>1, SumSame
<1>9. /\ SumFunctionOnSet(f, Mixes) = SumFunctionOnSet(f, S) + SumFunctionOnSet(f, Mixes \ S)
      /\ SumFunctionOnSet(h, Mixes) = SumFunctionOnSet(h, S) + SumFunctionOnSet(h, Mixes \ S)
  BY <1>1, SumSplit
<1> QED
  BY <1>7, <1>8, <1>9 DEF n, o

\* Where a sum of numbers that are not negative is zero, all of them are.
\* What equalize_all_hook gathers: all moles, at the temperature that all have
\* together.
LEMMA TogetherKeeps ==
    ASSUME Inv, Minima \subseteq {0}, NEW S \in SUBSET Mixes,
           \A m \in S : mix[m].temp \in Nat \ {0} /\ mix[m].nan = {},
           NEW t, t = Together(S), t.temp # Broken
    PROVE  /\ t.moles \in [Gases -> Nat] /\ t.temp \in Int /\ t.nan = {}
           /\ \A g \in Gases : t.moles[g] = SumFunctionOnSet([m \in S |-> mix[m].moles[g]], S)
           /\ HeatOf(t.moles) * t.temp = SumFunctionOnSet([m \in S |-> Held(mix[m])], S)
<1> DEFINE c == [g \in Gases |-> [m \in S |-> mix[m].moles[g]]]
           b == [m \in S |-> HeatCapacity(mix[m])]
           e == [m \in S |-> Energy(mix[m])]
           h == [m \in S |-> Held(mix[m])]
           i == [g \in Gases |-> SumFunction(c[g])]
           d == SumFunctionOnSet(b, S)
           n == SumFunctionOnSet(e, S)
           o == WithMoles(Empty, i, {})
           x == [o EXCEPT !.cached = d]
<1>1. IsFiniteSet(S)
  BY MixturesAssumption, FS_Subset
<1>2. \A m \in S : /\ Sound(mix[m]) /\ Plain(mix[m]) /\ mix[m].moles \in [Gases -> Nat]
                   /\ HeatCapacity(mix[m]) = HeatOf(mix[m].moles)
                   /\ HeatOf(mix[m].moles) \in Nat /\ mix[m].temp \in Nat \ {0}
  BY SoundIsPlain, PlainHeld DEF Inv
<1>3. SetTemperature(x, n, d) = t
  <2>1. DOMAIN b = S /\ DOMAIN e = S
    OBVIOUS
  <2>2. SumFunction(b) = d /\ SumFunction(e) = n
    BY <2>1 DEF SumFunction
  <2>3. i = [g \in Gases |-> SumFunction([m \in S |-> mix[m].moles[g]])]
    OBVIOUS
  <2>4. Together(S)
          = SetTemperature([WithMoles(Empty, i, UNION {mix[m].nan : m \in S})
                              EXCEPT !.cached = SumFunction(b)],
                           SumFunction(e), SumFunction(b))
    BY <2>3 DEF Together
  <2>5. UNION {mix[m].nan : m \in S} = {}
    OBVIOUS
  <2> HIDE DEF b, e, i, d, n
  <2> QED
    BY <2>2, <2>4, <2>5
<1>4. \A g \in Gases : i[g] = SumFunctionOnSet([m \in S |-> mix[m].moles[g]], S)
  <2>1. ASSUME NEW g \in Gases PROVE i[g] = SumFunctionOnSet([m \in S |-> mix[m].moles[g]], S)
    <3>1. DOMAIN [m \in S |-> mix[m].moles[g]] = S
      OBVIOUS
    <3> QED
      BY <3>1 DEF SumFunction
  <2> QED
    BY <2>1
<1>5. \A g \in Gases : i[g] = SumFunctionOnSet(c[g], S)
  BY <1>4
<1>6. i \in [Gases -> Nat]
  <2>1. ASSUME NEW g \in Gases PROVE i[g] \in Nat
    <3>1. \A m \in S : c[g][m] \in Nat
      BY <1>2
    <3> HIDE DEF c, i
    <3>2. SumFunctionOnSet(c[g], S) \in Nat
      BY <1>1, <3>1, SumOfNat
    <3> QED
      BY <1>5, <3>2
  <2> QED
    BY <2>1
<1>7. d = HeatOf(i)
  <2> DEFINE a == [m \in S |-> mix[m].moles]
  <2>1. \A m \in S : a[m] \in [Gases -> Nat]
    BY <1>2
  <2>2. \A g \in Gases : \A m \in S : c[g][m] = a[m][g]
    OBVIOUS
  <2>3. \A m \in S : b[m] = HeatOf(a[m])
    BY <1>2
  <2> HIDE DEF a, b, c, i
  <2> QED
    BY <1>1, <1>5, <1>6, <2>1, <2>2, <2>3, HeatOfSum
<1>8. \A m \in S : b[m] \in Nat /\ e[m] \in Nat /\ b[m] <= e[m] /\ (b[m] = 0 => e[m] = 0)
                   /\ e[m] = h[m]
  <2>1. \A k \in Nat : \A l \in Nat \ {0} : k * l \in Nat /\ k <= k * l /\ (k = 0 => k * l = 0)
    OBVIOUS
  <2>2. \A m \in S : b[m] = HeatOf(mix[m].moles)
                     /\ e[m] = HeatOf(mix[m].moles) * mix[m].temp
                     /\ h[m] = HeatOf(mix[m].moles) * mix[m].temp
    BY <1>2 DEF Energy, Held
  <2> HIDE DEF b, e, h
  <2> QED
    BY <1>2, <2>1, <2>2
<1> HIDE DEF b, c, e, h, i
<1>9. /\ \A m \in S : b[m] \in Nat
      /\ \A m \in S : e[m] \in Nat
      /\ \A m \in S : b[m] \in Int
      /\ \A m \in S : e[m] \in Int
      /\ \A m \in S : e[m] \in Int /\ b[m] <= e[m]
      /\ \A m \in S : h[m] = e[m]
  BY <1>8
<1>10. d \in Nat /\ n \in Nat /\ d <= n /\ SumFunctionOnSet(h, S) = n
  BY <1>1, <1>9, SumOfNat, SumWithin, SumSame
<1>11. d = 0 => n = 0
  <2> SUFFICES ASSUME d = 0 PROVE n = 0
    OBVIOUS
  <2>1. \A m \in S : e[m] = 0
    BY <1>1, <1>8, <1>9, ZeroParts
  <2>2. \A m \in S : 1 * e[m] = 0 * b[m]
    BY <1>9, <2>1
  <2>3. 1 * SumFunctionOnSet(e, S) = 0 * SumFunctionOnSet(b, S)
    BY <1>1, <1>9, <2>2, SumScaled
  <2> QED
    BY <1>10, <2>3
<1>12. Shaped(x, Nat) /\ ~x.immutable /\ x.temp \in Int /\ x.moles = i /\ x.nan = {}
  <2>1. i \in [Gases -> Nat] /\ d \in Nat /\ TCMB \in Int
    BY <1>6, <1>10, MixturesAssumption
  <2>2. Shaped(Empty, Int) /\ {} \in SUBSET Gases /\ Empty.temp = TCMB
        /\ Empty.immutable = FALSE
    BY SoundEmpty, SoundShape DEF Empty
  <2>3. Shaped(o, Nat) /\ o.moles = i /\ o.nan = {} /\ o.temp = TCMB /\ o.immutable = FALSE
    BY <2>1, <2>2, OtherMoles
  <2> HIDE DEF d, o
  <2>4. Shaped(x, Nat) /\ x.moles = i /\ x.nan = {} /\ x.temp = TCMB /\ x.immutable = FALSE
    BY <2>1, <2>3 DEF Shaped
  <2> QED
    BY <2>1, <2>4
<1> HIDE DEF x, d, n
<1>13. t.temp \in Int /\ d * t.temp = n
  BY <1>3, <1>10, <1>11, <1>12, Weighed
<1>14. t.moles = i /\ t.nan = {}
  BY <1>3, <1>12 DEF SetTemperature, Shaped
<1> QED
  BY <1>4, <1>6, <1>7, <1>10, <1>13, <1>14 DEF h

\* What one of the mixtures has then, for every unit of the volume of all.
LEMMA EqualizedOne ==
    ASSUME Inv, Minima \subseteq {0}, NEW S \in SUBSET Mixes, NEW m \in S, ~mix[m].immutable,
           NEW t, t = Together(S), t.nan = {}, Whole(t, Portion(m, S)),
           NEW w, w = SumFunctionOnSet(Volume, S), NEW x, x = Equalized(S)[m]
    PROVE  /\ Sound(x) /\ x.temp = t.temp /\ x.nan = {}
           /\ \A g \in Gases : w * x.moles[g] = Volume[m] * t.moles[g]
           /\ w * HeatOf(x.moles) = Volume[m] * HeatOf(t.moles)
<1> DEFINE v == Volume[m]
           r == <<v, w>>
           q == Read(mix[m])
           y == CopyFromMutable(q, t)
           c == [g \in Gases |-> Scaled(t.moles[g], r)]
<1>1. w \in Nat \ {0} /\ v \in Nat \ {0} /\ Portion(m, S) = r
  BY TotalVolume, MixturesAssumption DEF Portion
<1>2. Sound(x) /\ Shaped(t, Nat) /\ t.moles \in [Gases -> Nat]
  BY SoundEqualized, TogetherShaped DEF Shaped
<1>3. x = Multiply(y, r)
  BY <1>1 DEF Equalized
<1>4. Shaped(q, Nat) /\ ~q.immutable
  BY SoundRead DEF Inv, Sound
<1> HIDE DEF q
<1>5. Shaped(y, Nat) /\ ~y.immutable /\ y.moles = t.moles /\ y.temp = t.temp /\ y.nan = {}
  <2>1. y = [moles |-> t.moles, nan |-> t.nan, temp |-> t.temp, min |-> q.min,
             cached |-> t.cached, immutable |-> q.immutable]
    BY <1>4, CopiedIs DEF CopyFromMutable
  <2> HIDE DEF y
  <2> QED
    BY <1>2, <1>4, <2>1 DEF Shaped
<1> HIDE DEF y, v
<1>6. r \in Int \X (Nat \ {0}) /\ r[1] >= 0 /\ r[1] = v /\ r[2] = w
  BY <1>1
<1>7. x.temp = t.temp /\ x.moles = c /\ x.nan = {}
  <2> HIDE DEF r, c
  <2>1. Multiply(y, r).temp = y.temp /\ Multiply(y, r).nan = {}
        /\ Multiply(y, r).moles = [g \in Gases |-> Scaled(y.moles[g], r)]
    BY <1>5, <1>6, Multiplied
  <2> QED
    BY <1>3, <1>5, <2>1 DEF c
<1>8. \A g \in Gases : (t.moles[g] * v) % w = 0
  <2>1. r # NoNumber
    BY <1>6, ScaledIs
  <2> QED
    BY <1>1, <1>6, <2>1 DEF Whole
<1>9. w * HeatOf(c) = v * HeatOf(t.moles)
  <2> DEFINE a == t.moles
  <2>1. a \in [Gases -> Nat] /\ v \in Nat /\ w \in Nat \ {0}
        /\ \A g \in Gases : (a[g] * v) % w = 0
    BY <1>1, <1>2, <1>8
  <2> HIDE DEF a
  <2>2. w * HeatOf([g \in Gases |-> Scaled(a[g], <<v, w>>)]) = v * HeatOf(a)
    BY <2>1, HeatOfScaled
  <2> QED
    BY <2>2 DEF a
<1>10. ASSUME NEW g \in Gases PROVE w * x.moles[g] = v * t.moles[g]
  <2>1. t.moles[g] * v \in Nat /\ (t.moles[g] * v) % w = 0
    BY <1>1, <1>2, <1>8
  <2>2. w * ((t.moles[g] * v) \div w) = t.moles[g] * v
    BY <1>1, <2>1, Exact, Zenon
  <2>3. x.moles[g] = (t.moles[g] * v) \div w
    <3>1. Scaled(t.moles[g], r) = (t.moles[g] * r[1]) \div r[2]
      BY <1>6, ScaledIs
    <3> QED
      BY <1>6, <1>7, <3>1
  <2>4. t.moles[g] * v = v * t.moles[g]
    BY <1>1, <1>2
  <2> QED
    BY <2>2, <2>3, <2>4
<1> QED
  BY <1>2, <1>7, <1>9, <1>10 DEF v

\* equalize_all_hook.
LEMMA EqualizedConserves ==
    ASSUME Inv, Minima \subseteq {0}, \A m \in Mixes : mix[m].temp \in Int,
           NEW S \in SUBSET Mixes,
           \A m \in S : ~mix[m].immutable /\ mix[m].nan = {} /\ mix[m].temp \in Nat \ {0},
           \A m \in S : Whole(Together(S), Portion(m, S))
    PROVE  Conserves(mix, Equalized(S))
<1> DEFINE t == Together(S)
           e == Equalized(S)
           w == SumFunctionOnSet(Volume, S)
           f(g) == [m \in Mixes |-> mix[m].moles[g]]
           h(g) == [m \in Mixes |-> e[m].moles[g]]
           i == [m \in Mixes |-> SlowHeatCapacity(mix[m]) * mix[m].temp]
           j == [m \in Mixes |-> SlowHeatCapacity(e[m]) * e[m].temp]
<1>1. DOMAIN e = Mixes /\ DOMAIN mix = Mixes /\ \A m \in Mixes \ S : e[m] = mix[m]
  BY DEF Equalized, Inv
<1>2. CASE S = {}
  <2>1. e = mix
    BY <1>1, <1>2 DEF Equalized, Inv
  <2> QED
    BY <2>1 DEF Conserves
<1>3. CASE S # {}
  <2> SUFFICES ASSUME \A m \in Mixes : e[m].temp # Broken
               PROVE  /\ \A m \in Mixes : e[m].nan \subseteq mix[m].nan
                      /\ \A g \in Gases : TotalMolesOf(e, g) = TotalMolesOf(mix, g)
                      /\ TotalEnergyOf(e) = TotalEnergyOf(mix)
    BY <1>1 DEF Conserves
  <2>0. t.nan = {}
    <3>1. UNION {mix[m].nan : m \in S} = {}
      OBVIOUS
    <3> QED
      BY <3>1, TogetherShaped
  <2>1. \A m \in S : /\ Sound(e[m]) /\ e[m].temp = t.temp /\ e[m].nan = {}
                     /\ \A g \in Gases : w * e[m].moles[g] = Volume[m] * t.moles[g]
                     /\ w * HeatOf(e[m].moles) = Volume[m] * HeatOf(t.moles)
    <3>1. ASSUME NEW m \in S
          PROVE  /\ Sound(e[m]) /\ e[m].temp = t.temp /\ e[m].nan = {}
                 /\ \A g \in Gases : w * e[m].moles[g] = Volume[m] * t.moles[g]
                 /\ w * HeatOf(e[m].moles) = Volume[m] * HeatOf(t.moles)
      BY <2>0, EqualizedOne
    <3> QED
      BY <3>1
  <2>2. t.temp # Broken
    BY <1>3, <2>1
  <2>3. /\ t.moles \in [Gases -> Nat] /\ t.temp \in Int
        /\ \A g \in Gases : t.moles[g] = SumFunctionOnSet([m \in S |-> mix[m].moles[g]], S)
        /\ HeatOf(t.moles) * t.temp = SumFunctionOnSet([m \in S |-> Held(mix[m])], S)
    <3> DEFINE u == t
    <3>1. u = Together(S) /\ u.temp # Broken
      BY <2>2
    <3> HIDE DEF u
    <3>2. /\ u.moles \in [Gases -> Nat] /\ u.temp \in Int
          /\ \A g \in Gases : u.moles[g] = SumFunctionOnSet([m \in S |-> mix[m].moles[g]], S)
          /\ HeatOf(u.moles) * u.temp = SumFunctionOnSet([m \in S |-> Held(mix[m])], S)
      BY <3>1, TogetherKeeps
    <3> QED
      BY <3>2 DEF u
  <2>4. IsFiniteSet(S)
    BY MixturesAssumption, FS_Subset
  <2>5. \A m \in S : Plain(mix[m]) /\ Plain(e[m])
    <3>1. \A m \in S : Plain(mix[m])
      BY SoundIsPlain DEF Inv
    <3>2. \A m \in S : Plain(e[m])
      BY <2>1, <2>3, SoundIsPlain
    <3> QED
      BY <3>1, <3>2
  <2>9. \A m \in Mixes \ S : e[m] = mix[m] /\ i[m] = j[m]
    BY <1>1
  <2>10. \A m \in Mixes : mix[m].moles \in [Gases -> Nat] /\ i[m] \in Int
    <3>1. ASSUME NEW m \in Mixes PROVE mix[m].moles \in [Gases -> Nat] /\ i[m] \in Int
      <4>1. Shaped(mix[m], Nat) /\ mix[m].moles \in [Gases -> Nat]
        BY SoundShape DEF Inv
      <4>2. SlowHeatCapacity(mix[m]) \in Nat
        BY <4>1, SlowIsHeatOf
      <4>3. \A k \in Nat, l \in Int : k * l \in Int
        OBVIOUS
      <4> QED
        BY <4>1, <4>2, <4>3
    <3> QED
      BY <3>1
  <2> HIDE DEF t, e
  <2>6. \A m \in S : /\ mix[m].moles \in [Gases -> Nat] /\ e[m].moles \in [Gases -> Nat]
                     /\ Held(mix[m]) \in Int /\ Held(e[m]) \in Int
                     /\ i[m] = Held(mix[m]) /\ j[m] = Held(e[m])
                     /\ HeatOf(e[m].moles) \in Nat /\ HeatOf(mix[m].moles) \in Nat
    <3>1. ASSUME NEW m \in S
          PROVE  /\ mix[m].moles \in [Gases -> Nat] /\ e[m].moles \in [Gases -> Nat]
                 /\ Held(mix[m]) \in Int /\ Held(e[m]) \in Int
                 /\ i[m] = Held(mix[m]) /\ j[m] = Held(e[m])
                 /\ HeatOf(e[m].moles) \in Nat /\ HeatOf(mix[m].moles) \in Nat
      BY <2>5, PlainHeld
    <3> QED
      BY <3>1
  <2> HIDE DEF i, j
  <2>7. ASSUME NEW g \in Gases PROVE TotalMolesOf(e, g) = TotalMolesOf(mix, g)
    <3> DEFINE a == f(g)
               b == h(g)
               c == [m \in S |-> mix[m].moles[g]]
    <3>1. TotalMolesOf(e, g) = SumFunctionOnSet(b, Mixes)
          /\ TotalMolesOf(mix, g) = SumFunctionOnSet(a, Mixes)
      BY <1>1 DEF TotalMolesOf, SumFunction
    <3>2. \A m \in Mixes : a[m] = mix[m].moles[g] /\ b[m] = e[m].moles[g]
      OBVIOUS
    <3>3. \A m \in S : c[m] = a[m]
      OBVIOUS
    <3>4. t.moles[g] = SumFunctionOnSet(c, S)
      BY <2>3
    <3> HIDE DEF a, b, c, f, h
    <3>5. (\A m \in Mixes : a[m] \in Int) /\ (\A m \in Mixes : b[m] \in Int)
          /\ \A m \in Mixes \ S : b[m] = a[m]
      <4>1. \A m \in Mixes \ S : b[m] = a[m]
        BY <1>1, <3>2
      <4>2. \A m \in Mixes : a[m] \in Int
        BY <2>10, <3>2
      <4>3. \A m \in S : b[m] \in Int
        BY <2>6, <3>2
      <4> QED
        BY <4>1, <4>2, <4>3
    <3>6. SumFunctionOnSet(c, S) = SumFunctionOnSet(a, S)
      <4>1. \A m \in S : a[m] \in Int
        BY <3>5
      <4> QED
        BY <2>4, <3>3, <4>1, SumSame
    <3>7. \A m \in S : SumFunctionOnSet(Volume, S) * b[m] = Volume[m] * SumFunctionOnSet(a, S)
      BY <2>1, <3>2, <3>4, <3>6
    <3>8. SumFunctionOnSet(b, Mixes) = SumFunctionOnSet(a, Mixes)
      BY <1>3, <3>5, <3>7, Portions
    <3> QED
      BY <3>1, <3>8
  <2>8. TotalEnergyOf(e) = TotalEnergyOf(mix)
    <3> DEFINE c == [m \in S |-> Held(mix[m])]
    <3>1. TotalEnergyOf(e) = SumFunctionOnSet(j, Mixes)
          /\ TotalEnergyOf(mix) = SumFunctionOnSet(i, Mixes)
      BY <1>1 DEF TotalEnergyOf, SumFunction, i, j
    <3>2. (\A m \in Mixes : i[m] \in Int) /\ (\A m \in Mixes : j[m] \in Int)
          /\ \A m \in Mixes \ S : j[m] = i[m]
      BY <2>6, <2>9, <2>10
    <3>3. \A m \in S : c[m] = i[m]
      BY <2>6
    <3>4. HeatOf(t.moles) * t.temp = SumFunctionOnSet(c, S)
      BY <2>3
    <3> HIDE DEF c
    <3>5. SumFunctionOnSet(c, S) = SumFunctionOnSet(i, S)
      <4>1. \A m \in S : i[m] \in Int
        BY <3>2
      <4> QED
        BY <2>4, <3>3, <4>1, SumSame
    <3>6. \A m \in S : SumFunctionOnSet(Volume, S) * j[m] = Volume[m] * SumFunctionOnSet(i, S)
      <4> SUFFICES ASSUME NEW m \in S PROVE w * j[m] = Volume[m] * SumFunctionOnSet(i, S)
        OBVIOUS
      <4>1. \A v \in Nat, o \in Nat, k \in Nat, l \in Nat, s \in Int :
               v * o = k * l => v * (o * s) = k * (l * s)
        <5>1. \A v \in Nat, o \in Nat, k \in Nat, l \in Nat, s \in Int :
                 v * (o * s) = (v * o) * s /\ k * (l * s) = (k * l) * s
          OBVIOUS
        <5> QED
          BY <5>1
      <4>2. j[m] = HeatOf(e[m].moles) * t.temp
        BY <2>1, <2>6 DEF Held
      <4>3. w \in Nat /\ Volume[m] \in Nat
        BY <1>3, TotalVolume, MixturesAssumption
      <4>4. w * HeatOf(e[m].moles) = Volume[m] * HeatOf(t.moles)
        BY <2>1
      <4>5. HeatOf(e[m].moles) \in Nat /\ HeatOf(t.moles) \in Nat
        BY <2>3, <2>6, HeatOfNat
      <4> HIDE DEF w
      <4>6. w * (HeatOf(e[m].moles) * t.temp) = Volume[m] * (HeatOf(t.moles) * t.temp)
        <5> DEFINE o == HeatOf(e[m].moles)
                   k == Volume[m]
                   l == HeatOf(t.moles)
                   s == t.temp
        <5>1. w \in Nat /\ o \in Nat /\ k \in Nat /\ l \in Nat /\ s \in Int /\ w * o = k * l
          BY <2>3, <4>3, <4>4, <4>5
        <5> HIDE DEF o, k, l, s
        <5>2. w * (o * s) = k * (l * s)
          BY <4>1, <5>1
        <5> QED
          BY <5>2 DEF o, k, l, s
      <4> QED
        BY <3>4, <3>5, <4>2, <4>6
    <3>7. SumFunctionOnSet(j, Mixes) = SumFunctionOnSet(i, Mixes)
      BY <1>3, <3>2, <3>6, Portions
    <3> QED
      BY <3>1, <3>7
  <2>11. \A m \in Mixes : e[m].nan \subseteq mix[m].nan
    BY <2>1, <2>9
  <2> QED
    BY <2>7, <2>8, <2>11
<1> QED
  BY <1>2, <1>3

-----------------------------------------------------------------------------
(***************************************************************************)
(* Every temperature is a whole number; the inductive invariant of the     *)
(* theorem is Inv and that.                                                *)
(***************************************************************************)
Warm == \A m \in Mixes : mix[m].temp \in Int

\* While no minimum of a heat capacity is set and no coefficient exceeds one (as
\* none does in constants.rs:68-80), whatever was called before, the hooks that
\* move gas or heat between two mutable mixtures would conserve the moles of every
\* gas and the heat, and so would equalize_all_hook (lib.rs, mixture.rs), whatever
\* amount or ratio they are given, of mixtures that hold no NaN.  The one ratio it
\* does not speak of is the NaN that no amount of an empty mixture is, by which
\* remove_by_flag does not conserve moles: it leaves NaN.
THEOREM MovesKeepGasAndHeat ==
    ASSUME Minima \subseteq {0}, \A k \in Coefficients : k[1] <= k[2]
    PROVE  Spec => []MovesConserve
<1>1. Init => Warm
  <2>1. TCMB \in Int
    BY MixturesAssumption
  <2> QED
    BY <2>1 DEF Init, Warm, Empty
<1>2. Warm /\ [Next]_mix => Warm'
  <2>1. CASE UNCHANGED mix
    BY <2>1 DEF Warm
  <2>2. Bounded => Warm'
    BY MixturesAssumption DEF Bounded, Warm
  <2>3. ASSUME NEW a \in Mixes, Single(a) PROVE Bounded
    BY <2>3 DEF Single, SetMolesHook, AdjustMolesHook, AdjustMultiHook, ClearHook, HeatCapHook,
        MinHeatCapHook, MarkImmutableHook, MultiplyHook, SetTemperatureHook, AdjustHeatHook,
        AddHook, AdjustMolesTempHook, ParseHook, ParseTempHook, TemperatureShareHook4, Change
  <2>4. ASSUME NEW a \in Mixes, NEW b \in Mixes, Pair(a, b) PROVE Bounded
    BY <2>4 DEF Pair, MergeHook, CopyFromHook, EqualizeWithHook, TemperatureShareHook,
        RemoveRatioHook, TransferRatioHook, PlanetShare, ScrubIntoHook, RemoveHook,
        TransferHook, RemoveByFlagHook, Change, ChangeBoth
  <2> QED
    BY <2>1, <2>2, <2>3, <2>4 DEF Next, EqualizeAllHook
<1>3. Spec => []Warm
  BY <1>1, <1>2, PTL DEF Spec
<1>4. Inv /\ Warm => MovesConserve
  <2> SUFFICES ASSUME Inv, Warm PROVE MovesConserve
    OBVIOUS
  <2> DEFINE Mutable == {m \in Mixes : ~mix[m].immutable /\ mix[m].nan = {} /\ mix[m].temp >= TCMB}
             Parts(a) == (Ratios \cup {PartOf(mix[a], amt) : amt \in Amounts}) \ {NoNumber}
  <2>1. \A m \in Mutable : /\ Sound(mix[m]) /\ ~mix[m].immutable /\ mix[m].nan = {}
                           /\ mix[m].temp \in Int /\ TCMB <= mix[m].temp
                           /\ mix[m].temp \in Nat \ {0} /\ m \in Mixes
    BY MixturesAssumption DEF Inv, Warm
  <2> HIDE DEF Mutable
  <2>2. \A a \in Mutable : \A r \in Parts(a) : r \in Int \X (Nat \ {0})
    <3>1. \A r \in Ratios : r \in Int \X (Nat \ {0})
      BY MixturesAssumption
    <3>2. ASSUME NEW a \in Mutable, NEW amt \in Amounts PROVE PartOf(mix[a], amt) \in Ratio
      BY <2>1, PartOfIsRatio, MixturesAssumption
    <3> QED
      BY <3>1, <3>2 DEF Ratio
  <2>3. ASSUME NEW a \in Mutable, NEW b \in Mutable, NEW r \in Parts(a), Whole(mix[a], r)
        PROVE  /\ Conserves(<<mix[a], mix[b]>>, TransferRatio(mix[a], mix[b], r))
               /\ \A gs \in SUBSET Gases :
                     Conserves(<<mix[a], mix[b]>>, TransferGasesTo(mix[a], mix[b], r, gs))
    BY <2>1, <2>2, <2>3, TransferRatioConserves, TransferGasesConserves
  <2>4. ASSUME NEW a \in Mutable, NEW b \in Mutable, NEW k \in Coefficients
        PROVE  Conserves(<<mix[a], mix[b]>>, TemperatureShare(mix[a], mix[b], k))
    <3>1. k \in Nat \X (Nat \ {0}) /\ k[1] <= k[2]
      BY MixturesAssumption
    <3> QED
      BY <2>1, <3>1, TemperatureShareConserves
  <2>5. ASSUME NEW S \in SUBSET Mutable, \A m \in S : Whole(Together(S), Portion(m, S))
        PROVE  Conserves(mix, Equalized(S))
    <3>1. S \in SUBSET Mixes
          /\ \A m \in S : ~mix[m].immutable /\ mix[m].nan = {} /\ mix[m].temp \in Nat \ {0}
      BY <2>1
    <3>2. \A m \in Mixes : mix[m].temp \in Int
      BY DEF Warm
    <3> QED
      BY <2>5, <3>1, <3>2, EqualizedConserves
  <2> QED
    BY <2>3, <2>4, <2>5 DEF MovesConserve, Mutable
<1> QED
  BY <1>3, <1>4, Invariant, PTL

=============================================================================
