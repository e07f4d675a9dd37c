------------------------------ MODULE FdmProofs ------------------------------
(***************************************************************************)
(* Proofs about Fdm: that diffusion is stable, and that however the workers *)
(* share the turfs out a step is one of FdmStencil, for any turfs, edges and*)
(* gases.                                                                   *)
(***************************************************************************)
EXTENDS Fdm, InductionLemmas

-----------------------------------------------------------------------------
(***************************************************************************)
(* The inductive invariant: what the workers have saved and written is what *)
(* the gases at the top of the loop say.                                    *)
(***************************************************************************)
Differs(t) == \E u \in Takers(t) : Distance(base[t], base[u]) >= MinDelta

Processed(t) == t \in Enabled /\ Differs(t)

Cell(t) ==
    [end_gas |-> SumFunctionOnSet(base, Givers(t)) \div Divisor,
     adj_amount |-> Cardinality(Givers(t)),
     pressures |-> [u \in Givers(t) |-> -base[u]]]

After(t) ==
    IF t \in immutable THEN base[t]
    ELSE base[t] - ((Cardinality(Givers(t)) * base[t]) \div Divisor)
                 + (SumFunctionOnSet(base, Givers(t)) \div Divisor)

TypeOK ==
    /\ gas \in [Turfs -> Int] /\ base \in [Turfs -> Int]
    /\ immutable \in SUBSET Turfs /\ equalize \in BOOLEAN
    /\ phase \in {"top", "archive", "write", "done"}
    /\ todo \in SUBSET Turfs
    /\ DOMAIN saved = Turfs /\ saved = [t \in Turfs |-> saved[t]]
    /\ DOMAIN diffs = Turfs /\ diffs = [t \in Turfs |-> diffs[t]]

\* Nobody writes before the first pass is over.
Untouched == phase # "write" => gas = base

\* What is saved is what the gases at the top of the loop say.
SavedFromBase ==
    phase \in {"archive", "write"} =>
        \A t \in Turfs :
            saved[t] = IF (phase = "write" \/ t \notin todo) /\ Processed(t) THEN Cell(t) ELSE NoCell

\* A cell is written once.
WrittenOnce ==
    phase = "write" =>
        /\ \A t \in todo : Processed(t) /\ gas[t] = base[t]
        /\ \A t \in Turfs \ todo :
            IF Processed(t)
              THEN /\ gas[t] = After(t)
                   /\ diffs[t] = [u \in Givers(t) |-> base[t] - base[u]]
              ELSE gas[t] = base[t]

Inv == TypeOK /\ Untouched /\ SavedFromBase /\ WrittenOnce

-----------------------------------------------------------------------------
(***************************************************************************)
(* The arithmetic of a share.                                               *)
(***************************************************************************)
LEMMA GiversFinite ==
    ASSUME NEW t \in Turfs
    PROVE  /\ IsFiniteSet(Givers(t)) /\ Givers(t) \in SUBSET Turfs
           /\ Cardinality(Givers(t)) \in Nat /\ Cardinality(Givers(t)) <= Divisor
<1>1. Givers(t) = {u \in Turfs : <<u, t>> \in Edges}
  BY DEF Givers
<1>2. Givers(t) \in SUBSET Turfs /\ IsFiniteSet(Turfs) /\ Cardinality(Givers(t)) <= Divisor
  BY <1>1, FdmAssumption
<1>3. IsFiniteSet(Givers(t))
  BY <1>2, FS_Subset
<1> QED
  BY <1>2, <1>3, FS_CardinalityType

\* A weighted mean of n values and x, rounded however the divisions round, is
\* between the bounds of them all if there are at most d of them.
LEMMA MeanInRange ==
    ASSUME NEW d \in Nat \ {0}, NEW n \in Nat, n <= d, NEW x \in Int, NEW s \in Int,
           NEW lo \in Int, NEW hi \in Int, lo <= x, x <= hi, n * lo <= s, s <= n * hi
    PROVE  LET y == x - ((n * x) \div d) + (s \div d) IN lo <= y /\ y <= hi
<1> DEFINE a == (n * x) \div d
           b == s \div d
           y == x - a + b
<1>1. \A m \in Int : m \div d \in Int /\ d * (m \div d) <= m /\ m < d * (m \div d) + d
  OBVIOUS
<1>2. n * x \in Int /\ n * lo \in Int /\ n * hi \in Int
  OBVIOUS
<1>3. a \in Int /\ b \in Int /\ d * a <= n * x /\ n * x < d * a + d /\ d * b <= s /\ s < d * b + d
  BY <1>1, <1>2
<1>4. \A i, j \in Int : i >= 0 /\ j >= 0 => i * j >= 0
  OBVIOUS
<1>5. (d - n) * (x - lo) >= 0 /\ (d - n) * (hi - x) >= 0
  BY <1>4
<1>6. /\ (d - n) * (x - lo) = d * x - n * x - d * lo + n * lo
      /\ (d - n) * (hi - x) = d * hi - n * hi - d * x + n * x
  OBVIOUS
<1> HIDE DEF a, b
<1>7. y \in Int /\ d * y = d * x - d * a + d * b
  BY <1>3
<1>8. d * y > d * lo - d /\ d * y < d * hi + d
  BY <1>2, <1>3, <1>5, <1>6, <1>7
<1>9. \A i, j \in Int : d * i > d * j - d => i >= j
  <2>1. ASSUME NEW i \in Int, NEW j \in Int, i <= j - 1 PROVE d * i <= d * j - d
    <3>1. d * ((j - 1) - i) >= 0
      BY <1>4, <2>1
    <3>2. d * ((j - 1) - i) = d * j - d - d * i
      OBVIOUS
    <3> QED
      BY <3>1, <3>2
  <2> QED
    BY <2>1
<1>10. lo <= y /\ y <= hi
  <2>1. y >= lo
    BY <1>7, <1>8, <1>9
  <2>2. d * hi > d * y - d
    BY <1>7, <1>8
  <2>3. hi >= y
    BY <1>7, <1>9, <2>2
  <2> QED
    BY <1>7, <2>1, <2>3
<1> QED
  BY <1>10 DEF a, b

\* A turf's gas after a step is between the extremes of it and its neighbours.
LEMMA AfterInRange ==
    ASSUME TypeOK, NEW t \in Turfs
    PROVE  /\ After(t) \in Int
           /\ \E u, v \in Turfs : base[u] <= After(t) /\ After(t) <= base[v]
<1> DEFINE n == Cardinality(Givers(t))
           s == SumFunctionOnSet(base, Givers(t))
           x == base[t]
           y == x - ((n * x) \div Divisor) + (s \div Divisor)
           minus == [u \in Turfs |-> -base[u]]
<1>1. \A u \in Turfs : base[u] \in Int /\ minus[u] \in Int
  BY DEF TypeOK
<1>2. IsFiniteSet(Turfs) /\ Turfs # {} /\ Divisor \in Nat \ {0}
  BY FdmAssumption
<1>3. n \in Nat /\ n <= Divisor /\ IsFiniteSet(Givers(t)) /\ Givers(t) \in SUBSET Turfs
  BY GiversFinite
<1>4. PICK lo \in Turfs : \A u \in Turfs : base[lo] <= base[u]
  BY <1>1, <1>2, FiniteLeast
<1>5. PICK hi \in Turfs : \A u \in Turfs : base[u] <= base[hi]
  <2>1. PICK hi \in Turfs : \A u \in Turfs : minus[hi] <= minus[u]
    BY <1>1, <1>2, FiniteLeast
  <2>2. \A u \in Turfs : base[u] <= base[hi]
    BY <1>1, <2>1
  <2> QED
    BY <2>2
<1>6. \A u \in Givers(t) : base[u] \in Int /\ base[lo] <= base[u] /\ base[u] <= base[hi]
  BY <1>1, <1>3, <1>4, <1>5
<1>7. base[lo] \in Int /\ base[hi] \in Int /\ x \in Int
  BY <1>1
<1> HIDE DEF s
<1>8. s \in Int /\ n * base[lo] <= s /\ s <= n * base[hi]
  <2>1. s \in Int
    BY <1>3, <1>6, SumInt DEF s
  <2>2. n * base[lo] <= s /\ s <= n * base[hi]
    BY <1>3, <1>6, <1>7, SumBounds DEF s
  <2> QED
    BY <2>1, <2>2
<1>9. base[lo] <= x /\ x <= base[hi]
  BY <1>4, <1>5
<1> HIDE DEF n, x
<1>10. base[lo] <= y /\ y <= base[hi]
  BY <1>2, <1>3, <1>7, <1>8, <1>9, MeanInRange
<1>11. y \in Int
  <2>1. \A m \in Int : m \div Divisor \in Int
    BY <1>2
  <2>2. n * x \in Int
    BY <1>3, <1>7
  <2> QED
    BY <1>7, <1>8, <2>1, <2>2
<1>12. After(t) = IF t \in immutable THEN base[t] ELSE y
  BY DEF After, n, s, x
<1> HIDE DEF y
<1> QED
  BY <1>1, <1>10, <1>11, <1>12

LEMMA CellIsSaved ==
    ASSUME TypeOK, NEW t \in Turfs
    PROVE  /\ Cell(t) # NoCell /\ DOMAIN Cell(t).pressures = Givers(t)
           /\ Cell(t).adj_amount = Cardinality(Givers(t))
           /\ Cell(t).end_gas = SumFunctionOnSet(base, Givers(t)) \div Divisor
           /\ \A u \in Givers(t) : Cell(t).pressures[u] = -base[u]
<1>1. IsFiniteSet(Givers(t)) /\ Givers(t) \in SUBSET Turfs /\ Cardinality(Givers(t)) \in Nat
  BY GiversFinite
<1>2. \A u \in Givers(t) : base[u] \in Int
  BY <1>1 DEF TypeOK
<1>3. SumFunctionOnSet(base, Givers(t)) \in Int
  BY <1>1, <1>2, SumInt
<1>4. SumFunctionOnSet(base, Givers(t)) \div Divisor \in Int
  BY <1>3, FdmAssumption
<1>5. [u \in Givers(t) |-> -base[u]] \in [Givers(t) -> Int]
  BY <1>2
<1>6. Cell(t) \in Cells
  BY <1>1, <1>4, <1>5 DEF Cell, Cells
<1>7. Cell(t) # NoCell
  BY <1>6, FdmAssumption
<1> QED
  BY <1>7 DEF Cell

-----------------------------------------------------------------------------
(***************************************************************************)
(* Every step keeps the invariant.                                          *)
(***************************************************************************)
LEMMA InvInit == Init => Inv
<1> SUFFICES ASSUME Init PROVE Inv
  OBVIOUS
<1>1. gas \in [Turfs -> Int] /\ base = gas /\ immutable \in SUBSET Turfs
  BY FdmAssumption DEF Init
<1>2. TypeOK
  BY <1>1 DEF Init, TypeOK
<1> QED
  BY <1>1, <1>2 DEF Init, Inv, Untouched, SavedFromBase, WrittenOnce

LEMMA StepBegin == Inv /\ BeginStep => Inv'
<1> SUFFICES ASSUME Inv, BeginStep PROVE Inv'
  OBVIOUS
<1>1. TypeOK'
  BY DEF Inv, TypeOK, BeginStep, setting
<1>2. Untouched' /\ SavedFromBase' /\ WrittenOnce'
  BY DEF Inv, TypeOK, BeginStep, Untouched, SavedFromBase, WrittenOnce
<1> QED
  BY <1>1, <1>2 DEF Inv

LEMMA StepArchive ==
    ASSUME NEW t \in Turfs
    PROVE  Inv /\ Archive(t) => Inv'
<1> SUFFICES ASSUME Inv, Archive(t) PROVE Inv'
  OBVIOUS
<1>1. /\ UNCHANGED <<gas, base, immutable, equalize, diffs, phase>> /\ phase = "archive"
      /\ todo' = todo \ {t} /\ t \in todo /\ gas = base /\ TypeOK
  BY DEF Archive, Inv, Untouched, setting
<1>2. saved' = [saved EXCEPT ![t] = IF Processed(t) THEN Cell(t) ELSE NoCell]
  <2>1. ShouldProcess(t) <=> Processed(t)
    BY <1>1 DEF ShouldProcess, Processed, Differs
  <2>2. ProcessCell(t) = Cell(t)
    BY <1>1 DEF ProcessCell, Cell
  <2>3. saved[t] = NoCell /\ saved = [u \in Turfs |-> saved[u]]
    BY <1>1 DEF Inv, SavedFromBase, TypeOK
  <2> QED
    BY <2>1, <2>2, <2>3 DEF Archive
<1>3. TypeOK'
  BY <1>1, <1>2 DEF TypeOK
<1>4. SavedFromBase'
  <2>1. \A u \in Turfs : saved'[u] = IF u = t THEN (IF Processed(t) THEN Cell(t) ELSE NoCell) ELSE saved[u]
    BY <1>1, <1>2 DEF TypeOK
  <2>2. \A u \in Turfs : saved[u] = IF u \notin todo /\ Processed(u) THEN Cell(u) ELSE NoCell
    BY <1>1 DEF Inv, SavedFromBase
  <2>3. \A u : (Processed(u) <=> Processed(u)') /\ Cell(u)' = Cell(u)
    BY <1>1 DEF Processed, Differs, Cell
  <2> QED
    BY <1>1, <2>1, <2>2, <2>3 DEF SavedFromBase
<1> QED
  BY <1>1, <1>3, <1>4 DEF Inv, Untouched, WrittenOnce

LEMMA StepCollect == Inv /\ Collect => Inv'
<1> SUFFICES ASSUME Inv, Collect PROVE Inv'
  OBVIOUS
<1>1. /\ UNCHANGED <<gas, base, immutable, equalize, diffs, saved>> /\ phase = "archive"
      /\ phase' = "write" /\ todo = {} /\ todo' = {t \in Turfs : saved[t] # NoCell}
      /\ gas = base /\ TypeOK
  BY DEF Collect, Inv, Untouched, setting
<1>2. TypeOK'
  BY <1>1 DEF TypeOK
<1>3. \A t : (Processed(t) <=> Processed(t)') /\ Cell(t)' = Cell(t)
  BY <1>1 DEF Processed, Differs, Cell
<1>4. \A t \in Turfs : saved[t] = IF Processed(t) THEN Cell(t) ELSE NoCell
  BY <1>1 DEF Inv, SavedFromBase
<1>5. SavedFromBase'
  BY <1>1, <1>3, <1>4 DEF SavedFromBase
<1>6. \A t \in Turfs : t \in todo' <=> Processed(t)
  BY <1>1, <1>4, CellIsSaved
<1>7. WrittenOnce'
  BY <1>1, <1>3, <1>6 DEF WrittenOnce
<1> QED
  BY <1>1, <1>2, <1>5, <1>7 DEF Inv, Untouched

LEMMA StepWrite ==
    ASSUME NEW t \in Turfs
    PROVE  Inv /\ Write(t) => Inv'
<1> SUFFICES ASSUME Inv, Write(t) PROVE Inv'
  OBVIOUS
<1>1. /\ UNCHANGED <<base, immutable, equalize, saved, phase>> /\ phase = "write"
      /\ todo' = todo \ {t} /\ t \in todo /\ TypeOK
      /\ Processed(t) /\ gas[t] = base[t] /\ saved[t] = Cell(t)
  BY DEF Write, Inv, WrittenOnce, SavedFromBase, setting
<1>2. gas' = [gas EXCEPT ![t] = After(t)]
  BY <1>1, CellIsSaved DEF Write, Diffuse, After
<1>3. diffs' = [diffs EXCEPT ![t] = [u \in Givers(t) |-> base[t] - base[u]]]
  <2>1. \A u \in Givers(t) : base[u] \in Int /\ base[t] \in Int
    BY <1>1, GiversFinite DEF TypeOK
  <2>2. \A u \in Givers(t) : saved[t].pressures[u] + gas[t] = base[t] - base[u]
    BY <1>1, <2>1, CellIsSaved
  <2>3. [u \in DOMAIN saved[t].pressures |-> saved[t].pressures[u] + gas[t]]
            = [u \in Givers(t) |-> base[t] - base[u]]
    BY <1>1, <2>2, CellIsSaved
  <2> QED
    BY <2>3 DEF Write
<1>4. TypeOK'
  <2>1. After(t) \in Int
    BY <1>1, AfterInRange
  <2> QED
    BY <1>1, <1>2, <1>3, <2>1 DEF TypeOK
<1>5. \A u : (Processed(u) <=> Processed(u)') /\ Cell(u)' = Cell(u) /\ After(u)' = After(u)
  BY <1>1 DEF Processed, Differs, Cell, After
<1>6. SavedFromBase'
  BY <1>1, <1>5 DEF Inv, SavedFromBase
<1>7. WrittenOnce'
  <2>1. \A u \in Turfs : u # t => gas'[u] = gas[u] /\ diffs'[u] = diffs[u]
    BY <1>1, <1>2, <1>3 DEF TypeOK
  <2>2. gas'[t] = After(t) /\ diffs'[t] = [u \in Givers(t) |-> base[t] - base[u]]
    BY <1>1, <1>2, <1>3 DEF TypeOK
  <2>3. ASSUME NEW u \in todo' PROVE Processed(u) /\ gas'[u] = base[u]
    BY <1>1, <2>1 DEF Inv, TypeOK, WrittenOnce
  <2>4. ASSUME NEW u \in Turfs \ todo'
        PROVE  IF Processed(u)
                 THEN /\ gas'[u] = After(u)
                      /\ diffs'[u] = [v \in Givers(u) |-> base[u] - base[v]]
                 ELSE gas'[u] = base[u]
    BY <1>1, <2>1, <2>2 DEF Inv, WrittenOnce
  <2> QED
    BY <1>1, <1>5, <2>3, <2>4 DEF WrittenOnce
<1> QED
  BY <1>1, <1>4, <1>6, <1>7 DEF Inv, Untouched

LEMMA StepTop == Inv /\ (EndStep \/ Stop) => Inv'
<1> SUFFICES ASSUME Inv, EndStep \/ Stop PROVE Inv'
  OBVIOUS
<1>1. /\ UNCHANGED <<gas, immutable, equalize, saved, diffs, todo>>
      /\ phase' \in {"top", "done"} /\ base' = gas
  BY DEF EndStep, Stop, Inv, Untouched, setting
<1>2. TypeOK'
  BY <1>1 DEF Inv, TypeOK
<1> QED
  BY <1>1, <1>2 DEF Inv, Untouched, SavedFromBase, WrittenOnce

LEMMA StepStutter == Inv /\ UNCHANGED vars => Inv'
<1> SUFFICES ASSUME Inv, UNCHANGED vars PROVE Inv'
  OBVIOUS
<1>1. UNCHANGED <<gas, base, immutable, equalize, phase, todo, saved, diffs>>
  BY DEF vars, setting
<1>2. TypeOK'
  BY <1>1 DEF Inv, TypeOK
<1>3. \A t : (Processed(t) <=> Processed(t)') /\ Cell(t)' = Cell(t) /\ After(t)' = After(t)
  BY <1>1 DEF Processed, Differs, Cell, After
<1>4. Untouched' /\ SavedFromBase' /\ WrittenOnce'
  BY <1>1, <1>3 DEF Inv, Untouched, SavedFromBase, WrittenOnce
<1> QED
  BY <1>2, <1>4 DEF Inv

\* Whatever the interleaving of the workers with each other (fdm.rs), what each
\* has computed and saved stays what the mixtures of the beginning give.
THEOREM Invariant == Spec => []Inv
<1>1. Inv /\ [Next]_vars => Inv'
  BY StepBegin, StepArchive, StepCollect, StepWrite, StepTop, StepStutter DEF Next
<1> QED
  BY InvInit, <1>1, PTL DEF Spec

\* Diffusion is stable, as the comment in process_cell claims of the constant:
\* no step takes a turf out of the range of the gases before it.
THEOREM DiffusionIsStable == Spec => []WithinRange
<1>1. Inv => WithinRange
  <2> SUFFICES ASSUME Inv, NEW t \in Turfs
               PROVE  \E u, v \in Turfs : base[u] <= gas[t] /\ gas[t] <= base[v]
    BY DEF WithinRange
  <2>1. base[t] \in Int /\ TypeOK
    BY DEF Inv, TypeOK
  <2>2. gas[t] = base[t] \/ gas[t] = After(t)
    <3>1. CASE phase # "write"
      BY <3>1 DEF Inv, Untouched
    <3>2. CASE phase = "write" /\ t \in todo
      BY <3>2 DEF Inv, WrittenOnce
    <3>3. CASE phase = "write" /\ t \in Turfs \ todo
      BY <3>3 DEF Inv, WrittenOnce
    <3> QED
      BY <3>1, <3>2, <3>3
  <2>3. \E u, v \in Turfs : base[u] <= After(t) /\ After(t) <= base[v]
    BY <2>1, AfterInRange
  <2>4. base[t] <= base[t]
    BY <2>1
  <2> QED
    BY <2>2, <2>3, <2>4
<1> QED
  BY Invariant, <1>1, PTL

-----------------------------------------------------------------------------
(***************************************************************************)
(* The refinement of FdmStencil.                                            *)
(***************************************************************************)
\* A turf of the stencil's is one that the filter of the first pass lets by.
LEMMA ActiveIsProcessed ==
    ASSUME NEW t \in Turfs
    PROVE  t \in Stencil!Active(base) <=> Processed(t)
<1>1. \A a, b : Stencil!Distance(a, b) = Distance(a, b)
  BY DEF Distance, Stencil!Distance
<1>2. t \in Stencil!Active(base) <=>
        t \in Enabled /\ \E u \in Turfs : <<t, u>> \in Edges /\ Distance(base[t], base[u]) >= MinDelta
  BY <1>1 DEF Stencil!Active
<1>3. Differs(t) <=> \E u \in Turfs : <<t, u>> \in Edges /\ Distance(base[t], base[u]) >= MinDelta
  BY DEF Differs, Takers
<1> QED
  BY <1>2, <1>3 DEF Processed

LEMMA DiffusedIsAfter ==
    ASSUME NEW t \in Turfs
    PROVE  Stencil!Diffused(base, t) = After(t)
<1>1. \A S : Stencil!Cardinality(S) = Cardinality(S)
  BY DEF Stencil!Cardinality, Cardinality, Stencil!IsFiniteSet, IsFiniteSet
<1>2. \A f, S : Stencil!SumFunctionOnSet(f, S) = SumFunctionOnSet(f, S)
  BY DEF Stencil!SumFunctionOnSet, Stencil!FoldFunctionOnSet, Stencil!MapThenFoldSet,
         SumFunctionOnSet, FoldFunctionOnSet, MapThenFoldSet
<1>3. Stencil!Givers(t) = Givers(t)
  BY DEF Stencil!Givers, Givers
<1> QED
  BY <1>1, <1>2, <1>3 DEF Stencil!Diffused, After

\* When the last cell is written all of them are: the step of the stencil.
LEMMA EndStepIsStep == Inv /\ EndStep => Stencil!Step
<1> SUFFICES ASSUME Inv, EndStep PROVE Stencil!Step
  OBVIOUS
<1> DEFINE limit == HighDelta * Divisor
           cells == {t \in Turfs : saved[t] # NoCell}
           steep == {t \in cells : \E u \in DOMAIN diffs[t] : Distance(diffs[t][u], 0) > limit}
<1>1. /\ TypeOK /\ phase = "write" /\ todo = {} /\ base' = gas
      /\ low' = low \cup (cells \ steep) /\ high' = high \cup steep
      /\ UNCHANGED <<immutable, equalize>>
  BY DEF Inv, EndStep, setting
<1>2. \A t \in Turfs : t \in cells <=> t \in Stencil!Active(base)
  BY <1>1, CellIsSaved, ActiveIsProcessed DEF Inv, SavedFromBase
<1>3. Stencil!Active(base) \subseteq Turfs /\ cells = Stencil!Active(base)
  BY <1>2, FdmAssumption DEF Stencil!Active
<1>4. \A t \in Turfs : gas[t] = IF t \in Stencil!Active(base) THEN Stencil!Diffused(base, t) ELSE base[t]
  BY <1>1, ActiveIsProcessed, DiffusedIsAfter DEF Inv, WrittenOnce
<1>5. base' = [t \in Turfs |-> IF t \in Stencil!Active(base) THEN Stencil!Diffused(base, t) ELSE base[t]]
  BY <1>1, <1>4 DEF TypeOK
<1>6. \A t \in cells : diffs[t] = [u \in Givers(t) |-> base[t] - base[u]]
  BY <1>1, <1>3, ActiveIsProcessed DEF Inv, WrittenOnce
<1>7. limit \in Nat /\ \A t \in Turfs : base[t] \in Int /\ Givers(t) \subseteq Turfs
  BY <1>1, FdmAssumption DEF TypeOK, Givers
<1>8. \A t \in Turfs : Stencil!Givers(t) = Givers(t)
  BY DEF Stencil!Givers, Givers
<1>9. \A t, u \in Turfs : Stencil!Pushes(base, t, u) <=> base[t] - base[u] > limit
  BY DEF Stencil!Pushes
<1> HIDE DEF limit, cells
<1>10. steep = Stencil!Steep(base)
  <2>1. \A i \in Int : Distance(i, 0) > limit <=> i > limit \/ -i > limit
    BY <1>7 DEF Distance
  <2>2. ASSUME NEW t \in cells
        PROVE  (\E u \in DOMAIN diffs[t] : Distance(diffs[t][u], 0) > limit)
                <=> \E u \in Stencil!Givers(t) : Stencil!Pushes(base, t, u) \/ Stencil!Pushes(base, u, t)
    <3>1. t \in Turfs
      BY <1>3
    <3>2. \A u \in Givers(t) : Distance(diffs[t][u], 0) > limit
                <=> base[t] - base[u] > limit \/ base[u] - base[t] > limit
      <4>1. \A u \in Givers(t) : base[t] - base[u] \in Int /\ -(base[t] - base[u]) = base[u] - base[t]
        BY <1>7, <3>1
      <4> QED
        BY <1>6, <2>1, <4>1
    <3>3. DOMAIN diffs[t] = Givers(t)
      BY <1>6
    <3>4. \A u \in Givers(t) :
            (Stencil!Pushes(base, t, u) \/ Stencil!Pushes(base, u, t))
                <=> base[t] - base[u] > limit \/ base[u] - base[t] > limit
      BY <1>7, <1>9, <3>1
    <3> QED
      BY <1>8, <3>1, <3>2, <3>3, <3>4
  <2> QED
    BY <1>3, <2>2 DEF Stencil!Steep
<1>11. calls' = calls \cup Stencil!Calls(base)
  <2> DEFINE pushes == {e \in Turfs \X Turfs :
                        e[1] \in steep /\ e[2] \in DOMAIN diffs[e[1]] /\ diffs[e[1]][e[2]] > limit}
             pushed == {e \in Turfs \X Turfs :
                        e[2] \in steep /\ e[1] \in DOMAIN diffs[e[2]] /\ diffs[e[2]][e[1]] < -limit}
  <2>1. calls' = IF equalize THEN calls ELSE calls \cup pushes \cup pushed
    BY DEF EndStep, limit, cells
  <2>2. ASSUME NEW a \in Turfs, NEW b \in Turfs
        PROVE  /\ a \in steep /\ b \in DOMAIN diffs[a] /\ diffs[a][b] > limit
                    <=> a \in cells /\ b \in Givers(a) /\ Stencil!Pushes(base, a, b)
               /\ b \in steep /\ a \in DOMAIN diffs[b] /\ diffs[b][a] < -limit
                    <=> b \in cells /\ a \in Givers(b) /\ Stencil!Pushes(base, a, b)
    <3>1. \A t \in Stencil!Steep(base) : t \in cells
      BY <1>3 DEF Stencil!Steep
    <3>2. \A t \in cells : DOMAIN diffs[t] = Givers(t) /\ \A u \in Givers(t) : diffs[t][u] = base[t] - base[u]
      BY <1>6
    <3>3. \A t \in cells : \A u \in Givers(t) :
                Stencil!Pushes(base, t, u) \/ Stencil!Pushes(base, u, t) => t \in Stencil!Steep(base)
      BY <1>3, <1>8 DEF Stencil!Steep
    <3>4. (base[b] - base[a] < -limit <=> Stencil!Pushes(base, a, b))
          /\ (base[a] - base[b] > limit <=> Stencil!Pushes(base, a, b))
      BY <1>7, <1>9
    <3> HIDE DEF steep
    <3> QED
      BY <1>10, <3>1, <3>2, <3>3, <3>4
  <2>3. pushes \cup pushed =
            {e \in Turfs \X Turfs : Stencil!Pushes(base, e[1], e[2]) /\
                \/ e[1] \in cells /\ e[2] \in Givers(e[1])
                \/ e[2] \in cells /\ e[1] \in Givers(e[2])}
    <3> HIDE DEF steep
    <3> QED
      BY <2>2
  <2>4. \A t \in Turfs : Stencil!Givers(t) = Givers(t)
    BY <1>8
  <2>5. Stencil!Calls(base) = IF equalize THEN {} ELSE pushes \cup pushed
    <3> HIDE DEF steep, pushes, pushed
    <3> QED
      BY <1>3, <2>3, <2>4 DEF Stencil!Calls
  <2> HIDE DEF pushes, pushed
  <2> QED
    BY <2>1, <2>5
<1> QED
  BY <1>1, <1>3, <1>5, <1>10, <1>11 DEF Stencil!Step

\* However rayon shares the turfs out between the workers of a pass, and in
\* whatever order they take them, all that fdm leaves behind is what steps of
\* the stencil leave, in which all turfs change at once.
THEOREM WorkersImplementStencil == Spec => StencilSpec
<1>1. Init => Stencil!Init
  <2> SUFFICES ASSUME Init PROVE Stencil!Init
    OBVIOUS
  <2>1. base \in [Turfs -> Int] /\ immutable \in SUBSET Turfs
    BY FdmAssumption DEF Init
  <2> QED
    BY <2>1, FdmAssumption DEF Init, Stencil!Init
<1>2. Inv /\ [Next]_vars => [Stencil!Step]_(Stencil!vars)
  <2> SUFFICES ASSUME Inv, [Next]_vars PROVE [Stencil!Step]_(Stencil!vars)
    OBVIOUS
  <2>1. CASE EndStep
    BY <2>1, EndStepIsStep
  <2>2. CASE BeginStep \/ (\E t \in Turfs : Archive(t) \/ Write(t)) \/ Collect \/ Stop \/ UNCHANGED vars
    <3>1. UNCHANGED <<base, immutable, equalize, low, high, calls>>
      BY <2>2 DEF BeginStep, Archive, Write, Collect, Stop, vars, setting
    <3> QED
      BY <3>1 DEF Stencil!vars
  <2> QED
    BY <2>1, <2>2 DEF Next
<1> QED
  BY Invariant, <1>1, <1>2, PTL DEF Spec, StencilSpec, Stencil!Spec

-----------------------------------------------------------------------------
(***************************************************************************)
(* The gas of a sealed room.  What the turfs that a step changes take from  *)
(* each other cancels, since every pair of them is counted from both sides; *)
(* what is left of a turf's change is its rounding and what it takes from   *)
(* neighbours that are passed over.                                         *)
(***************************************************************************)
Pull(f, t) == [u \in Turfs |-> f[u] - f[t]]

\* What t takes from its neighbours in S, in eighths.
From(f, S) == [t \in Turfs |-> SumFunctionOnSet(Pull(f, t), Givers(t) \cap S)]

Symmetric == \A e \in Edges : <<e[2], e[1]>> \in Edges

LEMMA SumConstant ==
    ASSUME NEW S, IsFiniteSet(S), NEW f, NEW c \in Int, \A x \in S : f[x] = c
    PROVE  Cardinality(S) \in Nat /\ SumFunctionOnSet(f, S) = Cardinality(S) * c
<1>1. \A x \in S : f[x] \in Int /\ c <= f[x] /\ f[x] <= c
  OBVIOUS
<1>2. SumFunctionOnSet(f, S) \in Int /\ Cardinality(S) \in Nat
  BY <1>1, SumInt, FS_CardinalityType
<1>3. Cardinality(S) * c <= SumFunctionOnSet(f, S) /\ SumFunctionOnSet(f, S) <= Cardinality(S) * c
  BY <1>1, SumBounds
<1>4. \A i, j \in Int : i <= j /\ j <= i => i = j
  OBVIOUS
<1>5. Cardinality(S) * c \in Int
  BY <1>2
<1> QED
  BY <1>2, <1>3, <1>4, <1>5

LEMMA SumOfPull ==
    ASSUME NEW f \in [Turfs -> Int], NEW t \in Turfs, NEW R \in SUBSET Turfs
    PROVE  /\ SumFunctionOnSet(Pull(f, t), R) \in Int
           /\ SumFunctionOnSet(Pull(f, t), R) = SumFunctionOnSet(f, R) - Cardinality(R) * f[t]
<1> DEFINE c == [u \in Turfs |-> -f[t]]
           p == Pull(f, t)
<1>1. IsFiniteSet(R) /\ Cardinality(R) \in Nat
  BY FdmAssumption, FS_Subset, FS_CardinalityType
<1>2. \A u \in R : f[u] \in Int /\ c[u] \in Int /\ p[u] \in Int /\ p[u] = f[u] + c[u] /\ c[u] = -f[t]
  BY DEF Pull
<1>3. -f[t] \in Int /\ f[t] \in Int
  OBVIOUS
<1> HIDE DEF c, p
<1>4. SumFunctionOnSet(p, R) = SumFunctionOnSet(f, R) + SumFunctionOnSet(c, R)
  BY <1>1, <1>2, SumPlus
<1>5. SumFunctionOnSet(c, R) = Cardinality(R) * (-f[t])
  BY <1>1, <1>2, <1>3, SumConstant
<1>6. SumFunctionOnSet(f, R) \in Int /\ SumFunctionOnSet(p, R) \in Int
  BY <1>1, <1>2, SumInt
<1>7. Cardinality(R) * (-f[t]) = -(Cardinality(R) * f[t]) /\ Cardinality(R) * f[t] \in Int
  BY <1>1, <1>3
<1> QED
  BY <1>4, <1>5, <1>6, <1>7 DEF p

\* One more turf takes from the others what they take from it.
LEMMA PullsCancel ==
    ASSUME Symmetric, NEW f \in [Turfs -> Int]
    PROVE  \A A \in SUBSET Turfs : SumFunctionOnSet(From(f, A), A) = 0
<1> DEFINE P == {A \in SUBSET Turfs : SumFunctionOnSet(From(f, A), A) = 0}
<1>1. {} \in P
  BY SumEmpty
<1>2. ASSUME NEW A \in SUBSET Turfs, A # {}, \A x \in A : A \ {x} \in P PROVE A \in P
  <2>1. PICK x \in A : A \ {x} \in P
    BY <1>2
  <2> DEFINE B == A \ {x}
             near == Givers(x)
             old == From(f, B)
             new == From(f, A)
             more == [t \in Turfs |-> IF x \in Givers(t) THEN f[x] - f[t] ELSE 0]
  <2>2. /\ IsFiniteSet(A) /\ IsFiniteSet(B) /\ B \in SUBSET Turfs /\ x \in Turfs /\ x \notin B
        /\ A = B \cup {x} /\ A \in SUBSET Turfs
    BY <2>1, FdmAssumption, FS_Subset
  <2>3. \A t \in Turfs : Givers(t) \in SUBSET Turfs /\ (t \in near <=> x \in Givers(t))
    BY <2>2 DEF Givers, Symmetric
  <2>4. \A t \in Turfs : f[t] \in Int /\ more[t] \in Int
    BY <2>2
  <2>5. ASSUME NEW S \in SUBSET Turfs, NEW t \in Turfs
        PROVE  /\ From(f, S)[t] = SumFunctionOnSet(Pull(f, t), Givers(t) \cap S)
               /\ From(f, S)[t] \in Int
    <3>1. Givers(t) \cap S \in SUBSET Turfs
      OBVIOUS
    <3> QED
      BY <3>1, SumOfPull DEF From
  <2>6. SumFunctionOnSet(old, B) = 0
    BY <2>1
  <2>7. SumFunctionOnSet(new, A) = new[x] + SumFunctionOnSet(new, B)
    <3>1. \A t \in A : new[t] \in Int
      BY <2>5
    <3> HIDE DEF new
    <3> QED
      BY <2>2, <3>1, SumRemove
  <2>8. ASSUME NEW t \in B PROVE new[t] = old[t] + more[t]
    <3> DEFINE p == Pull(f, t)
    <3>1. t \in Turfs /\ Givers(t) \in SUBSET Turfs /\ (Givers(t) \cap A) \in SUBSET Turfs
          /\ (Givers(t) \cap B) \in SUBSET Turfs
      BY <2>2, <2>3
    <3>2. /\ new[t] = SumFunctionOnSet(p, Givers(t) \cap A)
          /\ old[t] = SumFunctionOnSet(p, Givers(t) \cap B) /\ old[t] \in Int
      BY <2>2, <2>5, <3>1
    <3>3. CASE x \in Givers(t)
      <4>1. more[t] = p[x]
        BY <2>2, <3>1, <3>3 DEF Pull
      <4>2. /\ x \in Givers(t) \cap A /\ (Givers(t) \cap A) \ {x} = Givers(t) \cap B
            /\ IsFiniteSet(Givers(t) \cap A)
        BY <2>2, <3>3, FS_Subset
      <4>3. \A u \in Givers(t) \cap A : p[u] \in Int
        BY <3>1 DEF Pull
      <4> HIDE DEF p, more
      <4>4. SumFunctionOnSet(p, Givers(t) \cap A) = p[x] + SumFunctionOnSet(p, Givers(t) \cap B)
        BY <4>2, <4>3, SumRemove
      <4>5. p[x] \in Int
        BY <4>2, <4>3
      <4> HIDE DEF old, new
      <4> QED
        BY <3>2, <4>1, <4>4, <4>5
    <3>4. CASE x \notin Givers(t)
      <4>1. Givers(t) \cap A = Givers(t) \cap B
        BY <2>2, <3>4
      <4>2. more[t] = 0
        BY <3>1, <3>4
      <4> HIDE DEF old, new, more
      <4> QED
        BY <3>2, <4>1, <4>2
    <3> QED
      BY <3>3, <3>4
  <2>9. SumFunctionOnSet(new, B) = SumFunctionOnSet(old, B) + SumFunctionOnSet(more, B)
    <3>1. \A t \in B : old[t] \in Int /\ more[t] \in Int /\ new[t] = old[t] + more[t]
      BY <2>2, <2>4, <2>5, <2>8
    <3> HIDE DEF old, new, more
    <3> QED
      BY <2>2, <3>1, SumPlus
  <2> DEFINE q == Pull(f, x)
  <2>10. \A t \in Turfs : q[t] \in Int /\ q[t] = f[t] - f[x] /\ q[x] = 0
    BY <2>2 DEF Pull
  <2>11. new[x] = SumFunctionOnSet(q, near \cap B) /\ SumFunctionOnSet(q, near \cap B) \in Int
    <3>1. new[x] = SumFunctionOnSet(q, near \cap A)
      BY <2>2, <2>5
    <3>2. near \cap A \in SUBSET Turfs /\ near \cap B \in SUBSET Turfs /\ IsFiniteSet(near \cap A)
      BY <2>2, FS_Subset
    <3>3. SumFunctionOnSet(q, near \cap B) \in Int
      BY <2>2, <3>2, SumOfPull
    <3>4. CASE x \in near
      <4>1. x \in near \cap A /\ (near \cap A) \ {x} = near \cap B /\ \A t \in near \cap A : q[t] \in Int
        BY <2>2, <2>10, <3>4
      <4> HIDE DEF q, near
      <4>2. SumFunctionOnSet(q, near \cap A) = q[x] + SumFunctionOnSet(q, near \cap B)
        BY <3>2, <4>1, SumRemove
      <4> HIDE DEF new
      <4> QED
        BY <2>2, <2>10, <3>1, <3>3, <4>2
    <3>5. CASE x \notin near
      <4>1. near \cap A = near \cap B
        BY <2>2, <3>5
      <4> HIDE DEF new, q, near
      <4> QED
        BY <3>1, <3>3, <4>1
    <3> QED
      BY <3>4, <3>5
  <2>12. SumFunctionOnSet(more, B) = -SumFunctionOnSet(q, near \cap B)
    <3>1. /\ \A t \in near \cap B : more[t] \in Int /\ q[t] \in Int /\ 1 * more[t] = (-1) * q[t]
          /\ \A t \in B \ (near \cap B) : more[t] = 0
          /\ \A t \in B : more[t] \in Int
      BY <2>2, <2>3, <2>4, <2>10
    <3> HIDE DEF more, q, near, B
    <3>2. IsFiniteSet(near \cap B) /\ near \cap B \in SUBSET B /\ IsFiniteSet(B \ (near \cap B))
      BY <2>2, FS_Subset
    <3>3. 1 * SumFunctionOnSet(more, near \cap B) = (-1) * SumFunctionOnSet(q, near \cap B)
      BY <3>1, <3>2, SumScaled
    <3>4. SumFunctionOnSet(more, B \ (near \cap B)) = 0
      <4>1. /\ Cardinality(B \ (near \cap B)) \in Nat
            /\ SumFunctionOnSet(more, B \ (near \cap B)) = Cardinality(B \ (near \cap B)) * 0
        BY <3>1, <3>2, SumConstant
      <4> QED
        BY <4>1
    <3>5. SumFunctionOnSet(more, B)
            = SumFunctionOnSet(more, near \cap B) + SumFunctionOnSet(more, B \ (near \cap B))
      BY <2>2, <3>1, <3>2, SumSplit
    <3>6. SumFunctionOnSet(more, near \cap B) \in Int
      BY <3>1, <3>2, SumInt
    <3> QED
      BY <2>11, <3>3, <3>4, <3>5, <3>6
  <2> HIDE DEF new, old, more, q, near, B
  <2>13. SumFunctionOnSet(new, A) = 0
    BY <2>6, <2>7, <2>9, <2>11, <2>12
  <2> QED
    BY <2>13 DEF new
<1>3. IsFiniteSet(Turfs)
  BY FdmAssumption
<1> HIDE DEF P
<1>4. \A A \in SUBSET Turfs : A \in P
  BY <1>1, <1>2, <1>3, FiniteInduction
<1> QED
  BY <1>4 DEF P

\* A division rounds by less than what it divides by.
LEMMA Remainders ==
    ASSUME NEW d \in Nat \ {0}, NEW m \in Int
    PROVE  m \div d \in Int /\ m % d \in Int /\ m = d * (m \div d) + (m % d) /\ 0 <= m % d /\ m % d < d
<1>1. m \div d \in Int /\ m % d \in Int
  OBVIOUS
<1>2. 0 <= m % d /\ m % d < d
  OBVIOUS
<1>3. m = d * (m \div d) + (m % d)
  OBVIOUS
<1> QED
  BY <1>1, <1>2, <1>3, Zenon

\* What a turf gains in eighths: what it takes from turfs that the step changes,
\* and no more than it may lose or make.
LEMMA TurfLeak ==
    ASSUME TypeOK, Sealed, NEW A \in SUBSET Turfs, \A u \in Turfs : Processed(u) <=> u \in A,
           \A u \in Turfs : saved[u] = NoCell <=> u \notin A, NEW t \in A
    PROVE  /\ After(t) \in Int /\ base[t] \in Int /\ Leak[t] \in Int /\ From(base, A)[t] \in Int
           /\ Distance(Divisor * (After(t) - base[t]), From(base, A)[t]) <= Leak[t]
<1> DEFINE n == Cardinality(Givers(t))
           s == SumFunctionOnSet(base, Givers(t))
           x == base[t]
           p == Pull(base, t)
           inner == SumFunctionOnSet(p, Givers(t) \cap A)
           outer == SumFunctionOnSet(p, PassedOver(t))
           k == Cardinality(PassedOver(t))
<1>1. base \in [Turfs -> Int] /\ t \in Turfs /\ x \in Int /\ immutable = {} /\ Enabled = Turfs
  BY DEF TypeOK, Sealed
<1>2. IsFiniteSet(Givers(t)) /\ Givers(t) \in SUBSET Turfs /\ n \in Nat
  BY <1>1, GiversFinite
<1>3. s \in Int
  <2>1. \A u \in Givers(t) : base[u] \in Int
    BY <1>1, <1>2
  <2> QED
    BY <1>2, <2>1, SumInt
<1>4. After(t) = x - ((n * x) \div Divisor) + (s \div Divisor)
  BY <1>1 DEF After
<1>5. SumFunctionOnSet(p, Givers(t)) = s - n * x /\ inner \in Int
  <2>1. Givers(t) \cap A \in SUBSET Turfs
    BY <1>2
  <2> QED
    BY <1>1, <1>2, <2>1, SumOfPull
<1>6. PassedOver(t) = Givers(t) \ (Givers(t) \cap A) /\ PassedOver(t) \in SUBSET Givers(t)
  BY <1>2 DEF PassedOver
<1>7. IsFiniteSet(PassedOver(t)) /\ k \in Nat
  BY <1>2, <1>6, FS_Subset, FS_CardinalityType
<1>8. \A u \in Givers(t) : p[u] \in Int /\ p[u] = base[u] - x
  BY <1>1, <1>2 DEF Pull
<1> HIDE DEF n, s, x, p
<1>9. SumFunctionOnSet(p, Givers(t)) = inner + outer
  <2>1. Givers(t) \cap A \in SUBSET Givers(t)
    OBVIOUS
  <2> QED
    BY <1>2, <1>6, <1>8, <2>1, SumSplit
<1>10. MinDelta \in Nat /\ Divisor \in Nat \ {0}
  BY FdmAssumption
<1>11. \A u \in PassedOver(t) : -MinDelta <= p[u] /\ p[u] <= MinDelta /\ p[u] \in Int
  <2> TAKE u \in PassedOver(t)
  <2>1. u \in Givers(t) /\ u \in Turfs /\ ~Processed(u)
    BY <1>2, <1>6
  <2>2. t \in Takers(u)
    BY <1>1, <2>1 DEF Givers, Takers
  <2>3. ~(Distance(base[u], base[t]) >= MinDelta)
    BY <1>1, <2>1, <2>2 DEF Processed, Differs
  <2>4. base[u] \in Int /\ base[t] \in Int
    BY <1>1, <2>1
  <2>5. p[u] = base[u] - base[t]
    BY <1>8, <2>1 DEF x
  <2> QED
    BY <1>10, <2>3, <2>4, <2>5 DEF Distance
<1>12. /\ outer \in Int /\ k * (-MinDelta) <= outer /\ outer <= k * MinDelta
  <2>1. -MinDelta \in Int /\ MinDelta \in Int
    BY <1>10
  <2>2. outer \in Int
    BY <1>7, <1>11, SumInt
  <2>3. k * (-MinDelta) <= outer /\ outer <= k * MinDelta
    BY <1>7, <1>11, <2>1, SumBounds
  <2> QED
    BY <2>2, <2>3
<1> HIDE DEF k, inner, outer
<1> DEFINE m == n * x
           a == m % Divisor
           b == s % Divisor
           y == m \div Divisor
           z == s \div Divisor
           round == IF Rounds(t) THEN Divisor ELSE 0
<1>13. m \in Int
  BY <1>1, <1>2 DEF x
<1>14. /\ y \in Int /\ a \in Int /\ m = Divisor * y + a /\ 0 <= a /\ a < Divisor
       /\ z \in Int /\ b \in Int /\ s = Divisor * z + b /\ 0 <= b /\ b < Divisor
  BY <1>3, <1>10, <1>13, Remainders
<1>15. Rounds(t) <=> a # 0 \/ b # 0
  BY DEF Rounds, n, s, x
<1>16. After(t) = x - y + z
  BY <1>4
<1>17. SumFunctionOnSet(p, Givers(t)) = s - m
  BY <1>5
<1> HIDE DEF m, a, b, y, z
<1>18. After(t) \in Int /\ x \in Int
  BY <1>1, <1>14, <1>16 DEF x
<1>19. Divisor * (After(t) - x) = inner + outer + a - b
  <2>1. Divisor * (After(t) - x) = Divisor * z - Divisor * y
    BY <1>10, <1>14, <1>16, <1>18
  <2>2. Divisor * z \in Int /\ Divisor * y \in Int
    BY <1>10, <1>14
  <2> DEFINE g == Divisor * z
             h == Divisor * y
             e == Divisor * (After(t) - x)
  <2>3. e = g - h /\ g \in Int /\ h \in Int /\ m = h + a /\ s = g + b
    BY <1>14, <2>1, <2>2
  <2>4. inner + outer = s - m
    BY <1>9, <1>17
  <2>5. inner \in Int /\ outer \in Int /\ a \in Int /\ b \in Int
    BY <1>5, <1>12, <1>14
  <2> HIDE DEF e, g, h
  <2>6. e = inner + outer + a - b
    BY <1>3, <1>13, <2>3, <2>4, <2>5
  <2> QED
    BY <2>6 DEF e
<1>20. round \in Int /\ -round <= a - b /\ a - b <= round
  BY <1>10, <1>14, <1>15
<1>21. Leak[t] = MinDelta * k + round
  BY <1>1 DEF Leak, k
<1> DEFINE limit == MinDelta * k
<1>22. limit \in Int /\ -limit <= outer /\ outer <= limit
  <2>1. k * (-MinDelta) = -(MinDelta * k) /\ k * MinDelta = MinDelta * k /\ MinDelta * k \in Int
    BY <1>7, <1>10
  <2> QED
    BY <1>12, <2>1
<1>23. From(base, A)[t] = inner
  BY <1>1 DEF From, inner, p
<1> HIDE DEF limit, round
<1> DEFINE d == Divisor * (After(t) - x)
<1>24. d = inner + outer + a - b
  BY <1>19
<1> HIDE DEF d
<1>25. Distance(d, inner) <= limit + round
  BY <1>5, <1>12, <1>14, <1>20, <1>22, <1>24 DEF Distance
<1>26. limit + round \in Int
  BY <1>20, <1>22
<1> QED
  BY <1>5, <1>18, <1>21, <1>23, <1>25, <1>26 DEF d, x, limit

\* Diffusion neither makes nor loses gas but where a neighbour is passed over.
THEOREM RoomKeepsGas == Spec => NearlyConserved
<1> DEFINE A == {t \in Turfs : saved[t] # NoCell}
<1>1. ASSUME Inv, EndStep, Sealed
      PROVE  Divisor * Distance(Total(gas), Total(base)) <= SumFunctionOnSet(Leak, A)
  <2> DEFINE change == [t \in Turfs |-> gas[t] - base[t]]
             inner == From(base, A)
             rest == [t \in Turfs |-> Divisor * change[t] - inner[t]]
             minus == [t \in Turfs |-> -Leak[t]]
             eighths == [t \in Turfs |-> Divisor * change[t]]
             R == SumFunctionOnSet(rest, A)
             L == SumFunctionOnSet(Leak, A)
             C == SumFunctionOnSet(change, Turfs)
  <2>1. TypeOK /\ phase = "write" /\ todo = {} /\ gas \in [Turfs -> Int] /\ base \in [Turfs -> Int]
    BY <1>1 DEF Inv, EndStep, TypeOK
  <2>2. \A t \in Turfs : Processed(t) <=> t \in A
    BY <1>1, <2>1, CellIsSaved DEF Inv, SavedFromBase
  <2>3. \A t \in Turfs : saved[t] = NoCell <=> t \notin A
    OBVIOUS
  <2>4. /\ \A t \in A : gas[t] = After(t)
        /\ \A t \in Turfs \ A : gas[t] = base[t]
    BY <1>1, <2>1, <2>2 DEF Inv, WrittenOnce
  <2>5. IsFiniteSet(Turfs) /\ IsFiniteSet(A) /\ IsFiniteSet(Turfs \ A) /\ A \in SUBSET Turfs
    BY FdmAssumption, FS_Subset
  <2> HIDE DEF A
  <2>6. \A t \in A : /\ inner[t] \in Int /\ Leak[t] \in Int /\ gas[t] \in Int /\ base[t] \in Int
                     /\ Distance(Divisor * (gas[t] - base[t]), inner[t]) <= Leak[t]
    BY <1>1, <2>1, <2>2, <2>3, <2>4, <2>5, TurfLeak
  <2>7. Divisor \in Nat \ {0}
    BY FdmAssumption
  <2>8. \A t \in Turfs : change[t] \in Int /\ eighths[t] \in Int /\ eighths[t] = Divisor * change[t]
                         /\ change[t] = gas[t] - base[t]
    BY <2>1, <2>7
  <2>9. \A t \in A : /\ rest[t] \in Int /\ minus[t] \in Int /\ -Leak[t] = minus[t]
                     /\ rest[t] = eighths[t] - inner[t]
    BY <2>5, <2>6, <2>8
  <2> HIDE DEF change, inner, rest, minus, eighths
  <2>10. \A t \in A : eighths[t] = inner[t] + rest[t] /\ minus[t] <= rest[t] /\ rest[t] <= Leak[t]
    <3> TAKE t \in A
    <3>1. eighths[t] = Divisor * (gas[t] - base[t]) /\ eighths[t] \in Int
      BY <2>5, <2>8
    <3>2. Distance(eighths[t], inner[t]) <= Leak[t]
      BY <2>6, <3>1
    <3> QED
      BY <2>6, <2>9, <3>1, <3>2 DEF Distance
  <2>11. SumFunctionOnSet(inner, A) = 0
    BY <1>1, <2>1, <2>5, PullsCancel DEF inner, Sealed, Symmetric
  <2>12. SumFunctionOnSet(eighths, A) = SumFunctionOnSet(inner, A) + R
    BY <2>5, <2>6, <2>9, <2>10, SumPlus
  <2>13. R \in Int /\ L \in Int
    BY <2>5, <2>6, <2>9, SumInt
  <2>14. R <= L
    BY <2>5, <2>6, <2>9, <2>10, SumWithin
  <2>15. -L <= R
    <3>1. SumFunctionOnSet(minus, A) <= R
      BY <2>5, <2>9, <2>10, SumWithin
    <3>2. \A t \in A : 1 * minus[t] = (-1) * Leak[t]
      BY <2>6, <2>9
    <3>3. 1 * SumFunctionOnSet(minus, A) = (-1) * L
      BY <2>5, <2>6, <2>9, <3>2, SumScaled
    <3>4. SumFunctionOnSet(minus, A) \in Int
      BY <2>5, <2>9, SumInt
    <3> QED
      BY <2>13, <3>1, <3>3, <3>4
  <2>16. SumFunctionOnSet(change, A) \in Int
    BY <2>5, <2>8, SumInt
  <2>17. C = SumFunctionOnSet(change, A)
    <3>1. C = SumFunctionOnSet(change, A) + SumFunctionOnSet(change, Turfs \ A)
      BY <2>5, <2>8, SumSplit
    <3>2. \A t \in Turfs \ A : change[t] = 0
      BY <2>1, <2>4, <2>8
    <3>3. /\ Cardinality(Turfs \ A) \in Nat
          /\ SumFunctionOnSet(change, Turfs \ A) = Cardinality(Turfs \ A) * 0
      BY <2>5, <3>2, SumConstant
    <3> QED
      BY <2>16, <3>1, <3>3
  <2>18. Divisor * C = R
    <3>1. \A t \in A : change[t] \in Int /\ eighths[t] \in Int /\ 1 * eighths[t] = Divisor * change[t]
      BY <2>5, <2>8
    <3>2. 1 * SumFunctionOnSet(eighths, A) = Divisor * SumFunctionOnSet(change, A)
      BY <2>5, <2>7, <3>1, SumScaled
    <3>3. SumFunctionOnSet(eighths, A) = R
      BY <2>11, <2>12, <2>13
    <3> QED
      BY <2>13, <2>17, <3>2, <3>3
  <2>19. Total(gas) \in Int /\ Total(base) \in Int /\ Total(gas) = Total(base) + C
    <3>1. \A t \in Turfs : gas[t] \in Int /\ base[t] \in Int /\ gas[t] = base[t] + change[t]
      BY <2>1, <2>8
    <3>2. SumFunctionOnSet(gas, Turfs) \in Int /\ SumFunctionOnSet(base, Turfs) \in Int
      BY <2>5, <3>1, SumInt
    <3>3. SumFunctionOnSet(gas, Turfs) = SumFunctionOnSet(base, Turfs) + C
      BY <2>5, <2>8, <3>1, SumPlus
    <3> QED
      BY <3>2, <3>3 DEF Total
  <2>20. C \in Int
    BY <2>16, <2>17
  <2> HIDE DEF R, L, C
  <2>21. Distance(Total(gas), Total(base)) = C \/ Distance(Total(gas), Total(base)) = -C
    BY <2>19, <2>20 DEF Distance
  <2>22. Divisor * (-C) = -R
    <3>1. Divisor * (-C) = -(Divisor * C)
      BY <2>7, <2>20
    <3> QED
      BY <2>18, <3>1
  <2>23. Divisor * Distance(Total(gas), Total(base)) <= L
    <3>1. Divisor * Distance(Total(gas), Total(base)) \in {R, -R}
      BY <2>18, <2>21, <2>22
    <3> QED
      BY <2>13, <2>14, <2>15, <3>1
  <2> QED
    BY <2>23 DEF L
<1>2. Inv /\ [Next]_vars =>
        [EndStep /\ Sealed =>
            Divisor * Distance(Total(gas), Total(base)) <= SumFunctionOnSet(Leak, A)]_vars
  BY <1>1
<1> QED
  BY <1>2, Invariant, PTL DEF Spec, NearlyConserved
=============================================================================
