----------------------------- MODULE ArenaProofs -----------------------------
(***************************************************************************)
(* Theorems about the two arenas, and about the overlays of the turfs.      *)
(*                                                                          *)
(* The gas arena, for any number of datums and any initial capacities of the*)
(* two vectors.  Assumption: ArenaAssumption only; where a theorem needs DM *)
(* to unregister a datum once it says Disciplined.                          *)
(*                                                                          *)
(* The turf arena: map and graph stay in step, for any number of turfs and  *)
(* any choice of the vacant node index that add_node takes.                 *)
(*                                                                          *)
(* The overlays: a turf that was never looked at has one under way, for any *)
(* turfs, looks and order of the workers of post_process.                   *)
(***************************************************************************)
EXTENDS GasArena, TurfGraph, Visuals, InductionLemmas

-----------------------------------------------------------------------------
(***************************************************************************)
(* Lemmas on the vectors.                                                   *)
(***************************************************************************)

\* A vector that has grown holds what it has to and never shrinks: Vec's
\* reserve, as push and extend in register_mix and unregister_mix call it.
LEMMA GrownFits ==
    ASSUME NEW cap \in Nat, NEW n \in Nat
    PROVE  Grown(cap, n) \in Nat /\ n <= Grown(cap, n) /\ cap <= Grown(cap, n)
BY DEF Grown

\* A refill of register_mix never asks for a negative number of indices,
\* which would wrap around in the unsigned arithmetic of the code.
LEMMA RefillIsNat ==
    ASSUME NEW cap \in Nat, NEW n \in Nat, n <= cap,
           idsCap \in Nat, Reserve < idsCap
    PROVE  RefillSize(cap, n) \in Nat
BY ArenaAssumption DEF RefillSize

\* What Vec::pop, as register_mix calls it, leaves of a non-empty stack.
LEMMA PopFacts ==
    ASSUME NEW s \in Seq(Nat), s # << >>,
           NEW rest, rest = SubSeq(s, 1, Len(s) - 1)
    PROVE  /\ Len(s) \in Nat \ {0}
           /\ rest \in Seq(Nat)
           /\ Len(rest) = Len(s) - 1
           /\ \A k \in 1..(Len(s) - 1) : k \in 1..Len(s) /\ rest[k] = s[k]
           /\ s[Len(s)] \in Nat
<1> DEFINE n == Len(s) - 1
<1>0. Len(s) \in Nat \ {0}
  OBVIOUS
<1>1. Len(s) \in Nat \ {0} /\ n \in Nat /\ s[Len(s)] \in Nat
  BY <1>0
<1>2. \A k \in 1..n : k \in 1..Len(s) /\ s[k] \in Nat /\ 1 + k - 1 = k
  <2> TAKE k \in 1..n
  <2>1. k \in 1..Len(s) /\ 1 + k - 1 = k
    BY <1>0
  <2> QED
    BY <2>1
<1> HIDE DEF n
<1>3. n - 1 + 1 = n /\ (IF 1 <= n THEN n ELSE 0) = n
  BY <1>1
<1>4. /\ rest \in Seq(Nat)
      /\ Len(rest) = IF 1 <= n THEN n - 1 + 1 ELSE 0
      /\ \A k \in 1..(n - 1 + 1) : rest[k] = s[1 + k - 1]
  BY <1>1, <1>2, SubSeqProperties DEF n
<1>5. Len(rest) = n /\ \A k \in 1..n : rest[k] = s[k]
  BY <1>2, <1>3, <1>4
<1> QED
  BY <1>1, <1>2, <1>4, <1>5 DEF n

-----------------------------------------------------------------------------
\* The capacity of NEXT_GAS_IDS never falls to the reserve.
Roomy == Reserve < idsCap

\* A pointer that was ever written is an index of the arena.
PointersExist == \A d \in Datums : pointer[d] # NoPointer => pointer[d] \in Slots

Typed == TypeOK /\ Roomy

\* One push of register_mix, as the state functions the proofs need: the size
\* of the refill and the lengths around it.
LEMMA PushFacts ==
    ASSUME Typed, NEW d \in Datums, NEW vol \in Volumes, RegisterPush(d, vol)
    PROVE  \E size \in Nat :
              /\ ids' = [k \in 1..size |-> len + k]
              /\ len' = len + 1 + size
              /\ mixtures' = [i \in 0..(len + size) |->
                                IF i < len THEN mixtures[i]
                                ELSE FromVol(IF i = len THEN vol ELSE DefaultVolume)]
              /\ arenaCap' \in Nat
<1> DEFINE cap == Grown(arenaCap, len + 1)
           size == RefillSize(cap, len + 1)
<1>0. arenaCap \in Nat /\ len + 1 \in Nat /\ idsCap \in Nat /\ Reserve < idsCap
  BY DEF Typed, TypeOK, Roomy
<1>1. cap \in Nat /\ len + 1 <= cap
  BY <1>0, GrownFits
<1>2. size \in Nat
  <2> HIDE DEF cap
  <2> QED
    BY <1>0, <1>1, RefillIsNat
<1>3. arenaCap' \in Nat
  <2>1. arenaCap' = Grown(cap, len + 1 + size)
    BY DEF RegisterPush
  <2>2. len + 1 + size \in Nat
    BY <1>2 DEF Typed, TypeOK
  <2> HIDE DEF cap, size
  <2> QED
    BY <1>1, <2>1, <2>2, GrownFits
<1>4. ids' = [k \in 1..size |-> len + 1 + k - 1] /\ len' = len + 1 + size
  BY DEF RegisterPush
<1>5. mixtures' = [i \in 0..(len + 1 + size - 1) |->
                     IF i < len THEN mixtures[i]
                     ELSE FromVol(IF i = len THEN vol ELSE DefaultVolume)]
  BY DEF RegisterPush
<1> HIDE DEF size
<1>6. len \in Nat /\ len + 1 + size - 1 = len + size
  BY <1>2 DEF Typed, TypeOK
<1>7. [k \in 1..size |-> len + 1 + k - 1] = [k \in 1..size |-> len + k]
  BY <1>2, <1>6
<1> QED
  BY <1>2, <1>3, <1>4, <1>5, <1>6, <1>7

\* What register_mix does to the slot it pops is to make it a new mixture,
\* whatever its last owner left there.
LEMMA ClearWithVolIsFresh ==
    ASSUME NEW mix \in Mixture, NEW vol \in Volumes
    PROVE  ClearWithVol(mix, vol) = FromVol(vol)
BY ArenaAssumption DEF ClearWithVol, Clear, FromVol, Mixture

LEMMA FromVolIsMixture ==
    ASSUME NEW vol \in Volumes
    PROVE  FromVol(vol) \in Mixture
BY ArenaAssumption DEF FromVol, Mixture

-----------------------------------------------------------------------------
LEMMA InitTyped == Init => Typed
BY ArenaAssumption DEF Init, Typed, TypeOK, Roomy, Slots

LEMMA StepTyped == Typed /\ [Next]_vars => Typed'
<1> SUFFICES ASSUME Typed, [Next]_vars PROVE Typed'
  OBVIOUS
<1> USE DEF Typed, TypeOK, Roomy, Slots
<1>1. ASSUME NEW d \in Datums, NEW vol \in Volumes, RegisterPush(d, vol)
      PROVE  Typed'
  <2>1. PICK size \in Nat :
              /\ ids' = [k \in 1..size |-> len + k]
              /\ len' = len + 1 + size
              /\ mixtures' = [i \in 0..(len + size) |->
                                IF i < len THEN mixtures[i]
                                ELSE FromVol(IF i = len THEN vol ELSE DefaultVolume)]
              /\ arenaCap' \in Nat
    BY <1>1, PushFacts
  <2>2. ids' \in Seq(Nat)
    BY <2>1
  <2>3. mixtures' \in [Slots' -> Mixture]
    <3>1. Slots' = 0..(len + size)
      BY <2>1
    <3>2. FromVol(vol) \in Mixture /\ FromVol(DefaultVolume) \in Mixture
      BY FromVolIsMixture, ArenaAssumption
    <3> QED
      BY <2>1, <3>1, <3>2
  <2> QED
    BY <1>1, <2>1, <2>2, <2>3 DEF RegisterPush
<1>2. ASSUME NEW d \in Datums, NEW vol \in Volumes, RegisterPop(d, vol)
      PROVE  Typed'
  <2> DEFINE idx == ids[Len(ids)]
  <2>1. ids' \in Seq(Nat) /\ idx \in Nat
    BY <1>2 DEF RegisterPop
  <2>2. mixtures' \in [Slots' -> Mixture]
    BY <1>2, ClearWithVolIsFresh, FromVolIsMixture DEF RegisterPop
  <2> QED
    BY <1>2, <2>1, <2>2 DEF RegisterPop
<1>3. ASSUME NEW d \in Datums, Unregister(d)
      PROVE  Typed'
  <2>1. ids' \in Seq(Nat)
    BY <1>3 DEF Unregister
  <2>2. idsCap' \in Nat /\ idsCap <= idsCap'
    BY <1>3, GrownFits DEF Unregister
  <2> QED
    BY <1>3, <2>1, <2>2, ArenaAssumption DEF Unregister
<1>4. ASSUME NEW d \in Datums, NEW c \in Contents, SetContents(d, c)
      PROVE  Typed'
  BY <1>4 DEF SetContents, Mixture
<1>5. ASSUME NEW d \in Datums, MarkImmutable(d)
      PROVE  Typed'
  BY <1>5 DEF MarkImmutable, Mixture
<1>6. CASE UNCHANGED vars
  BY <1>6 DEF vars
<1> QED
  BY <1>1, <1>2, <1>3, <1>4, <1>5, <1>6 DEF Next

\* The vectors, the pointers and the mixtures keep their types, and
\* NEXT_GAS_IDS always has more room than the reserve that register_mix
\* subtracts from its capacity.
THEOREM TypeCorrect == Spec => []TypeOK
<1>1. Spec => []Typed
  BY InitTyped, StepTyped, PTL DEF Spec
<1> QED
  BY <1>1, PTL DEF Typed

-----------------------------------------------------------------------------
(***************************************************************************)
(* Free indices exist.  The index a datum holds came from the arena and the *)
(* arena never shrinks, so pushing it back, once or many times, keeps the   *)
(* stack inside the arena.                                                  *)
(***************************************************************************)
InBounds == Typed /\ FreeIdsExist /\ PointersExist

LEMMA InitInBounds == Init => InBounds
<1> SUFFICES ASSUME Init PROVE FreeIdsExist /\ PointersExist
  BY InitTyped DEF InBounds
<1> QED
  BY DEF Init, FreeIdsExist, FreeIds, PointersExist, Slots

LEMMA StepInBounds == InBounds /\ [Next]_vars => InBounds'
<1> SUFFICES ASSUME InBounds, [Next]_vars PROVE FreeIdsExist' /\ PointersExist'
  BY StepTyped DEF InBounds
<1> USE DEF InBounds, FreeIdsExist, FreeIds, PointersExist, Slots
<1>1. ASSUME NEW d \in Datums, NEW vol \in Volumes, RegisterPush(d, vol)
      PROVE  FreeIdsExist' /\ PointersExist'
  <2>1. PICK size \in Nat :
              /\ ids' = [k \in 1..size |-> len + k]
              /\ len' = len + 1 + size
    BY <1>1, PushFacts
  <2>2. len \in Nat /\ pointer \in [Datums -> Nat \cup {NoPointer}]
    BY DEF Typed, TypeOK
  <2>3. pointer' = [pointer EXCEPT ![d] = len]
    BY <1>1 DEF RegisterPush
  <2> QED
    BY <2>1, <2>2, <2>3
<1>2. ASSUME NEW d \in Datums, NEW vol \in Volumes, RegisterPop(d, vol)
      PROVE  FreeIdsExist' /\ PointersExist'
  <2> DEFINE last == Len(ids)
  <2>1. ids \in Seq(Nat) /\ ids # << >> /\ last \in Nat \ {0}
    BY <1>2 DEF RegisterPop, Typed, TypeOK
  <2>2. /\ Len(ids') = last - 1
        /\ \A k \in 1..Len(ids') : k \in 1..last /\ ids'[k] = ids[k]
    <3>1. ids' = SubSeq(ids, 1, Len(ids) - 1)
      BY <1>2 DEF RegisterPop
    <3>2. /\ Len(ids') = Len(ids) - 1
          /\ \A k \in 1..(Len(ids) - 1) : k \in 1..Len(ids) /\ ids'[k] = ids[k]
      BY <2>1, <3>1, PopFacts
    <3> QED
      BY <3>2
  <2>3. pointer' = [pointer EXCEPT ![d] = ids[last]] /\ len' = len
    BY <1>2 DEF RegisterPop
  <2>4. ids[last] \in Slots
    BY <2>1
  <2> HIDE DEF last
  <2>5. pointer \in [Datums -> Nat \cup {NoPointer}]
    BY DEF Typed, TypeOK
  <2>6. \A k \in 1..Len(ids') : ids'[k] \in Slots
    BY <2>2 DEF last
  <2>7. \A e \in Datums : pointer'[e] # NoPointer => pointer'[e] \in Slots
    BY <2>3, <2>4, <2>5
  <2> QED
    BY <2>3, <2>6, <2>7
<1>3. ASSUME NEW d \in Datums, Unregister(d)
      PROVE  FreeIdsExist' /\ PointersExist'
  <2>1. ids \in Seq(Nat) /\ ids' = Append(ids, pointer[d])
    BY <1>3 DEF Unregister, Typed, TypeOK
  <2>2. pointer[d] \in Slots /\ len' = len /\ pointer' = pointer
    BY <1>3 DEF Unregister
  <2>3. \A k \in 1..Len(ids') : (k \in 1..Len(ids) /\ ids'[k] = ids[k]) \/ ids'[k] = pointer[d]
    BY <2>1, <2>2
  <2> QED
    BY <2>2, <2>3
<1>4. ASSUME NEW d \in Datums, NEW c \in Contents, SetContents(d, c)
      PROVE  FreeIdsExist' /\ PointersExist'
  BY <1>4 DEF SetContents
<1>5. ASSUME NEW d \in Datums, MarkImmutable(d)
      PROVE  FreeIdsExist' /\ PointersExist'
  BY <1>5 DEF MarkImmutable
<1>6. CASE UNCHANGED vars
  BY <1>6 DEF vars
<1> QED
  BY <1>1, <1>2, <1>3, <1>4, <1>5, <1>6 DEF Next

\* The index register_mix pops is always an index of the arena, even when DM
\* unregisters a datum more than once: its unwrap() cannot panic.
THEOREM PoppedIndexExists == Spec => []FreeIdsExist
<1>1. Spec => []InBounds
  BY InitInBounds, StepInBounds, PTL DEF Spec
<1> QED
  BY <1>1, PTL DEF InBounds

-----------------------------------------------------------------------------
(***************************************************************************)
(* With a disciplined DM, the slots are partitioned into free and owned.    *)
(***************************************************************************)
\* The datums that are live have a pointer; SlotsPartition says where to.
Partition == InBounds /\ SlotsPartition /\ \A d \in live : pointer[d] # NoPointer

LEMMA InitPartition == Init => Partition
<1> SUFFICES ASSUME Init PROVE SlotsPartition
  BY InitInBounds DEF Partition, Init
<1> QED
  BY DEF Init, SlotsPartition, FreeIds, Used, Slots

\* The hooks that write mixtures do not touch what the partition speaks of.
LEMMA Unaffected ==
    ASSUME Partition, UNCHANGED <<len, ids, pointer, live>>
    PROVE  SlotsPartition' /\ \A e \in live' : pointer'[e] # NoPointer
<1>1. FreeIds' = FreeIds /\ Used' = Used /\ Slots' = Slots
  BY DEF FreeIds, Used, Slots
<1> QED
  BY <1>1 DEF Partition, SlotsPartition

LEMMA StepPartition == Disciplined /\ Partition /\ [Next]_vars => Partition'
<1> SUFFICES ASSUME Disciplined, Partition, [Next]_vars
             PROVE  SlotsPartition' /\ \A d \in live' : pointer'[d] # NoPointer
  BY StepInBounds DEF Partition
<1>t. /\ len \in Nat /\ ids \in Seq(Nat) /\ live \in SUBSET Datums
      /\ pointer \in [Datums -> Nat \cup {NoPointer}]
      /\ NoPointer \notin Int
  BY ArenaAssumption DEF Partition, InBounds, Typed, TypeOK
<1>u. Slots = 0..(len - 1) /\ (\A d \in live : pointer[d] # NoPointer) /\ SlotsPartition
  BY DEF Partition, Slots
<1>1. ASSUME NEW d \in Datums, NEW vol \in Volumes, RegisterPush(d, vol)
      PROVE  SlotsPartition' /\ \A e \in live' : pointer'[e] # NoPointer
  <2>1. PICK size \in Nat :
              /\ ids' = [k \in 1..size |-> len + k]
              /\ len' = len + 1 + size
    BY <1>1, PushFacts DEF Partition, InBounds
  <2>2. /\ pointer' = [pointer EXCEPT ![d] = len]
        /\ live' = live \cup {d} /\ d \notin live /\ ids = << >>
    BY <1>1 DEF RegisterPush
  <2>3. FreeIds = {} /\ Used = 0..(len - 1)
    <3>1. 1..Len(ids) = {}
      BY <2>2
    <3>2. FreeIds = {}
      BY <3>1 DEF FreeIds
    <3> QED
      BY <1>u, <3>2 DEF SlotsPartition
  <2>4. Used' = Used \cup {len}
    BY <2>2, <1>t DEF Used
  <2>5. FreeIds' = (len + 1)..(len + size)
    <3>1. Len(ids') = size /\ \A k \in 1..size : ids'[k] = len + k
      BY <2>1
    <3>2. \A i \in (len + 1)..(len + size) : i - len \in 1..size /\ i = len + (i - len)
      BY <1>t, <2>1
    <3>3. \A k \in 1..size : len + k \in (len + 1)..(len + size)
      BY <1>t, <2>1
    <3> QED
      BY <3>1, <3>2, <3>3 DEF FreeIds
  <2>6. FreeIds' \cup Used' = Slots' /\ FreeIds' \cap Used' = {}
    BY <1>t, <2>1, <2>3, <2>4, <2>5 DEF Slots
  <2>7. \A j, k \in 1..Len(ids') : ids'[j] = ids'[k] => j = k
    BY <1>t, <2>1
  <2>8. \A e, f \in live' : pointer'[e] = pointer'[f] => e = f
    BY <1>t, <1>u, <2>2, <2>3 DEF Used, SlotsPartition
  <2>9. \A e \in live' : pointer'[e] # NoPointer
    BY <1>t, <1>u, <2>2
  <2> QED
    BY <2>6, <2>7, <2>8, <2>9 DEF SlotsPartition
<1>2. ASSUME NEW d \in Datums, NEW vol \in Volumes, RegisterPop(d, vol)
      PROVE  SlotsPartition' /\ \A e \in live' : pointer'[e] # NoPointer
  <2> DEFINE last == Len(ids)
             idx  == ids[last]
  <2>1. last \in Nat \ {0}
    BY <1>2, <1>t DEF RegisterPop
  <2>2. /\ Len(ids') = last - 1
        /\ \A k \in 1..(last - 1) : ids'[k] = ids[k]
    <3>1. ids' = SubSeq(ids, 1, Len(ids) - 1) /\ ids # << >> /\ ids \in Seq(Nat)
      BY <1>2, <1>t DEF RegisterPop
    <3>2. /\ Len(ids') = Len(ids) - 1
          /\ \A k \in 1..(Len(ids) - 1) : ids'[k] = ids[k]
      BY <3>1, PopFacts
    <3> QED
      BY <3>2
  <2>3. /\ pointer' = [pointer EXCEPT ![d] = idx] /\ len' = len
        /\ live' = live \cup {d} /\ d \notin live
    BY <1>2 DEF RegisterPop
  <2>4. idx \in FreeIds /\ idx \in Nat
    BY <1>t, <2>1 DEF FreeIds
  <2>5. idx \notin Used
    BY <1>u, <2>4 DEF SlotsPartition
  <2>6. FreeIds' = FreeIds \ {idx}
    <3>1. \A k \in 1..last : ids[k] = idx => k = last
      BY <1>u, <2>1 DEF SlotsPartition
    <3>2. \A k \in 1..(last - 1) : ids[k] # idx
      BY <3>1, <2>1
    <3>3. \A k \in 1..last : k = last \/ k \in 1..(last - 1)
      BY <2>1
    <3>4. FreeIds' = {ids[k] : k \in 1..(last - 1)}
      BY <2>1, <2>2 DEF FreeIds
    <3>5. FreeIds = {ids[k] : k \in 1..last}
      BY DEF FreeIds
    <3>6. \A k \in 1..(last - 1) : k \in 1..last
      BY <2>1
    <3> HIDE DEF last
    <3> QED
      BY <3>2, <3>3, <3>4, <3>5, <3>6
  <2>7. Used' = Used \cup {idx}
    BY <1>t, <2>3 DEF Used
  <2>8. FreeIds' \cup Used' = Slots' /\ FreeIds' \cap Used' = {}
    BY <1>u, <2>3, <2>4, <2>5, <2>6, <2>7 DEF SlotsPartition, Slots
  <2>9. \A j, k \in 1..Len(ids') : ids'[j] = ids'[k] => j = k
    <3>1. \A k \in 1..Len(ids') : k \in 1..last /\ ids'[k] = ids[k]
      BY <2>1, <2>2
    <3> QED
      BY <1>u, <3>1 DEF SlotsPartition
  <2>10. \A e, f \in live' : pointer'[e] = pointer'[f] => e = f
    BY <1>t, <1>u, <2>3, <2>5 DEF Used, SlotsPartition
  <2>11. \A e \in live' : pointer'[e] # NoPointer
    BY <1>t, <1>u, <2>3, <2>4
  <2> QED
    BY <2>8, <2>9, <2>10, <2>11 DEF SlotsPartition
<1>3. ASSUME NEW d \in Datums, Unregister(d)
      PROVE  SlotsPartition' /\ \A e \in live' : pointer'[e] # NoPointer
  <2> DEFINE idx == pointer[d]
             last == Len(ids)
  <2>1. /\ ids' = Append(ids, idx) /\ len' = len /\ pointer' = pointer
        /\ live' = live \ {d} /\ d \in live
    BY <1>3 DEF Unregister
  <2>2. idx \in Used /\ idx \in Nat /\ last \in Nat
    BY <1>t, <1>u, <2>1 DEF Used
  <2>3. idx \notin FreeIds
    BY <1>u, <2>2 DEF SlotsPartition
  <2>4. /\ Len(ids') = last + 1 /\ ids'[last + 1] = idx
        /\ \A k \in 1..last : ids'[k] = ids[k]
    BY <1>t, <2>1, <2>2
  <2>5. \A k \in 1..(last + 1) : k \in 1..last \/ k = last + 1
    BY <2>2
  <2>6. FreeIds' = FreeIds \cup {idx}
    <3>1. FreeIds' = {ids'[k] : k \in 1..(last + 1)}
      BY <2>4 DEF FreeIds
    <3>2. FreeIds = {ids[k] : k \in 1..last}
      BY DEF FreeIds
    <3>3. \A k \in 1..last : k \in 1..(last + 1)
      BY <2>2
    <3>4. last + 1 \in 1..(last + 1)
      BY <2>2
    <3> HIDE DEF last, idx
    <3> QED
      BY <2>4, <2>5, <3>1, <3>2, <3>3, <3>4
  <2>7. Used' = Used \ {idx}
    BY <1>u, <2>1 DEF Used, SlotsPartition
  <2>8. FreeIds' \cup Used' = Slots' /\ FreeIds' \cap Used' = {}
    BY <1>u, <2>1, <2>2, <2>3, <2>6, <2>7 DEF SlotsPartition, Slots
  <2>9. \A j, k \in 1..Len(ids') : ids'[j] = ids'[k] => j = k
    <3>1. \A k \in 1..last : ids[k] # idx
      BY <2>3 DEF FreeIds
    <3> HIDE DEF idx, last
    <3>2. \A j, k \in 1..last : ids[j] = ids[k] => j = k
      BY <1>u DEF SlotsPartition, last
    <3> QED
      BY <2>4, <2>5, <3>1, <3>2
  <2> QED
    BY <1>u, <2>1, <2>8, <2>9 DEF SlotsPartition
<1>4. ASSUME NEW d \in Datums, NEW c \in Contents, SetContents(d, c)
      PROVE  SlotsPartition' /\ \A e \in live' : pointer'[e] # NoPointer
  <2>1. UNCHANGED <<len, ids, pointer, live>>
    BY <1>4 DEF SetContents
  <2> QED
    BY <2>1, Unaffected
<1>5. ASSUME NEW d \in Datums, MarkImmutable(d)
      PROVE  SlotsPartition' /\ \A e \in live' : pointer'[e] # NoPointer
  <2>1. UNCHANGED <<len, ids, pointer, live>>
    BY <1>5 DEF MarkImmutable
  <2> QED
    BY <2>1, Unaffected
<1>6. CASE UNCHANGED vars
  BY <1>6, Unaffected DEF vars
<1> QED
  BY <1>1, <1>2, <1>3, <1>4, <1>5, <1>6 DEF Next

\* If DM unregisters each datum once, register_mix never hands out a mixture
\* that is in use and no slot of the arena is lost.
THEOREM SlotsArePartitioned ==
    ASSUME Disciplined
    PROVE  Spec => []SlotsPartition
<1>1. Init => Partition
  BY InitPartition
<1>2. Partition /\ [Next]_vars => Partition'
  BY StepPartition
<1>3. Partition => SlotsPartition
  BY DEF Partition
<1> QED
  BY <1>1, <1>2, <1>3, PTL DEF Spec

-----------------------------------------------------------------------------
(***************************************************************************)
(* amt_gases.  Neither vector knows the datums, but each operation moves    *)
(* the difference of the lengths along with the number of live datums.      *)
(***************************************************************************)
Counted == Typed /\ IsFiniteSet(live) /\ AmtCountsLive

LEMMA InitCounted == Init => Counted
<1> SUFFICES ASSUME Init PROVE IsFiniteSet(live) /\ AmtCountsLive
  BY InitTyped DEF Counted
<1>1. live = {} /\ len = 0 /\ Len(ids) = 0
  BY DEF Init
<1> QED
  BY <1>1, FS_EmptySet DEF AmtCountsLive, AmtGases

LEMMA StepCounted == Disciplined /\ Counted /\ [Next]_vars => Counted'
<1> SUFFICES ASSUME Disciplined, Counted, [Next]_vars
             PROVE  IsFiniteSet(live') /\ AmtCountsLive'
  BY StepTyped DEF Counted
<1>t. /\ len \in Nat /\ ids \in Seq(Nat) /\ Len(ids) \in Nat
      /\ IsFiniteSet(live) /\ len - Len(ids) = Cardinality(live)
  BY DEF Counted, Typed, TypeOK, AmtCountsLive, AmtGases
<1> USE DEF AmtCountsLive, AmtGases
<1>1. ASSUME NEW d, d \notin live, live' = live \cup {d},
             len' - Len(ids') = len - Len(ids) + 1
      PROVE  IsFiniteSet(live') /\ AmtCountsLive'
  BY <1>1, <1>t, FS_AddElement
<1>2. ASSUME NEW d \in Datums, NEW vol \in Volumes, RegisterPush(d, vol)
      PROVE  IsFiniteSet(live') /\ AmtCountsLive'
  <2>1. PICK size \in Nat :
              /\ ids' = [k \in 1..size |-> len + k]
              /\ len' = len + 1 + size
    BY <1>2, PushFacts DEF Counted
  <2>2. d \notin live /\ live' = live \cup {d} /\ ids = << >>
    BY <1>2 DEF RegisterPush
  <2>3. Len(ids') = size /\ Len(ids) = 0
    BY <2>1, <2>2
  <2>4. len' - Len(ids') = len - Len(ids) + 1
    BY <1>t, <2>1, <2>3
  <2> QED
    BY <1>1, <2>2, <2>4
<1>3. ASSUME NEW d \in Datums, NEW vol \in Volumes, RegisterPop(d, vol)
      PROVE  IsFiniteSet(live') /\ AmtCountsLive'
  <2>1. d \notin live /\ live' = live \cup {d} /\ len' = len
    BY <1>3 DEF RegisterPop
  <2>2. ids # << >> /\ ids' = SubSeq(ids, 1, Len(ids) - 1)
    BY <1>3 DEF RegisterPop
  <2>3. Len(ids') = Len(ids) - 1
    BY <1>t, <2>2, PopFacts
  <2>4. len' - Len(ids') = len - Len(ids) + 1
    BY <1>t, <2>1, <2>3
  <2> QED
    BY <1>1, <2>1, <2>4
<1>4. ASSUME NEW d \in Datums, Unregister(d)
      PROVE  IsFiniteSet(live') /\ AmtCountsLive'
  <2>1. d \in live /\ live' = live \ {d} /\ len' = len
    BY <1>4 DEF Unregister
  <2>2. ids' = Append(ids, pointer[d])
    BY <1>4 DEF Unregister
  <2>3. Len(ids') = Len(ids) + 1
    <3>1. pointer[d] \in Nat
      BY <1>4 DEF Unregister, Counted, Typed, TypeOK
    <3> QED
      BY <1>t, <2>2, <3>1
  <2>4. IsFiniteSet(live') /\ Cardinality(live') = Cardinality(live) - 1
    BY <1>t, <2>1, FS_RemoveElement
  <2> QED
    BY <1>t, <2>1, <2>3, <2>4
<1>5. ASSUME NEW d \in Datums, NEW c \in Contents, SetContents(d, c)
      PROVE  IsFiniteSet(live') /\ AmtCountsLive'
  BY <1>5, <1>t DEF SetContents
<1>6. ASSUME NEW d \in Datums, MarkImmutable(d)
      PROVE  IsFiniteSet(live') /\ AmtCountsLive'
  BY <1>6, <1>t DEF MarkImmutable
<1>7. CASE UNCHANGED vars
  BY <1>7, <1>t DEF vars
<1> QED
  BY <1>2, <1>3, <1>4, <1>5, <1>6, <1>7 DEF Next

\* amt_gases, the difference of two lengths read one after the other, is the
\* number of registered datums, so it never underflows.
THEOREM AmtGasesIsExact ==
    ASSUME Disciplined
    PROVE  Spec => []AmtCountsLive
<1>1. Init => Counted
  BY InitCounted
<1>2. Counted /\ [Next]_vars => Counted'
  BY StepCounted
<1>3. Counted => AmtCountsLive
  BY DEF Counted
<1> QED
  BY <1>1, <1>2, <1>3, PTL DEF Spec

-----------------------------------------------------------------------------
(***************************************************************************)
(* The arena implements MixPool.  The map sends a datum to the mixture its  *)
(* index selects; the partition makes the map change in one place per step. *)
(***************************************************************************)
PoolMap == [d \in Datums |-> IF d \in live THEN mixtures[pointer[d]] ELSE NoMix]

LEMMA PoolInit == Init => Pool!Init
BY DEF Init, Pool!Init

LEMMA PoolStep == Disciplined /\ Partition /\ [Next]_vars => [Pool!Next]_PoolMap
<1> SUFFICES ASSUME Disciplined, Partition, [Next]_vars
             PROVE  Pool!Next \/ PoolMap' = PoolMap
  BY DEF PoolMap
<1>t. /\ len \in Nat /\ ids \in Seq(Nat) /\ live \in SUBSET Datums
      /\ pointer \in [Datums -> Nat \cup {NoPointer}]
      /\ mixtures \in [0..(len - 1) -> Mixture]
  BY DEF Partition, InBounds, Typed, TypeOK, Slots
<1>u. /\ \A d \in live : pointer[d] \in 0..(len - 1) /\ mixtures[pointer[d]] \in Mixture
      /\ \A d, e \in live : pointer[d] = pointer[e] => d = e
  BY <1>t DEF Partition, SlotsPartition, Used, Slots
<1>n. \A m \in Mixture : m # NoMix
  BY ArenaAssumption DEF Mixture
<1>f. \A vol : FromVol(vol) = Pool!Empty(vol)
  BY DEF FromVol, Pool!Empty
<1>1. ASSUME NEW d \in Datums, NEW vol \in Volumes, RegisterPush(d, vol)
      PROVE  Pool!Next
  <2>1. PICK size \in Nat :
           mixtures' = [i \in 0..(len + size) |->
                                IF i < len THEN mixtures[i]
                                ELSE FromVol(IF i = len THEN vol ELSE DefaultVolume)]
    BY <1>1, PushFacts DEF Partition, InBounds
  <2>2. /\ pointer' = [pointer EXCEPT ![d] = len] /\ d \notin live
        /\ live' = live \cup {d}
    BY <1>1 DEF RegisterPush
  <2>3. mixtures'[len] = FromVol(vol) /\ pointer'[d] = len
    BY <1>t, <2>1, <2>2
  <2>4. \A e \in live : e # d /\ pointer'[e] = pointer[e] /\ mixtures'[pointer[e]] = mixtures[pointer[e]]
    BY <1>t, <1>u, <2>1, <2>2
  <2>5. PoolMap[d] = NoMix /\ PoolMap' = [PoolMap EXCEPT ![d] = FromVol(vol)]
    BY <2>2, <2>3, <2>4 DEF PoolMap
  <2>6. Pool!New(d, vol)
    BY <1>f, <2>5 DEF Pool!New, PoolMap
  <2> QED
    BY <2>6 DEF Pool!Next
<1>2. ASSUME NEW d \in Datums, NEW vol \in Volumes, RegisterPop(d, vol)
      PROVE  Pool!Next
  <2> DEFINE idx == ids[Len(ids)]
  <2>1. /\ pointer' = [pointer EXCEPT ![d] = idx] /\ d \notin live
        /\ live' = live \cup {d}
        /\ mixtures' = [mixtures EXCEPT ![idx] = ClearWithVol(mixtures[idx], vol)]
        /\ ids # << >>
    BY <1>2 DEF RegisterPop
  <2>2. Len(ids) \in Nat \ {0}
    BY <1>t, <2>1
  <2>3. idx \in FreeIds
    BY <2>2 DEF FreeIds
  <2>4. idx \in 0..(len - 1) /\ \A e \in live : pointer[e] # idx
    BY <2>3 DEF Partition, SlotsPartition, Used, Slots
  <2> HIDE DEF idx
  <2>5. mixtures'[idx] = FromVol(vol) /\ pointer'[d] = idx
    BY <1>t, <2>1, <2>4, ClearWithVolIsFresh
  <2>6. \A e \in live : e # d /\ pointer'[e] = pointer[e] /\ mixtures'[pointer[e]] = mixtures[pointer[e]]
    BY <1>t, <1>u, <2>1, <2>4
  <2>7. PoolMap[d] = NoMix /\ PoolMap' = [PoolMap EXCEPT ![d] = FromVol(vol)]
    BY <2>1, <2>5, <2>6 DEF PoolMap
  <2>8. Pool!New(d, vol)
    BY <1>f, <2>7 DEF Pool!New, PoolMap
  <2> QED
    BY <2>8 DEF Pool!Next
<1>3. ASSUME NEW d \in Datums, Unregister(d)
      PROVE  Pool!Next
  <2>1. /\ d \in live /\ live' = live \ {d} /\ pointer' = pointer
        /\ mixtures' = mixtures
    BY <1>3 DEF Unregister
  <2>2. PoolMap[d] # NoMix /\ PoolMap' = [PoolMap EXCEPT ![d] = NoMix]
    BY <1>u, <1>n, <2>1 DEF PoolMap
  <2>3. Pool!Del(d)
    BY <2>2 DEF Pool!Del, PoolMap
  <2> QED
    BY <2>3 DEF Pool!Next
<1>4. ASSUME NEW d \in Datums, NEW c \in Contents, SetContents(d, c)
      PROVE  Pool!Next
  <2>1. /\ d \in live /\ live' = live /\ pointer' = pointer
        /\ mixtures' = [mixtures EXCEPT ![pointer[d]].contents = c]
        /\ ~mixtures[pointer[d]].immutable
    BY <1>4 DEF SetContents
  <2>2. mixtures'[pointer[d]] = [mixtures[pointer[d]] EXCEPT !.contents = c]
    BY <1>t, <1>u, <2>1
  <2>3. \A e \in live \ {d} : mixtures'[pointer[e]] = mixtures[pointer[e]]
    BY <1>t, <1>u, <2>1
  <2>4. PoolMap[d] = mixtures[pointer[d]]
    BY <2>1 DEF PoolMap
  <2>5. PoolMap' = [PoolMap EXCEPT ![d] = [mixtures[pointer[d]] EXCEPT !.contents = c]]
    BY <2>1, <2>2, <2>3 DEF PoolMap
  <2>6. PoolMap' = [PoolMap EXCEPT ![d].contents = c] /\ PoolMap[d] # NoMix
    BY <1>u, <1>n, <2>1, <2>4, <2>5
  <2>7. Pool!Write(d, c)
    BY <2>1, <2>4, <2>6 DEF Pool!Write, PoolMap
  <2> QED
    BY <2>7 DEF Pool!Next
<1>5. ASSUME NEW d \in Datums, MarkImmutable(d)
      PROVE  Pool!Next
  <2>1. /\ d \in live /\ live' = live /\ pointer' = pointer
        /\ mixtures' = [mixtures EXCEPT ![pointer[d]].immutable = TRUE]
    BY <1>5 DEF MarkImmutable
  <2>2. mixtures'[pointer[d]] = [mixtures[pointer[d]] EXCEPT !.immutable = TRUE]
    BY <1>t, <1>u, <2>1
  <2>3. \A e \in live \ {d} : mixtures'[pointer[e]] = mixtures[pointer[e]]
    BY <1>t, <1>u, <2>1
  <2>4. PoolMap[d] = mixtures[pointer[d]]
    BY <2>1 DEF PoolMap
  <2>5. PoolMap' = [PoolMap EXCEPT ![d] = [mixtures[pointer[d]] EXCEPT !.immutable = TRUE]]
    BY <2>1, <2>2, <2>3 DEF PoolMap
  <2>6. PoolMap' = [PoolMap EXCEPT ![d].immutable = TRUE] /\ PoolMap[d] # NoMix
    BY <1>u, <1>n, <2>1, <2>4, <2>5
  <2>7. Pool!MarkImmutable(d)
    BY <2>6 DEF Pool!MarkImmutable, PoolMap
  <2> QED
    BY <2>7 DEF Pool!Next
<1>6. CASE UNCHANGED vars
  BY <1>6 DEF vars, PoolMap
<1> QED
  BY <1>1, <1>2, <1>3, <1>4, <1>5, <1>6 DEF Next

\* To the DM code every registered datum has a mixture of its own that starts
\* empty: reuse of indices, growth of the vectors and left-over contents never
\* show.
THEOREM ArenaImplementsPool ==
    ASSUME Disciplined
    PROVE  Spec => PoolSpec
<1>1. Init => Partition
  BY InitPartition
<1>2. Partition /\ [Next]_vars => Partition'
  BY StepPartition
<1>3. Partition /\ [Next]_vars => [Pool!Next]_PoolMap
  BY PoolStep
<1>4. Init => Pool!Init
  BY PoolInit
<1> QED
  BY <1>1, <1>2, <1>3, <1>4, PTL DEF Spec, PoolSpec, Pool!Spec, PoolMap

-----------------------------------------------------------------------------
(***************************************************************************)
(* The turf arena.                                                          *)
(***************************************************************************)
Inv == GraphTypeOK /\ MapMatchesNodes /\ EdgesOccupied

\* A node of the graph, as opposed to the mark of a vacant index.
Node == [id : TurfIDs, weight : Weights]

LEMMA InitInv == GraphInit => Inv
<1> SUFFICES ASSUME GraphInit PROVE Inv
  OBVIOUS
<1>1. Indices = {} /\ Occupied = {}
  BY DEF GraphInit, Indices, Occupied
<1>2. GraphTypeOK
  BY <1>1 DEF GraphInit, GraphTypeOK
<1> QED
  BY <1>1, <1>2, TurfAssumption DEF GraphInit, Inv, MapMatchesNodes, EdgesOccupied

\* A turf that was known gets its new weight in its old node (insert_turf).
LEMMA InsertKnown ==
    ASSUME Inv, NEW t \in TurfIDs, NEW w \in Weights, map[t] # NoNode,
           nodes' = [nodes EXCEPT ![map[t]] = [id |-> t, weight |-> w]],
           UNCHANGED <<map, bound, edges>>
    PROVE  /\ nodes' \in [Indices' -> Node \cup {Vacant}]
           /\ Occupied' = Occupied /\ MapMatchesNodes' /\ EdgesOccupied'
           /\ \A n \in Occupied : nodes'[n].id = nodes[n].id
<1>1. map[t] \in Occupied /\ nodes[map[t]].id = t /\ Indices' = Indices
  BY DEF Inv, MapMatchesNodes, Indices
<1>2. [id |-> t, weight |-> w] \in Node /\ [id |-> t, weight |-> w] # Vacant
  BY TurfAssumption DEF Node
<1>3. nodes \in [Indices -> Node \cup {Vacant}]
  BY DEF Inv, GraphTypeOK, Node
<1>4. nodes' \in [Indices' -> Node \cup {Vacant}]
  BY <1>1, <1>2, <1>3
<1>5. \A n \in Indices : nodes'[n] = IF n = map[t] THEN [id |-> t, weight |-> w] ELSE nodes[n]
  BY <1>3
<1>6. Occupied' = Occupied
  BY <1>1, <1>2, <1>5 DEF Occupied
<1>7. \A n \in Occupied : nodes'[n].id = nodes[n].id
  BY <1>1, <1>5 DEF Occupied
<1>8. MapMatchesNodes'
  BY <1>6, <1>7 DEF Inv, MapMatchesNodes
<1>9. EdgesOccupied'
  BY <1>6 DEF Inv, EdgesOccupied
<1> QED
  BY <1>4, <1>6, <1>7, <1>8, <1>9

\* A turf that was not known gets an index that was vacant or is new.
LEMMA InsertNew ==
    ASSUME Inv, NEW t \in TurfIDs, NEW w \in Weights, map[t] = NoNode,
           NEW n \in NewIndices,
           map' = [map EXCEPT ![t] = n],
           bound' = IF n = bound THEN bound + 1 ELSE bound,
           nodes' = [m \in 0..(bound' - 1) |->
                        IF m = n THEN [id |-> t, weight |-> w] ELSE nodes[m]],
           UNCHANGED edges
    PROVE  /\ n \in Nat /\ bound' \in Nat
           /\ nodes' \in [Indices' -> Node \cup {Vacant}]
           /\ n \notin Occupied /\ Occupied' = Occupied \cup {n}
           /\ nodes'[n] = [id |-> t, weight |-> w]
           /\ \A m \in Occupied : nodes'[m] = nodes[m]
           /\ MapMatchesNodes' /\ EdgesOccupied'
<1>1. bound \in Nat /\ map \in [TurfIDs -> Nat \cup {NoNode}]
      /\ nodes \in [Indices -> Node \cup {Vacant}]
  BY DEF Inv, GraphTypeOK, Node
<1>2. n \in Nat /\ n \notin Occupied /\ n <= bound
  BY <1>1 DEF NewIndices, Indices, Occupied
<1>3. bound' \in Nat /\ Indices' = Indices \cup {n}
  BY <1>1, <1>2 DEF Indices
<1>4. [id |-> t, weight |-> w] \in Node /\ [id |-> t, weight |-> w] # Vacant
  BY TurfAssumption DEF Node
<1>5. nodes' = [m \in Indices' |-> IF m = n THEN [id |-> t, weight |-> w] ELSE nodes[m]]
  BY DEF Indices
<1>6. nodes' \in [Indices' -> Node \cup {Vacant}]
  BY <1>1, <1>3, <1>4, <1>5
<1>7. nodes'[n] = [id |-> t, weight |-> w] /\ \A m \in Indices : m # n => nodes'[m] = nodes[m]
  BY <1>3, <1>5
<1>8. Occupied' = Occupied \cup {n} /\ \A m \in Occupied : nodes'[m] = nodes[m]
  BY <1>2, <1>3, <1>4, <1>7 DEF Occupied
<1>9. MapMatchesNodes'
  <2>1. \A u \in TurfIDs : u # t => map'[u] = map[u] /\ map[u] # n
    BY <1>1, <1>2, TurfAssumption DEF Inv, MapMatchesNodes
  <2>2. map'[t] = n
    BY <1>1
  <2>3. \A u \in TurfIDs : map'[u] # NoNode => map'[u] \in Occupied' /\ nodes'[map'[u]].id = u
    BY <1>7, <1>8, <2>1, <2>2 DEF Inv, MapMatchesNodes
  <2>4. \A m \in Occupied : nodes[m].id \in TurfIDs /\ nodes[m].id # t
    BY <1>1, TurfAssumption DEF Inv, MapMatchesNodes, Occupied, Node, Indices
  <2>5. \A m \in Occupied' : map'[nodes'[m].id] = m
    BY <1>7, <1>8, <2>1, <2>2, <2>4 DEF Inv, MapMatchesNodes
  <2> QED
    BY <2>3, <2>5 DEF MapMatchesNodes
<1>10. EdgesOccupied'
  BY <1>8 DEF Inv, EdgesOccupied
<1> QED
  BY <1>2, <1>3, <1>6, <1>7, <1>8, <1>9, <1>10

\* remove_turf vacates the node and takes its edges along.
LEMMA RemoveKnown ==
    ASSUME Inv, NEW t \in TurfIDs, map[t] # NoNode,
           map' = [map EXCEPT ![t] = NoNode],
           nodes' = [nodes EXCEPT ![map[t]] = Vacant],
           edges' = {e \in edges : e[1] # map[t] /\ e[2] # map[t]},
           UNCHANGED bound
    PROVE  /\ nodes' \in [Indices' -> Node \cup {Vacant}]
           /\ Occupied' = Occupied \ {map[t]}
           /\ \A n \in Occupied' : nodes'[n] = nodes[n]
           /\ MapMatchesNodes' /\ EdgesOccupied'
<1>1. map[t] \in Occupied /\ nodes[map[t]].id = t /\ Indices' = Indices
  BY DEF Inv, MapMatchesNodes, Indices
<1>2. nodes \in [Indices -> Node \cup {Vacant}] /\ map \in [TurfIDs -> Nat \cup {NoNode}]
  BY DEF Inv, GraphTypeOK, Node
<1>3. nodes' \in [Indices' -> Node \cup {Vacant}]
  BY <1>1, <1>2
<1>4. \A n \in Indices : nodes'[n] = IF n = map[t] THEN Vacant ELSE nodes[n]
  BY <1>2
<1>5. Occupied' = Occupied \ {map[t]} /\ \A n \in Occupied' : nodes'[n] = nodes[n]
  BY <1>1, <1>4 DEF Occupied
<1>6. \A u \in TurfIDs : map'[u] = IF u = t THEN NoNode ELSE map[u]
  BY <1>2
<1>7. \A u \in TurfIDs : map'[u] # NoNode => map'[u] \in Occupied' /\ nodes'[map'[u]].id = u
  BY <1>1, <1>5, <1>6 DEF Inv, MapMatchesNodes
<1>8. \A n \in Occupied' : map'[nodes'[n].id] = n
  <2>1. \A n \in Occupied : nodes[n].id \in TurfIDs /\ map[nodes[n].id] = n
    BY <1>2 DEF Inv, MapMatchesNodes, Occupied, Node
  <2> QED
    BY <1>5, <1>6, <2>1
<1>9. MapMatchesNodes'
  BY <1>7, <1>8 DEF MapMatchesNodes
<1>10. EdgesOccupied'
  BY <1>5 DEF Inv, EdgesOccupied
<1> QED
  BY <1>3, <1>5, <1>9, <1>10

LEMMA StepInv == Inv /\ [GraphNext]_graphVars => Inv'
<1> SUFFICES ASSUME Inv, [GraphNext]_graphVars PROVE Inv'
  OBVIOUS
<1>t. /\ bound \in Nat /\ map \in [TurfIDs -> Nat \cup {NoNode}]
      /\ nodes \in [Indices -> Node \cup {Vacant}]
      /\ edges \in SUBSET (Nat \X Nat) /\ atmos \in [Planets -> Gases \cup {NoAtmos}]
  BY DEF Inv, GraphTypeOK, Node
<1> USE DEF Node
<1>1. ASSUME NEW t \in TurfIDs, NEW w \in Weights, NEW g \in Gases, HookRegister(t, w, g)
      PROVE  Inv'
  <2>1. atmos' \in [Planets -> Gases \cup {NoAtmos}]
    BY <1>1, <1>t DEF HookRegister
  <2>2. CASE /\ map[t] # NoNode
             /\ nodes' = [nodes EXCEPT ![map[t]] = [id |-> t, weight |-> w]]
             /\ UNCHANGED <<map, bound, edges>>
    BY <1>t, <2>1, <2>2, InsertKnown DEF Inv, GraphTypeOK
  <2>3. ASSUME map[t] = NoNode, NEW n \in NewIndices,
               map' = [map EXCEPT ![t] = n],
               bound' = IF n = bound THEN bound + 1 ELSE bound,
               nodes' = [m \in 0..(bound' - 1) |->
                            IF m = n THEN [id |-> t, weight |-> w] ELSE nodes[m]],
               UNCHANGED edges
        PROVE  Inv'
    <3>1. n \in Nat /\ bound' \in Nat /\ nodes' \in [Indices' -> Node \cup {Vacant}]
          /\ MapMatchesNodes' /\ EdgesOccupied'
      BY <2>3, InsertNew
    <3>2. map' \in [TurfIDs -> Nat \cup {NoNode}]
      BY <1>t, <2>3, <3>1
    <3> QED
      BY <1>t, <2>1, <2>3, <3>1, <3>2 DEF Inv, GraphTypeOK
  <2> QED
    BY <1>1, <2>2, <2>3 DEF HookRegister, InsertTurf
<1>2. ASSUME NEW t \in TurfIDs, HookRemove(t)
      PROVE  Inv'
  <2>1. CASE /\ map[t] # NoNode
             /\ map' = [map EXCEPT ![t] = NoNode]
             /\ nodes' = [nodes EXCEPT ![map[t]] = Vacant]
             /\ edges' = {e \in edges : e[1] # map[t] /\ e[2] # map[t]}
             /\ UNCHANGED bound
    <3>1. nodes' \in [Indices' -> Node \cup {Vacant}] /\ MapMatchesNodes' /\ EdgesOccupied'
      BY <2>1, RemoveKnown
    <3>2. map' \in [TurfIDs -> Nat \cup {NoNode}] /\ edges' \in SUBSET (Nat \X Nat) /\ atmos' = atmos
      BY <1>2, <1>t, <2>1 DEF HookRemove
    <3> QED
      BY <1>t, <2>1, <3>1, <3>2 DEF Inv, GraphTypeOK
  <2>2. CASE UNCHANGED <<map, bound, nodes, edges>>
    BY <1>2, <2>2 DEF HookRemove, Inv, GraphTypeOK, MapMatchesNodes, EdgesOccupied, Occupied, Indices
  <2> QED
    BY <1>2, <2>1, <2>2 DEF HookRemove, RemoveTurf
<1>3. ASSUME NEW t \in TurfIDs, NEW us \in SUBSET TurfIDs, HookInfos(t, us)
      PROVE  Inv'
  <2>1. UNCHANGED <<map, bound, nodes, atmos>> /\ map[t] # NoNode
    BY <1>3 DEF HookInfos
  <2>2. Occupied' = Occupied /\ Indices' = Indices
    BY <2>1 DEF Occupied, Indices
  <2>3. \A u \in TurfIDs : map[u] # NoNode => map[u] \in Occupied /\ map[u] \in Nat
    BY <1>t DEF Inv, MapMatchesNodes
  <2>4. edges' = {e \in edges : e[1] # map[t]}
                 \cup {<<map[t], map[u]>> : u \in {v \in us : map[v] # NoNode}}
    BY <1>3 DEF HookInfos
  <2>5. \A e \in edges' : e \in edges \/ \E u \in TurfIDs : map[u] # NoNode /\ e = <<map[t], map[u]>>
    BY <2>4
  <2>6. edges' \in SUBSET (Nat \X Nat) /\ EdgesOccupied'
    BY <1>t, <2>1, <2>2, <2>3, <2>5 DEF Inv, EdgesOccupied
  <2> QED
    BY <2>1, <2>2, <2>6 DEF Inv, GraphTypeOK, MapMatchesNodes
<1>4. CASE UNCHANGED graphVars
  BY <1>4 DEF graphVars, Inv, GraphTypeOK, MapMatchesNodes, EdgesOccupied, Occupied, Indices
<1> QED
  BY <1>1, <1>2, <1>3, <1>4 DEF GraphNext

\* Types, the bijection between registered turfs and nodes, and the absence
\* of edges at vacant indices.
THEOREM GraphInvariant == GraphSpec => [](GraphTypeOK /\ MapMatchesNodes /\ EdgesOccupied)
<1>1. GraphSpec => []Inv
  BY InitInv, StepInv, PTL DEF GraphSpec
<1> QED
  BY <1>1, PTL DEF Inv

-----------------------------------------------------------------------------
(***************************************************************************)
(* The graph implements TurfNet.  A turf is seen through the map and an     *)
(* edge through the turfs its ends hold, so nothing depends on the indices. *)
(***************************************************************************)
TurfsMap == [t \in TurfIDs |-> IF map[t] = NoNode THEN NoTurf ELSE nodes[map[t]].weight]
AdjacentMap == {<<nodes[e[1]].id, nodes[e[2]].id>> : e \in edges}

LEMMA InitNet == GraphInit => Net!Init
BY DEF GraphInit, Net!Init

\* The turfs that are registered are those with a node.
LEMMA RegisteredHasNode ==
    ASSUME Inv, NEW t \in TurfIDs
    PROVE  map[t] # NoNode <=> TurfsMap[t] # NoTurf
<1>1. map[t] # NoNode => nodes[map[t]].weight \in Weights
  BY DEF Inv, GraphTypeOK, MapMatchesNodes, Occupied
<1> QED
  BY <1>1, TurfAssumption DEF TurfsMap

LEMMA StepNet == Inv /\ [GraphNext]_graphVars => [Net!Next]_<<TurfsMap, AdjacentMap>>
<1> SUFFICES ASSUME Inv, [GraphNext]_graphVars
             PROVE  Net!Next \/ UNCHANGED <<TurfsMap, AdjacentMap>>
  OBVIOUS
<1>t. /\ map \in [TurfIDs -> Nat \cup {NoNode}]
      /\ nodes \in [Indices -> Node \cup {Vacant}]
      /\ \A t \in TurfIDs : map[t] # NoNode => map[t] \in Occupied /\ nodes[map[t]].id = t
      /\ \A n \in Occupied : nodes[n].id \in TurfIDs /\ map[nodes[n].id] = n
      /\ \A e \in edges : e[1] \in Occupied /\ e[2] \in Occupied
  BY DEF Inv, GraphTypeOK, Node, MapMatchesNodes, EdgesOccupied, Occupied
<1>1. ASSUME NEW t \in TurfIDs, NEW w \in Weights, NEW g \in Gases, HookRegister(t, w, g)
      PROVE  Net!Next
  <2>1. CASE /\ map[t] # NoNode
             /\ nodes' = [nodes EXCEPT ![map[t]] = [id |-> t, weight |-> w]]
             /\ UNCHANGED <<map, bound, edges>>
    <3>1. \A n \in Occupied : nodes'[n].id = nodes[n].id
      BY <2>1, InsertKnown
    <3>2. map[t] \in Indices /\ \A u \in TurfIDs : u # t /\ map[u] # NoNode => map[u] # map[t]
      BY <1>t, <2>1 DEF Occupied
    <3>3. nodes'[map[t]].weight = w
      BY <1>t, <2>1, <3>2
    <3>4. \A u \in TurfIDs : u # t /\ map[u] # NoNode => nodes'[map[u]] = nodes[map[u]]
      BY <1>t, <2>1, <3>2
    <3>5. TurfsMap' = [TurfsMap EXCEPT ![t] = w]
      <4>1. \A u \in TurfIDs : TurfsMap'[u] = IF u = t THEN w ELSE TurfsMap[u]
        BY <2>1, <3>3, <3>4 DEF TurfsMap
      <4> QED
        BY <4>1 DEF TurfsMap
    <3>6. AdjacentMap' = AdjacentMap
      BY <1>t, <2>1, <3>1 DEF AdjacentMap
    <3> QED
      BY <3>5, <3>6 DEF Net!Next, Net!Register, TurfsMap, AdjacentMap
  <2>2. ASSUME map[t] = NoNode, NEW n \in NewIndices,
               map' = [map EXCEPT ![t] = n],
               bound' = IF n = bound THEN bound + 1 ELSE bound,
               nodes' = [m \in 0..(bound' - 1) |->
                            IF m = n THEN [id |-> t, weight |-> w] ELSE nodes[m]],
               UNCHANGED edges
        PROVE  Net!Next
    <3>1. /\ n \in Nat /\ nodes'[n] = [id |-> t, weight |-> w]
          /\ \A m \in Occupied : nodes'[m] = nodes[m]
      BY <2>2, InsertNew
    <3>2. \A u \in TurfIDs : map'[u] = IF u = t THEN n ELSE map[u]
      BY <1>t, <2>2
    <3>3. n # NoNode
      BY <3>1, TurfAssumption
    <3>4. TurfsMap' = [TurfsMap EXCEPT ![t] = w]
      <4>1. nodes'[n].weight = w
        BY <3>1
      <4>2. \A u \in TurfIDs : u # t /\ map[u] # NoNode => nodes'[map[u]] = nodes[map[u]]
        BY <1>t, <3>1
      <4>3. \A u \in TurfIDs : TurfsMap'[u] = IF u = t THEN w ELSE TurfsMap[u]
        BY <3>2, <3>3, <4>1, <4>2 DEF TurfsMap
      <4> QED
        BY <4>3 DEF TurfsMap
    <3>5. AdjacentMap' = AdjacentMap
      <4>1. \A e \in edges : nodes'[e[1]] = nodes[e[1]] /\ nodes'[e[2]] = nodes[e[2]]
        BY <1>t, <3>1
      <4>2. AdjacentMap' = {<<nodes'[e[1]].id, nodes'[e[2]].id>> : e \in edges}
        BY <2>2 DEF AdjacentMap
      <4> QED
        BY <4>1, <4>2 DEF AdjacentMap
    <3> QED
      BY <3>4, <3>5 DEF Net!Next, Net!Register, TurfsMap, AdjacentMap
  <2> QED
    BY <1>1, <2>1, <2>2 DEF HookRegister, InsertTurf
<1>2. ASSUME NEW t \in TurfIDs, HookRemove(t)
      PROVE  Net!Next
  <2>1. CASE /\ map[t] # NoNode
             /\ map' = [map EXCEPT ![t] = NoNode]
             /\ nodes' = [nodes EXCEPT ![map[t]] = Vacant]
             /\ edges' = {e \in edges : e[1] # map[t] /\ e[2] # map[t]}
             /\ UNCHANGED bound
    <3>1. Occupied' = Occupied \ {map[t]} /\ \A n \in Occupied' : nodes'[n] = nodes[n]
      BY <2>1, RemoveKnown
    <3>2. \A u \in TurfIDs : map'[u] = IF u = t THEN NoNode ELSE map[u]
      BY <1>t, <2>1
    <3>3. \A u \in TurfIDs : u # t /\ map[u] # NoNode => map[u] \in Occupied'
      BY <1>t, <2>1, <3>1
    <3>4. TurfsMap' = [TurfsMap EXCEPT ![t] = NoTurf]
      BY <3>1, <3>2, <3>3 DEF TurfsMap
    <3>5. AdjacentMap' = {a \in AdjacentMap : a[1] # t /\ a[2] # t}
      <4>1. \A n \in Occupied : n = map[t] <=> nodes[n].id = t
        BY <1>t, <2>1
      <4>2. \A e \in edges : e \in edges' <=> nodes[e[1]].id # t /\ nodes[e[2]].id # t
        BY <1>t, <2>1, <4>1
      <4>3. \A e \in edges' : e \in edges /\ nodes'[e[1]] = nodes[e[1]] /\ nodes'[e[2]] = nodes[e[2]]
        BY <1>t, <2>1, <3>1
      <4>4. AdjacentMap' = {<<nodes[e[1]].id, nodes[e[2]].id>> : e \in edges'}
        BY <4>3 DEF AdjacentMap
      <4> QED
        BY <2>1, <4>2, <4>4 DEF AdjacentMap
    <3> QED
      BY <3>4, <3>5 DEF Net!Next, Net!Remove, TurfsMap, AdjacentMap
  <2>2. CASE map[t] = NoNode /\ UNCHANGED <<map, bound, nodes, edges>>
    <3>1. TurfsMap' = TurfsMap /\ AdjacentMap' = AdjacentMap
      BY <2>2 DEF TurfsMap, AdjacentMap
    <3>2. TurfsMap = [TurfsMap EXCEPT ![t] = NoTurf]
      BY <2>2 DEF TurfsMap
    <3>3. \A a \in AdjacentMap : a[1] # t /\ a[2] # t
      BY <1>t, <2>2, TurfAssumption DEF AdjacentMap, Occupied, Indices
    <3>4. AdjacentMap = {a \in AdjacentMap : a[1] # t /\ a[2] # t}
      BY <3>3
    <3> QED
      BY <3>1, <3>2, <3>4 DEF Net!Next, Net!Remove, TurfsMap, AdjacentMap
  <2> QED
    BY <1>2, <2>1, <2>2 DEF HookRemove, RemoveTurf
<1>3. ASSUME NEW t \in TurfIDs, NEW us \in SUBSET TurfIDs, HookInfos(t, us)
      PROVE  Net!Next
  <2>1. UNCHANGED <<map, bound, nodes, atmos>> /\ map[t] # NoNode
    BY <1>3 DEF HookInfos
  <2>2. TurfsMap' = TurfsMap
    BY <2>1 DEF TurfsMap
  <2>3. Net!Registered = {u \in TurfIDs : map[u] # NoNode}
    BY RegisteredHasNode DEF Net!Registered, TurfsMap
  <2>4. \A n \in Occupied : n = map[t] <=> nodes[n].id = t
    BY <1>t, <2>1
  <2>5. edges' = {e \in edges : e[1] # map[t]}
                 \cup {<<map[t], map[u]>> : u \in {v \in us : map[v] # NoNode}}
    BY <1>3 DEF HookInfos
  <2>6. AdjacentMap' = {<<nodes[e[1]].id, nodes[e[2]].id>> : e \in edges'}
    BY <2>1 DEF AdjacentMap
  <2>7. {<<nodes[e[1]].id, nodes[e[2]].id>> : e \in {f \in edges : f[1] # map[t]}}
            = {a \in AdjacentMap : a[1] # t}
    BY <1>t, <2>4 DEF AdjacentMap
  <2>8. {<<nodes[e[1]].id, nodes[e[2]].id>> :
                e \in {<<map[t], map[u]>> : u \in {v \in us : map[v] # NoNode}}}
            = {<<t, u>> : u \in us \cap Net!Registered}
    <3>1. us \cap Net!Registered = {v \in us : map[v] # NoNode}
      BY <2>3
    <3>2. \A u \in {v \in us : map[v] # NoNode} : nodes[map[u]].id = u
      BY <1>t
    <3>3. nodes[map[t]].id = t
      BY <1>t, <2>1
    <3> DEFINE known == {v \in us : map[v] # NoNode}
               new   == {<<map[t], map[u]>> : u \in known}
    <3>4. \A u \in known : <<nodes[<<map[t], map[u]>>[1]].id, nodes[<<map[t], map[u]>>[2]].id>> = <<t, u>>
      BY <3>2, <3>3
    <3>5. {<<nodes[e[1]].id, nodes[e[2]].id>> : e \in new} = {<<t, u>> : u \in known}
      <4>1. ASSUME NEW e \in new PROVE <<nodes[e[1]].id, nodes[e[2]].id>> \in {<<t, u>> : u \in known}
        BY <3>4
      <4>2. ASSUME NEW u \in known
            PROVE  <<t, u>> \in {<<nodes[e[1]].id, nodes[e[2]].id>> : e \in new}
        <5>1. <<map[t], map[u]>> \in new
          OBVIOUS
        <5> QED
          BY <3>4, <5>1
      <4> QED
        BY <4>1, <4>2
    <3> QED
      BY <3>1, <3>5
  <2>9. AdjacentMap' = {a \in AdjacentMap : a[1] # t} \cup {<<t, u>> : u \in us \cap Net!Registered}
    BY <2>5, <2>6, <2>7, <2>8
  <2>10. t \in Net!Registered
    BY <2>1, <2>3
  <2> QED
    BY <2>2, <2>9, <2>10 DEF Net!Next, Net!Connect, TurfsMap, AdjacentMap
<1>4. CASE UNCHANGED graphVars
  BY <1>4 DEF graphVars, TurfsMap, AdjacentMap
<1> QED
  BY <1>1, <1>2, <1>3, <1>4 DEF GraphNext

\* The arena shows the turfs as last registered and the adjacencies as last
\* declared between them; reuse of node indices never connects a turf that
\* comes to what was connected before it.
THEOREM GraphImplementsNet == GraphSpec => NetSpec
<1>1. GraphInit => Net!Init
  BY InitNet
<1>2. Inv /\ [GraphNext]_graphVars => [Net!Next]_<<TurfsMap, AdjacentMap>>
  BY StepNet
<1> QED
  BY <1>1, <1>2, InitInv, StepInv, PTL
     DEF GraphSpec, NetSpec, Net!Spec, Net!vars, TurfsMap, AdjacentMap

-----------------------------------------------------------------------------
(***************************************************************************)
(* Overlays.  Since post_process's workers send in any order they take turns*)
(* in, what it appends to the queue is only known to have every message.    *)
(***************************************************************************)
\* What post_process may send.
Messages == {"vis", "react"} \X Turfs

VisualsTyped ==
    /\ gas \in [Turfs -> Looks]
    /\ airless \in SUBSET Turfs
    /\ enabled \in SUBSET Turfs
    /\ hash \in [Turfs -> Looks \cup {NoHash}]
    /\ queue \in Seq(Messages)
    /\ shown \in [Turfs -> Looks \cup {NoOverlay}]
    /\ missed \in SUBSET Turfs

VisualsInv == VisualsTyped /\ FirstLookPending

\* The orders of a finite set are sequences that leave none of it out.
LEMMA OrderHasAll ==
    ASSUME NEW S, IsFiniteSet(S), NEW order \in SetToSeqs(S)
    PROVE  order \in Seq(S) /\ ToSet(order) = S
<1> DEFINE n == Cardinality(S)
<1>1. n \in Nat
  BY FS_CardinalityType
<1>2. order \in [1..n -> S] /\ \A i, j \in 1..n : i # j => order[i] # order[j]
  BY DEF SetToSeqs
<1>3. order \in Injection(1..n, S)
  BY <1>2 DEF Injection, IsInjective
<1>4. IsFiniteSet(1..n) /\ Cardinality(1..n) = n
  BY <1>1, FS_Interval
<1>5. order \in Surjection(1..n, S)
  BY <1>3, <1>4, FS_Injection
<1>6. \A x \in S : \E k \in 1..n : order[k] = x
  BY <1>5 DEF Surjection
<1>7. order \in Seq(S)
  BY <1>1, <1>2
<1>8. ToSet(order) = {order[k] : k \in 1..n}
  BY <1>2 DEF ToSet
<1> QED
  BY <1>2, <1>6, <1>7, <1>8

LEMMA VisualsBegins == VisualsInit => VisualsInv
<1> SUFFICES ASSUME VisualsInit PROVE VisualsInv
  OBVIOUS
<1>1. VisualsTyped
  BY DEF VisualsInit, VisualsTyped
<1>2. FirstLookPending
  BY DEF VisualsInit, FirstLookPending
<1> QED
  BY <1>1, <1>2 DEF VisualsInv

\* post_process sends an update for every turf whose first hash it stores.
LEMMA PostProcessKeeps ==
    ASSUME VisualsInv, PostProcess
    PROVE  VisualsInv'
<1> DEFINE S == UNION {Sent(t) : t \in enabled}
<1>1. S \subseteq Messages
  BY DEF VisualsInv, VisualsTyped, Sent, Messages
<1>2. IsFiniteSet(Messages)
  <2>1. IsFiniteSet({"vis", "react"})
    <3>1. {"vis", "react"} = ({} \cup {"vis"}) \cup {"react"}
      OBVIOUS
    <3>2. IsFiniteSet({} \cup {"vis"})
      BY FS_EmptySet, FS_AddElement, Zenon
    <3>3. IsFiniteSet(({} \cup {"vis"}) \cup {"react"})
      BY <3>2, FS_AddElement, Zenon
    <3> QED
      BY <3>1, <3>3
  <2> QED
    BY <2>1, VisualsAssumption, FS_Product DEF Messages
<1>3. IsFiniteSet(S)
  BY <1>1, <1>2, FS_Subset
<1>4. PICK sends \in SetToSeqs(S) : queue' = queue \o sends
  BY DEF PostProcess
<1>5. sends \in Seq(S) /\ ToSet(sends) = S
  BY <1>3, OrderHasAll
<1>6. sends \in Seq(Messages)
  BY <1>1, <1>5, SeqMonotonic
<1>7. queue \in Seq(Messages)
  BY DEF VisualsInv, VisualsTyped
<1>8. queue' \in Seq(Messages) /\ ToSet(queue') = ToSet(queue) \cup S
  BY <1>4, <1>5, <1>6, <1>7, ToSetConcat
<1>9. /\ hash' = [t \in Turfs |-> IF t \in enabled THEN gas[t] ELSE hash[t]]
      /\ UNCHANGED <<gas, airless, enabled, shown, missed>>
  BY DEF PostProcess
<1>10. VisualsTyped'
  BY <1>8, <1>9 DEF VisualsInv, VisualsTyped
<1>11. ASSUME NEW t \in Turfs, hash'[t] # NoHash, shown'[t] = NoOverlay
       PROVE  <<"vis", t>> \in ToSet(queue') \/ t \in missed'
  <2>1. CASE t \in enabled /\ hash[t] = NoHash
    <3>1. <<"vis", t>> \in Sent(t)
      BY <2>1 DEF Sent, Changed
    <3> QED
      BY <1>8, <2>1, <3>1
  <2>2. CASE hash[t] # NoHash
    BY <1>8, <1>9, <1>11, <2>2 DEF VisualsInv, FirstLookPending, Pending
  <2>3. CASE t \notin enabled
    BY <1>8, <1>9, <1>11, <2>3 DEF VisualsInv, FirstLookPending, Pending
  <2> QED
    BY <2>1, <2>2, <2>3
<1> QED
  BY <1>10, <1>11 DEF VisualsInv, FirstLookPending, Pending

\* A callback that is called is waiting no more; an update leaves overlays or
\* the turf among the missed.
LEMMA CallKeeps ==
    ASSUME VisualsInv, Call
    PROVE  VisualsInv'
<1>1. queue \in Seq(Messages) /\ queue # << >> /\ queue' = Tail(queue)
  BY DEF VisualsInv, VisualsTyped, Call, CallUpdateVisuals, CallReact, TakeNext
<1>2. /\ Head(queue) \in Messages /\ queue' \in Seq(Messages)
      /\ ToSet(queue) \ {Head(queue)} \subseteq ToSet(queue')
  BY <1>1, ToSetTail
<1>3. PICK h \in {"vis", "react"}, u \in Turfs : Head(queue) = <<h, u>>
  BY <1>2 DEF Messages
<1>4. ASSUME NEW t \in Turfs, Pending(t), ~(t = u /\ h = "vis")
      PROVE  Pending(t)'
  BY <1>2, <1>3, <1>4 DEF Pending
<1>5. CASE CallReact
  <2>1. h = "react" /\ UNCHANGED <<airless, enabled, hash, shown, missed>>
    BY <1>3, <1>5 DEF CallReact, TakeNext
  <2>2. gas' \in [Turfs -> Looks]
    BY <1>5 DEF CallReact, VisualsInv, VisualsTyped
  <2>3. VisualsTyped'
    BY <1>2, <2>1, <2>2 DEF VisualsInv, VisualsTyped
  <2>4. FirstLookPending'
    BY <1>4, <2>1 DEF VisualsInv, FirstLookPending
  <2> QED
    BY <2>3, <2>4 DEF VisualsInv
<1>6. CASE \E misses \in BOOLEAN : CallUpdateVisuals(misses)
  <2>1. PICK misses \in BOOLEAN : CallUpdateVisuals(misses)
    BY <1>6
  <2>2. /\ missed' = IF misses \/ u \in airless THEN missed \cup {u} ELSE missed \ {u}
        /\ shown' = IF misses THEN shown
                    ELSE [shown EXCEPT ![u] = IF u \in airless THEN NoOverlay ELSE gas[u]]
        /\ UNCHANGED <<gas, airless, enabled, hash>>
    <3>1. Head(queue)[2] = u
      BY <1>3
    <3> QED
      BY <2>1, <3>1 DEF CallUpdateVisuals
  <2>3. VisualsTyped'
    BY <1>2, <2>2 DEF VisualsInv, VisualsTyped
  <2>4. ASSUME NEW t \in Turfs, hash'[t] # NoHash, shown'[t] = NoOverlay
        PROVE  Pending(t)' \/ t \in missed'
    <3>1. CASE t = u
      <4>1. misses \/ u \in airless
        BY <2>2, <2>4, <3>1, VisualsAssumption DEF VisualsInv, VisualsTyped
      <4> QED
        BY <2>2, <3>1, <4>1
    <3>2. CASE t # u
      <4>1. shown'[t] = shown[t] /\ hash'[t] = hash[t] /\ (t \in missed => t \in missed')
        BY <2>2, <3>2 DEF VisualsInv, VisualsTyped
      <4> QED
        BY <1>4, <2>4, <3>2, <4>1 DEF VisualsInv, FirstLookPending
    <3> QED
      BY <3>1, <3>2
  <2> QED
    BY <2>3, <2>4 DEF VisualsInv, FirstLookPending
<1> QED
  BY <1>5, <1>6 DEF Call

LEMMA VisualsStep == VisualsInv /\ [VisualsNext]_visualsVars => VisualsInv'
<1> SUFFICES ASSUME VisualsInv, [VisualsNext]_visualsVars PROVE VisualsInv'
  OBVIOUS
<1> USE DEF VisualsInv, VisualsTyped, FirstLookPending, Pending
<1>1. ASSUME NEW t \in Turfs, NEW look \in Looks, ChangeGas(t, look) PROVE VisualsInv'
  BY <1>1 DEF ChangeGas
<1>2. ASSUME NEW t \in Stripped, SwitchAir(t) PROVE VisualsInv'
  BY <1>2, VisualsAssumption DEF SwitchAir, SymDiff
<1>3. ASSUME NEW t \in Turfs, NEW on \in BOOLEAN, Register(t, on) PROVE VisualsInv'
  BY <1>3 DEF Register
<1>4. CASE PostProcess
  BY <1>4, PostProcessKeeps
<1>5. CASE Call
  BY <1>5, CallKeeps
<1>6. CASE UNCHANGED visualsVars
  BY <1>6 DEF visualsVars
<1> QED
  BY <1>1, <1>2, <1>3, <1>4, <1>5, <1>6 DEF VisualsNext

\* Once post_process has stored a hash for a turf, the turf has overlays or a
\* callback for it is waiting, unless the last one failed or found no air.
THEOREM FirstLooksPend == VisualsSpec => []FirstLookPending
<1>1. VisualsInit => VisualsInv
  BY VisualsBegins
<1>2. VisualsInv /\ [VisualsNext]_visualsVars => VisualsInv'
  BY VisualsStep
<1>3. VisualsInv => FirstLookPending
  BY DEF VisualsInv
<1> QED
  BY <1>1, <1>2, <1>3, PTL DEF VisualsSpec
=============================================================================
