-------------------------- MODULE SuperconductProofs --------------------------
(***************************************************************************)
(* Proofs about the callback channel and about the heat thread and the hooks*)
(* beside it.  The channel loses, repeats and reorders nothing, for any     *)
(* number of closures, any nesting and any set of failing ones; the heat    *)
(* thread uses it as any sender does.                                       *)
(***************************************************************************)
EXTENDS Superconduct, SequenceTheorems, TLAPS

-----------------------------------------------------------------------------
(***************************************************************************)
(* The channel: the specification of Callbacks.                             *)
(***************************************************************************)
\* Two facts of the library, at the closures' numbers.
LEMMA Concat ==
    ASSUME NEW s \in Seq(Nat), NEW t \in Seq(Nat)
    PROVE  /\ s \o t \in Seq(Nat)
           /\ Len(s \o t) = Len(s) + Len(t)
           /\ \A i \in 1..(Len(s) + Len(t)) :
                 (s \o t)[i] = IF i <= Len(s) THEN s[i] ELSE t[i - Len(s)]
BY ConcatProperties, Zenon

LEMMA Assoc ==
    ASSUME NEW s \in Seq(Nat), NEW t \in Seq(Nat), NEW u \in Seq(Nat)
    PROVE  (s \o t) \o u = s \o (t \o u)
<1> DEFINE lhs == (s \o t) \o u
           rhs == s \o (t \o u)
           n   == Len(s) + Len(t) + Len(u)
<1>0. Len(s) \in Nat /\ Len(t) \in Nat /\ Len(u) \in Nat
  OBVIOUS
<1>1. /\ s \o t \in Seq(Nat) /\ Len(s \o t) = Len(s) + Len(t)
      /\ t \o u \in Seq(Nat) /\ Len(t \o u) = Len(t) + Len(u)
  BY Concat
<1>2. lhs \in Seq(Nat) /\ Len(lhs) = n /\ rhs \in Seq(Nat) /\ Len(rhs) = n
  BY <1>0, <1>1, Concat
<1>3. ASSUME NEW i \in 1..n PROVE lhs[i] = rhs[i]
  BY <1>0, <1>1, Concat
<1> QED
  BY <1>2, <1>3, SeqEqual

\* A queue that is not empty is its head followed by the rest.
LEMMA HeadThenTail ==
    ASSUME NEW q \in Seq(Nat), q # << >>
    PROVE  <<Head(q)>> \o Tail(q) = q
<1> DEFINE h == <<Head(q)>>
           t == Tail(q)
<1>1. Len(q) \in Nat \ {0}
  BY EmptySeq
<1>2. /\ Head(q) \in Nat /\ Head(q) = q[1]
      /\ t \in Seq(Nat) /\ Len(t) = Len(q) - 1
      /\ \A i \in 1..Len(t) : t[i] = q[i + 1]
  BY HeadTailProperties
<1>3. h \in Seq(Nat) /\ Len(h) = 1 /\ h[1] = q[1]
  BY <1>2
<1> HIDE DEF h, t
<1>4. /\ h \o t \in Seq(Nat) /\ Len(h \o t) = Len(h) + Len(t)
      /\ \A i \in 1..(Len(h) + Len(t)) :
            (h \o t)[i] = IF i <= Len(h) THEN h[i] ELSE t[i - Len(h)]
  BY <1>2, <1>3, Concat
<1>5. Len(h) + Len(t) = Len(q)
  BY <1>1, <1>2, <1>3
<1>6. ASSUME NEW i \in 1..Len(q) PROVE (h \o t)[i] = q[i]
  <2>1. CASE i = 1
    BY <1>1, <1>3, <1>4, <1>5, <2>1
  <2>2. CASE i # 1
    <3>1. i - 1 \in 1..Len(t) /\ ~(i <= 1) /\ i - 1 + 1 = i
      BY <1>1, <1>2, <2>2
    <3>2. (h \o t)[i] = t[i - 1]
      BY <1>3, <1>4, <1>5, <3>1
    <3> QED
      BY <1>2, <3>1, <3>2
  <2> QED
    BY <2>1, <2>2
<1>7. h \o t = q
  BY <1>4, <1>5, <1>6, SeqEqual
<1> QED
  BY <1>7 DEF h, t

\* Calling the head of the queue moves it from what waits to what ran, and
\* what it sends joins the end (CallNext, the loop of process_callbacks).
LEMMA MoveHead ==
    ASSUME NEW r \in Seq(Nat), NEW q \in Seq(Nat), NEW f \in Seq(Nat), q # << >>
    PROVE  Append(r, Head(q)) \o (Tail(q) \o f) = (r \o q) \o f
<1> DEFINE h == <<Head(q)>>
           t == Tail(q)
<1>1. Head(q) \in Nat /\ t \in Seq(Nat)
  BY HeadTailProperties
<1>2. h \in Seq(Nat) /\ h \o t = q
  BY <1>1, HeadThenTail
<1>3. Append(r, Head(q)) = r \o h
  BY <1>1, AppendIsConcat
<1> HIDE DEF h, t
<1>4. r \o h \in Seq(Nat)
  BY <1>2, Concat
<1>5. (r \o h) \o (t \o f) = ((r \o h) \o t) \o f
  BY <1>1, <1>4, Assoc
<1>6. (r \o h) \o t = r \o (h \o t)
  <2>1. r \in Seq(Nat) /\ h \in Seq(Nat) /\ t \in Seq(Nat)
    BY <1>1, <1>2
  <2> QED
    BY <2>1, Assoc, Zenon
<1>7. r \o (h \o t) = r \o q
  BY <1>2
<1> QED
  BY <1>3, <1>5, <1>6, <1>7 DEF t

\* The numbers of new closures continue those of the old ones.
LEMMA Numbering ==
    ASSUME NEW m \in Nat, NEW n \in Nat
    PROVE  [k \in 1..m |-> k] \o [k \in 1..n |-> m + k] = [k \in 1..(m + n) |-> k]
<1> DEFINE old == [k \in 1..m |-> k]
           new == [k \in 1..n |-> m + k]
           all == [k \in 1..(m + n) |-> k]
<1>1. old \in Seq(Nat) /\ Len(old) = m /\ \A k \in 1..m : old[k] = k
  OBVIOUS
<1>2. new \in Seq(Nat) /\ Len(new) = n /\ \A k \in 1..n : new[k] = m + k
  OBVIOUS
<1>3. all \in Seq(Nat) /\ Len(all) = m + n /\ \A k \in 1..(m + n) : all[k] = k
  OBVIOUS
<1> HIDE DEF old, new, all
<1>4. /\ old \o new \in Seq(Nat) /\ Len(old \o new) = m + n
      /\ \A k \in 1..(m + n) :
            (old \o new)[k] = IF k <= m THEN old[k] ELSE new[k - m]
  BY <1>1, <1>2, Concat
<1>5. ASSUME NEW k \in 1..(m + n) PROVE (old \o new)[k] = all[k]
  <2>1. CASE k <= m
    BY <1>1, <1>3, <1>4, <2>1
  <2>2. CASE ~(k <= m)
    <3>1. k - m \in 1..n /\ m + (k - m) = k
      BY <2>2
    <3> QED
      BY <1>2, <1>3, <1>4, <2>2, <3>1
  <2> QED
    BY <2>1, <2>2
<1>6. old \o new = all
  BY <1>3, <1>4, <1>5, SeqEqual
<1> QED
  BY <1>6 DEF old, new, all

Inv == TypeOK /\ InOrderOnce

LEMMA InitInv == Init => Inv
<1> SUFFICES ASSUME Init PROVE TypeOK /\ InOrderOnce
  BY DEF Inv
<1>1. TypeOK
  <2>1. queue \in Seq(Nat) /\ run \in Seq(Nat)
    BY EmptySeq DEF Init
  <2> QED
    BY <2>1 DEF Init, TypeOK
<1>2. run \o queue = << >> /\ [k \in 1..sent |-> k] = << >>
  BY DEF Init
<1> QED
  BY <1>1, <1>2 DEF InOrderOnce

LEMMA FreshIsSeq ==
    ASSUME sent \in Nat, NEW n \in Nat
    PROVE  Fresh(n) \in Seq(Nat) /\ Fresh(n) = [k \in 1..n |-> sent + k]
BY DEF Fresh

LEMMA StepInv == Inv /\ [Next]_vars => Inv'
<1> SUFFICES ASSUME Inv, [Next]_vars PROVE TypeOK' /\ InOrderOnce'
  BY DEF Inv
<1>t. TypeOK /\ run \o queue = [k \in 1..sent |-> k]
  BY DEF Inv, InOrderOnce
<1>1. CASE Send
  <2>1. queue' = queue \o Fresh(1) /\ sent' = sent + 1 /\ UNCHANGED <<run, errors, drain, expired, result>>
    BY <1>1 DEF Send
  <2>2. Fresh(1) \in Seq(Nat) /\ Fresh(1) = [k \in 1..1 |-> sent + k]
    BY <1>t, FreshIsSeq DEF TypeOK
  <2>3. TypeOK'
    BY <1>t, <2>1, <2>2 DEF TypeOK
  <2>4. run \o (queue \o Fresh(1)) = (run \o queue) \o Fresh(1)
    BY <1>t, <2>2, Assoc DEF TypeOK
  <2>5. run' \o queue' = [k \in 1..(sent + 1) |-> k]
    BY <1>t, <2>1, <2>2, <2>4, Numbering DEF TypeOK
  <2> QED
    BY <2>1, <2>3, <2>5 DEF InOrderOnce
<1>2. ASSUME NEW n \in 0..MaxNested, NEW late \in BOOLEAN, CallNext(n, late)
      PROVE  TypeOK' /\ InOrderOnce'
  <2>0. n \in Nat
    BY CallbacksAssumption
  <2>1. /\ queue # << >> /\ queue' = Tail(queue) \o Fresh(n) /\ sent' = sent + n
        /\ run' = Append(run, Head(queue)) /\ UNCHANGED <<drain, result>>
        /\ errors' = IF Head(queue) \in Failing THEN errors \cup {Head(queue)} ELSE errors
        /\ expired' = (drain = "timed" /\ late)
    BY <1>2 DEF CallNext
  <2>2. Fresh(n) \in Seq(Nat) /\ Fresh(n) = [k \in 1..n |-> sent + k]
    BY <1>t, <2>0, FreshIsSeq DEF TypeOK
  <2>3. Head(queue) \in Nat /\ Tail(queue) \in Seq(Nat)
    BY <1>t, <2>1 DEF TypeOK
  <2>4. TypeOK'
    <3>0. run' \in Seq(Nat)
      BY <1>t, <2>1, <2>3, AppendProperties DEF TypeOK
    <3>1. queue' \in Seq(Nat) /\ sent' \in Nat /\ errors' \in SUBSET Nat
      <4>1. queue' \in Seq(Nat)
        BY <2>1, <2>2, <2>3, Concat
      <4>2. sent' \in Nat
        BY <1>t, <2>0, <2>1 DEF TypeOK
      <4>3. errors' \in SUBSET Nat
        BY <1>t, <2>1, <2>3 DEF TypeOK
      <4> QED
        BY <4>1, <4>2, <4>3
    <3>2. expired' \in BOOLEAN /\ drain' = drain /\ result' = result
      BY <2>1
    <3> QED
      BY <1>t, <3>0, <3>1, <3>2 DEF TypeOK
  <2>5. run' \o queue' = (run \o queue) \o Fresh(n)
    BY <1>t, <2>1, <2>2, MoveHead DEF TypeOK
  <2>6. run' \o queue' = [k \in 1..(sent + n) |-> k]
    BY <1>t, <2>0, <2>2, <2>5, Numbering DEF TypeOK
  <2> QED
    BY <2>1, <2>4, <2>6 DEF InOrderOnce
<1>3. CASE Begin
  BY <1>3, <1>t DEF Begin, BeginDrain, TypeOK, InOrderOnce
<1>4. CASE EndDrained
  BY <1>4, <1>t DEF EndDrained, TypeOK, InOrderOnce
<1>5. CASE EndExpired
  BY <1>5, <1>t DEF EndExpired, TypeOK, InOrderOnce
<1>6. CASE UNCHANGED vars
  BY <1>6, <1>t DEF vars, TypeOK, InOrderOnce
<1> QED
  BY <1>1, <1>2, <1>3, <1>4, <1>5, <1>6 DEF Next, Call

\* Every closure that is sent runs at most once and in the order of sending,
\* and none is lost to a drain that the limit cut short or to an error.
THEOREM CallbacksInOrderOnce == Spec => []InOrderOnce
<1>1. Spec => []Inv
  BY InitInv, StepInv, PTL DEF Spec
<1> QED
  BY <1>1, PTL DEF Inv

-----------------------------------------------------------------------------
\* What is called next has the number after the last that was called.
LEMMA NextIsNumbered ==
    ASSUME Inv, queue # << >>
    PROVE  Head(queue) = Len(run) + 1
<1>1. run \in Seq(Nat) /\ queue \in Seq(Nat) /\ sent \in Nat
  BY DEF Inv, TypeOK
<1>2. Len(queue) \in Nat \ {0} /\ Head(queue) = queue[1] /\ Len(run) \in Nat
  BY <1>1
<1>3. (run \o queue)[Len(run) + 1] = queue[1] /\ Len(run \o queue) = Len(run) + Len(queue)
  BY <1>1, <1>2
<1>4. run \o queue = [k \in 1..sent |-> k]
  BY DEF Inv, InOrderOnce
<1>5. Len([k \in 1..sent |-> k]) = sent
  BY <1>1
<1>6. Len(run) + 1 \in 1..sent
  BY <1>1, <1>2, <1>3, <1>4, <1>5
<1> QED
  BY <1>2, <1>3, <1>4, <1>6

LEMMA ErrorsInit == Init => ErrorsReported
<1>1. Len(<< >>) = 0
  OBVIOUS
<1> QED
  BY <1>1 DEF Init, ErrorsReported

LEMMA ErrorsStep == Inv /\ ErrorsReported /\ [Next]_vars => ErrorsReported'
<1> SUFFICES ASSUME Inv, ErrorsReported, [Next]_vars PROVE ErrorsReported'
  OBVIOUS
<1>t. run \in Seq(Nat) /\ queue \in Seq(Nat)
  BY DEF Inv, TypeOK
<1>1. CASE UNCHANGED <<run, errors>>
  BY <1>1 DEF ErrorsReported
<1>2. ASSUME NEW n \in 0..MaxNested, NEW late \in BOOLEAN, CallNext(n, late)
      PROVE  ErrorsReported'
  <2>1. queue # << >> /\ run' = Append(run, Head(queue))
        /\ errors' = IF Head(queue) \in Failing THEN errors \cup {Head(queue)} ELSE errors
    BY <1>2 DEF CallNext
  <2> DEFINE next == Len(run) + 1
  <2>2. Head(queue) = next /\ next \in Nat \ {0} /\ Len(run) \in Nat
    BY <1>t, <2>1, NextIsNumbered
  <2>3. Len(run') = next /\ run'[next] = next /\ \A k \in 1..Len(run) : run'[k] = run[k]
    BY <1>t, <2>1, <2>2, AppendProperties
  <2>4. 1..next = (1..Len(run)) \cup {next}
    BY <2>2
  <2> HIDE DEF next
  <2>5. {k \in 1..next : run'[k] \in Failing}
            = {k \in 1..Len(run) : run[k] \in Failing} \cup {k \in {next} : k \in Failing}
    BY <2>3, <2>4
  <2>6. errors' = errors \cup {k \in {next} : k \in Failing}
    BY <2>1, <2>2
  <2> QED
    BY <2>3, <2>5, <2>6 DEF ErrorsReported
<1>3. CASE Send \/ Begin \/ EndDrained \/ EndExpired \/ UNCHANGED vars
  BY <1>1, <1>3 DEF Send, Begin, BeginDrain, EndDrained, EndExpired, vars
<1> QED
  BY <1>2, <1>3 DEF Next, Call

\* An error is reported for every closure that was called and failed, and for no
\* other: neither the time limit nor another error keeps one back.
THEOREM CallbacksReportErrors == Spec => []ErrorsReported
<1>1. Spec => []Inv
  BY InitInv, StepInv, PTL DEF Spec
<1> QED
  BY <1>1, ErrorsInit, ErrorsStep, PTL DEF Spec

-----------------------------------------------------------------------------
(***************************************************************************)
(* The heat thread and the hooks.                                           *)
(***************************************************************************)
LEMMA HeatStep == [HeatNext]_allVars => [Next]_vars
<1> SUFFICES ASSUME [HeatNext]_allVars PROVE [Next]_vars
  OBVIOUS
<1>1. CASE HeatThread
  <2>1. CASE FirstPass
    BY <2>1 DEF FirstPass, Look, PassBy, Consider, channel, Next
  <2>2. CASE SecondPass
    BY <2>2 DEF SecondPass, TakeTurf, LockNear, ShareNear, LeaveTurf, channel
  <2>3. CASE Receive \/ LockTasks \/ LockTurfHeat \/ ReadTurfGases
    BY <2>3 DEF Receive, LockTasks, LockTurfHeat, ReadTurfGases, channel
  <2>4. CASE BeginSecond \/ EndSecond \/ SendCost
    BY <2>4 DEF BeginSecond, EndSecond, SendCost, channel, Next
  <2> QED
    BY <1>1, <2>1, <2>2, <2>3, <2>4 DEF HeatThread
<1>2. CASE HookGoesOn
  BY <1>2 DEF HookGoesOn, LockTurfGases, UnlockTurfGases, UpdateRefFails, UpdateRef,
              UpdateAdjacencies, WaitForTasks, ClearTurfs, channel
<1>3. CASE HookCalled
  BY <1>3 DEF HookCalled, Notify, CallTurfHook, CallShutdown, CallHook, InitializeHeat, channel
<1>4. CASE Drains
  BY <1>4 DEF Drains, Next, Call
<1>5. CASE HookSends
  BY <1>5 DEF HookSends, Next
<1>6. CASE UNCHANGED allVars
  BY <1>6 DEF allVars, channel
<1> QED
  BY <1>1, <1>2, <1>3, <1>4, <1>5, <1>6 DEF HeatNext

\* Whatever the heat thread and BYOND's thread do at the same time, to the channel
\* it is sending and draining.
THEOREM HeatUsesChannel == HeatSpec => Spec
<1>1. HeatInit => Init
  BY DEF HeatInit
<1> QED
  BY <1>1, HeatStep, PTL DEF HeatSpec, Spec

\* Closures that are sent by the heat thread while others are called, or while
\* hooks send too, run once and in order.
THEOREM HeatInOrderOnce == HeatSpec => []InOrderOnce
BY HeatUsesChannel, CallbacksInOrderOnce, PTL

\* No failure of a closure that the heat thread sent, nor of others, is lost.
THEOREM HeatErrorsReported == HeatSpec => []ErrorsReported
BY HeatUsesChannel, CallbacksReportErrors, PTL

-----------------------------------------------------------------------------
(***************************************************************************)
(* Temperatures stay between space and the hottest there was.               *)
(***************************************************************************)

\* Multiplication by something positive, which the provers do not see by
\* themselves.
LEMMA Cancel ==
    ASSUME NEW x \in Int, NEW y \in Int, NEW d \in Nat \ {0}, x * d < y * d
    PROVE  x < y
<1> SUFFICES ASSUME y <= x PROVE FALSE
  OBVIOUS
<1>1. x - y \in Nat
  OBVIOUS
<1>2. (x - y) * d >= 0
  BY <1>1
<1>3. (x - y) * d = x * d - y * d
  OBVIOUS
<1> QED
  BY <1>2, <1>3

LEMMA Scale ==
    ASSUME NEW n \in Int, NEW m \in Int, NEW x \in Nat, n <= m
    PROVE  n * x <= m * x
<1>1. (m - n) \in Nat /\ (m - n) * x >= 0
  OBVIOUS
<1>2. (m - n) * x = m * x - n * x
  OBVIOUS
<1> QED
  BY <1>1, <1>2

LEMMA Quotients ==
    ASSUME NEW n \in Int, NEW d \in Nat \ {0}
    PROVE  /\ n \div d \in Int
           /\ (n \div d) * d <= n
           /\ n < (n \div d + 1) * d
OBVIOUS

\* A body gains no more than the difference to the other, and nothing of the
\* wrong sign: for any percentage (get_share_energy over a heat capacity).
LEMMA GainBounds ==
    ASSUME NEW percent \in 0..100, NEW a \in Int, NEW b \in Int,
           NEW capA \in Nat \ {0}, NEW capB \in Nat \ {0}
    PROVE  /\ Gain(percent, a, b, capA, capB) \in Int
           /\ a <= b => Gain(percent, a, b, capA, capB) \in 0..(b - a)
           /\ b <= a => Gain(percent, a, b, capA, capB) \in (b - a)..0
<1> DEFINE w == percent * capB
           d == 100 * (capA + capB)
           n == percent * (b - a) * capB
           g == n \div d
<1>1. w \in Nat /\ d \in Nat \ {0} /\ n \in Int /\ Gain(percent, a, b, capA, capB) = g
  BY DEF Gain
<1>2. n = (b - a) * w
  OBVIOUS
<1>3. w <= d
  <2>1. percent * capB <= 100 * capB
    BY Scale
  <2> QED
    BY <2>1
<1> HIDE DEF w, d, n
<1>4. g \in Int /\ g * d <= n /\ n < (g + 1) * d
  BY <1>1, Quotients
<1> HIDE DEF g
<1>5. CASE a <= b
  <2> DEFINE x == b - a
  <2>1. x \in Nat /\ n = x * w
    BY <1>2, <1>5
  <2> HIDE DEF x
  <2>2. 0 <= x * w /\ x * w <= x * d
    <3>1. w * x <= d * x
      BY <1>1, <1>3, <2>1, Scale
    <3> QED
      BY <1>1, <2>1, <3>1
  <2>3. 0 * d < (g + 1) * d /\ g * d < (x + 1) * d
    BY <1>1, <1>4, <2>1, <2>2
  <2>4. 0 < g + 1 /\ g < x + 1
    <3>1. 0 < g + 1
      BY <1>1, <1>4, <2>3, Cancel
    <3>2. g < x + 1
      BY <1>1, <1>4, <2>1, <2>3, Cancel
    <3> QED
      BY <3>1, <3>2
  <2>5. g \in 0..x
    BY <1>4, <2>1, <2>4
  <2>6. b <= a => x = 0
    BY <1>5 DEF x
  <2>7. x = b - a
    BY DEF x
  <2> QED
    BY <1>1, <1>5, <2>5, <2>6, <2>7
<1>6. CASE b < a
  <2> DEFINE y == a - b
  <2>1. y \in Nat /\ n = (-y) * w
    BY <1>2, <1>6
  <2> HIDE DEF y
  <2>2. 0 <= y * w /\ y * w <= y * d
    <3>1. w * y <= d * y
      BY <1>1, <1>3, <2>1, Scale
    <3> QED
      BY <1>1, <2>1, <3>1
  <2>3. (-y) * w = -(y * w) /\ (-y) * d = -(y * d)
    BY <1>1, <2>1
  <2>4. (-y) * d < (g + 1) * d /\ g * d < 1 * d
    BY <1>1, <1>4, <2>1, <2>2, <2>3
  <2>5. -y < g + 1 /\ g < 1
    <3>1. -y < g + 1
      BY <1>1, <1>4, <2>1, <2>4, Cancel
    <3>2. g < 1
      BY <1>1, <1>4, <2>4, Cancel
    <3> QED
      BY <3>1, <3>2
  <2>6. g \in (-y)..0
    BY <1>4, <2>1, <2>5
  <2>7. y = a - b
    BY DEF y
  <2> QED
    BY <1>1, <1>6, <2>6, <2>7
<1> QED
  BY <1>5, <1>6

Good(a) == a \in Int /\ Within(a)

LEMMA StaysGood ==
    ASSUME NEW percent \in 0..100, NEW a, NEW b, Good(a), b = TCMB \/ Good(b),
           NEW capA \in Nat \ {0}, NEW capB \in Nat \ {0}
    PROVE  Good(a + Gain(percent, a, b, capA, capB))
<1> DEFINE g == Gain(percent, a, b, capA, capB)
<1>1. TCMB \in Nat /\ a \in Int /\ b \in Int /\ b >= TCMB /\ a >= TCMB
  BY SuperconductAssumption DEF Good, Within
<1>2. /\ g \in Int
      /\ a <= b => g \in 0..(b - a)
      /\ b <= a => g \in (b - a)..0
  BY <1>1, GainBounds
<1> HIDE DEF g
<1>3. a + g \in Int /\ a + g >= TCMB /\ (a + g <= a \/ a + g <= b)
  BY <1>1, <1>2
<1>4. \A c \in Start : c \in Int
  BY SuperconductAssumption DEF Start
<1>5. a + g <= b /\ ~(a + g <= a) => Good(b)
  BY <1>1, <1>3
<1>6. Within(a + g)
  BY <1>1, <1>3, <1>4, <1>5 DEF Good, Within
<1> QED
  BY <1>3, <1>6 DEF Good, g

LEMMA LeastConduct ==
    ASSUME NEW t \in Turfs, NEW u \in Turfs
    PROVE  Min({Conduct[t], Conduct[u]}) \in 0..100
<1> DEFINE S == {Conduct[t], Conduct[u]}
<1>1. Conduct[t] \in 1..100 /\ Conduct[u] \in 1..100
  BY SuperconductAssumption
<1>2. \E x \in S : \A y \in S : x <= y
  BY <1>1
<1>3. Min(S) \in S
  BY <1>2 DEF Min
<1> QED
  BY <1>1, <1>3

LEMMA Percentages ==
    ASSUME NEW t \in Turfs
    PROVE  Conduct[t] \in 0..100 /\ (Conduct[t] * OpenPercent) \div 100 \in 0..100
<1> DEFINE c == Conduct[t]
           n == c * OpenPercent
<1>1. c \in 1..100 /\ OpenPercent \in 0..100
  BY SuperconductAssumption
<1>2. n \in Int /\ 0 <= n /\ n <= 100 * OpenPercent
  BY <1>1, Scale
<1> HIDE DEF n
<1>3. n \div 100 \in 0..100
  BY <1>1, <1>2
<1> QED
  BY <1>1, <1>3 DEF n

\* What is good of temperatures, without saying which the turfs are.
Temperatures ==
    /\ Known \subseteq Turfs
    /\ temp \in [Known -> Int]
    /\ air \in [Airy -> Int]
    /\ HeatWithinRange

HookOfTurf == main.at \in {"gases", "solid"} => main.turf \in Turfs

LooksAtKnown ==
    phase = "first" =>
        /\ todo \subseteq Known /\ listed \subseteq Known
        /\ \A j \in jobs : j.turf \in Known

Job == [turf : Known, left : SUBSET Known, with : SUBSET Known, gains : Int \X Int]

LockedBy(j) == {j.turf} \cup j.with

LocksApart == \A j, k \in jobs : j # k => LockedBy(j) \cap LockedBy(k) = {}

\* While two turfs are locked, what they gain is what their temperatures say.
GainsAsRead ==
    \A j \in jobs : \A u \in j.with :
        j.with = {u} /\ u # j.turf /\ j.gains = Gains(j.turf, u)

SharesLocked ==
    phase = "second" => todo \subseteq Known /\ jobs \subseteq Job /\ LocksApart /\ GainsAsRead

LEMMA SameGains ==
    ASSUME NEW t, NEW u, temp'[t] = temp[t], temp'[u] = temp[u]
    PROVE  Gains(t, u)' = Gains(t, u)
BY DEF Gains

NoWorkers == phase \notin {"first", "second"} => jobs = {}

HeatInv == Temperatures /\ HookOfTurf /\ LooksAtKnown /\ SharesLocked /\ NoWorkers

LEMMA GoodTemperatures ==
    ASSUME Temperatures
    PROVE  /\ \A t \in Known : t \in Turfs /\ Good(temp[t])
           /\ \A t \in Airy : Good(air[t])
BY DEF Temperatures, HeatWithinRange, Good

LEMMA InitialsGood ==
    /\ \A t \in Turfs : Good(Initial[t])
    /\ \A t \in Airy : Good(AirInitial[t])
<1>1. ASSUME NEW t \in Turfs PROVE Good(Initial[t])
  <2>1. Initial[t] \in Nat /\ Initial[t] >= TCMB /\ Initial[t] <= Initial[t]
    BY SuperconductAssumption
  <2>2. Initial[t] \in Start
    BY DEF Start
  <2> QED
    BY <2>1, <2>2 DEF Good, Within
<1>2. ASSUME NEW t \in Airy PROVE Good(AirInitial[t])
  <2>1. AirInitial[t] \in Nat /\ AirInitial[t] >= TCMB /\ AirInitial[t] <= AirInitial[t]
    BY SuperconductAssumption
  <2>2. AirInitial[t] \in Start
    BY DEF Start
  <2> QED
    BY <2>1, <2>2 DEF Good, Within
<1> QED
  BY <1>1, <1>2

LEMMA HeatInvInit == HeatInit => HeatInv
<1> SUFFICES ASSUME HeatInit PROVE HeatInv
  OBVIOUS
<1>3. Temperatures
  BY InitialsGood DEF HeatInit, Temperatures, Known, HeatWithinRange, Good
<1> QED
  BY <1>3 DEF HeatInit, HeatInv, HookOfTurf, LooksAtKnown, SharesLocked, NoWorkers

\* A step that leaves temperatures and the passes alone, or ends the passes.
LEMMA HeatInvFrame ==
    ASSUME HeatInv, UNCHANGED passes, HookOfTurf',
           phase' = phase \/ (phase' \notin {"first", "second"} /\ jobs = {})
    PROVE  HeatInv'
<1>1. temp' = temp /\ air' = air /\ todo' = todo /\ listed' = listed /\ jobs' = jobs
  BY DEF passes
<1>2. Temperatures'
  BY <1>1 DEF HeatInv, Temperatures, Known, HeatWithinRange
<1>3. LooksAtKnown' /\ NoWorkers'
  BY <1>1 DEF HeatInv, LooksAtKnown, NoWorkers, Known
<1>4. SharesLocked'
  <2> SUFFICES ASSUME phase' = "second" PROVE SharesLocked'
    BY DEF SharesLocked
  <2>1. /\ todo \subseteq Known /\ jobs \subseteq Job
        /\ LocksApart /\ GainsAsRead
    BY DEF HeatInv, SharesLocked
  <2>2. (todo \subseteq Known /\ jobs \subseteq Job)'
    BY <1>1, <2>1 DEF Known, Job
  <2>3. LocksApart'
    BY <1>1, <2>1 DEF LocksApart
  <2>4. GainsAsRead'
    BY <1>1, <2>1, SameGains DEF GainsAsRead
  <2> QED
    BY <2>2, <2>3, <2>4 DEF SharesLocked
<1> QED
  BY <1>2, <1>3, <1>4 DEF HeatInv

\* The hooks on BYOND's thread: they change what the turfs are only outside the
\* passes, and give a turf that is new its initial temperature.
LEMMA HeatInvHooks ==
    ASSUME HeatInv, HookGoesOn \/ HookCalled \/ Drains \/ HookSends
    PROVE  HeatInv'
<1>1. CASE HookCalled
  <2>1. UNCHANGED <<passes, phase>>
    BY <1>1 DEF HookCalled, Notify, CallTurfHook, CallShutdown, CallHook, InitializeHeat
  <2>2. HookOfTurf'
    BY <1>1, SuperconductAssumption
       DEF HeatInv, HookOfTurf, HookCalled, Notify, CallTurfHook, CallShutdown, CallHook,
           InitializeHeat, mainVars
  <2> QED
    BY <2>1, <2>2, HeatInvFrame
<1>2. CASE Drains \/ HookSends
  <2>1. UNCHANGED <<passes, phase, main>>
    BY <1>2 DEF Drains, HookSends, heatVars, mainVars
  <2> QED
    BY <2>1, HeatInvFrame DEF HeatInv, HookOfTurf
<1>3. CASE LockTurfGases \/ UnlockTurfGases \/ UpdateRefFails \/ WaitForTasks \/
            \E blocked \in SUBSET Turfs : UpdateAdjacencies(blocked)
  <2>1. UNCHANGED <<passes, phase>>
    BY <1>3 DEF LockTurfGases, UnlockTurfGases, UpdateRefFails, WaitForTasks, UpdateAdjacencies
  <2>2. HookOfTurf'
    <3>1. CASE LockTurfGases
      BY <3>1 DEF HeatInv, HookOfTurf, LockTurfGases
    <3>2. CASE UnlockTurfGases
      <4>1. main.turf \in Turfs /\ main' = [main EXCEPT !.at = "solid"]
        BY <3>2 DEF HeatInv, HookOfTurf, UnlockTurfGases
      <4> QED
        BY <4>1 DEF HookOfTurf
    <3>3. CASE UpdateRefFails \/ \E blocked \in SUBSET Turfs : UpdateAdjacencies(blocked)
      BY <3>3 DEF HookOfTurf, UpdateRefFails, UpdateAdjacencies, Return
    <3>4. CASE WaitForTasks
      BY <3>4 DEF HeatInv, HookOfTurf, WaitForTasks
    <3> QED
      BY <1>3, <3>1, <3>2, <3>3, <3>4
  <2> QED
    BY <2>1, <2>2, HeatInvFrame
<1>4. ASSUME NEW conducts \in BOOLEAN, UpdateRef(conducts)
      PROVE  HeatInv'
  <2> DEFINE t == main.turf
  <2>1. /\ t \in Turfs
        /\ phase \notin {"first", "second"} /\ phase' = phase
        /\ air' = air /\ jobs' = jobs
        /\ HookOfTurf'
    BY <1>4 DEF HeatInv, HookOfTurf, UpdateRef, ReadsHeat, Return
  <2>2. \A u \in Turfs : Good(Initial[u])
    BY InitialsGood
  <2>3. \A u \in Known : u \in Turfs /\ Good(temp[u])
    BY GoodTemperatures DEF HeatInv
  <2>4. \A u \in Airy : Good(air[u])
    BY GoodTemperatures DEF HeatInv
  <2>5. CASE conducts
    <3>1. temp' = [u \in Known \cup {t} |-> IF u \in Known THEN temp[u] ELSE Initial[u]]
      BY <1>4, <2>5 DEF UpdateRef
    <3>2. Temperatures'
      BY <2>1, <2>2, <2>3, <2>4, <3>1 DEF HeatInv, Temperatures, Known, HeatWithinRange, Good
    <3> QED
      BY <2>1, <3>2 DEF HeatInv, LooksAtKnown, SharesLocked, NoWorkers
  <2>6. CASE ~conducts
    <3>1. temp' = [u \in Known \ {t} |-> temp[u]]
      BY <1>4, <2>6 DEF UpdateRef, Restrict
    <3>2. Temperatures'
      BY <2>1, <2>3, <2>4, <3>1 DEF HeatInv, Temperatures, Known, HeatWithinRange, Good
    <3> QED
      BY <2>1, <3>2 DEF HeatInv, LooksAtKnown, SharesLocked, NoWorkers
  <2> QED
    BY <2>5, <2>6
<1>5. CASE ClearTurfs
  <2>1. /\ phase \notin {"first", "second"} /\ phase' = phase
        /\ air' = air /\ jobs' = jobs
        /\ HookOfTurf'
    BY <1>5 DEF HookOfTurf, ClearTurfs, ReadsHeat, Return
  <2>2. temp' = << >>
    BY <1>5 DEF ClearTurfs
  <2>3. Known' = {} /\ temp' \in [{} -> Int]
    BY <2>2 DEF Known
  <2>4. Temperatures'
    BY <2>1, <2>3 DEF HeatInv, Temperatures, HeatWithinRange
  <2> QED
    BY <2>1, <2>4 DEF HeatInv, LooksAtKnown, SharesLocked, NoWorkers
<1> QED
  BY <1>1, <1>2, <1>3, <1>4, <1>5 DEF HookGoesOn

\* What a turf that shares its heat with space and with its air has then, and the
\* air.
LEMMA RadiatedGood ==
    ASSUME Temperatures, NEW t \in Known
    PROVE  Good(Radiated(t))
<1>1. t \in Turfs /\ Good(temp[t])
  BY GoodTemperatures
<1>2. /\ Conduct[t] \in 0..100 /\ Capacity[t] \in Nat \ {0} /\ Vacuum \in Nat \ {0}
  BY <1>1, Percentages, SuperconductAssumption
<1>3. Good(temp[t] + Gain(Conduct[t], temp[t], TCMB, Capacity[t], Vacuum))
  BY <1>1, <1>2, StaysGood
<1> QED
  BY <1>1, <1>3 DEF Radiated

LEMMA SharedWithAirGood ==
    ASSUME Temperatures, NEW t \in Known \cap Airy, NEW solid, Good(solid)
    PROVE  Good(SharedWithAir(t, solid)[1]) /\ Good(SharedWithAir(t, solid)[2])
<1> DEFINE percent == (Conduct[t] * OpenPercent) \div 100
           s == solid + Gain(percent, solid, air[t], Capacity[t], AirCapacity[t])
           a == air[t] + Gain(percent, air[t], solid, AirCapacity[t], Capacity[t])
<1>1. t \in Turfs /\ Good(air[t])
  BY GoodTemperatures
<1>2. percent \in 0..100 /\ Capacity[t] \in Nat \ {0} /\ AirCapacity[t] \in Nat \ {0}
  BY <1>1, Percentages, SuperconductAssumption
<1>3. Good(s)
  <2> HIDE DEF percent
  <2> QED
    BY <1>1, <1>2, StaysGood
<1>4. Good(a)
  <2> HIDE DEF percent
  <2> QED
    BY <1>1, <1>2, StaysGood
<1>5. AtLeastSpace(s) = s /\ AtLeastSpace(a) = a
  <2> HIDE DEF s, a
  <2>1. TCMB \in Int /\ s \in Int /\ a \in Int /\ s >= TCMB /\ a >= TCMB
    BY <1>3, <1>4, SuperconductAssumption DEF Good, Within
  <2> QED
    BY <2>1 DEF AtLeastSpace
<1>6. SharedWithAir(t, solid) = IF ~Apart(air[t], solid) THEN <<solid, air[t]>>
                                ELSE <<AtLeastSpace(s), AtLeastSpace(a)>>
  BY DEF SharedWithAir
<1> HIDE DEF s, a
<1> QED
  BY <1>1, <1>3, <1>4, <1>5, <1>6

LEMMA GainsGood ==
    ASSUME Temperatures, NEW t \in Known, NEW u \in Known
    PROVE  /\ Good(temp[t] + Gains(t, u)[1]) /\ Good(temp[u] + Gains(t, u)[2])
           /\ Gains(t, u) \in Int \X Int
<1> DEFINE percent == Min({Conduct[t], Conduct[u]})
           p == Gain(percent, temp[t], temp[u], Capacity[t], Capacity[u])
           q == Gain(percent, temp[u], temp[t], Capacity[u], Capacity[t])
<1>1. t \in Turfs /\ u \in Turfs /\ Good(temp[t]) /\ Good(temp[u])
  BY GoodTemperatures
<1>2. percent \in 0..100 /\ Capacity[t] \in Nat \ {0} /\ Capacity[u] \in Nat \ {0}
  BY <1>1, LeastConduct, SuperconductAssumption
<1>3. Gains(t, u) = <<p, q>>
  BY DEF Gains
<1>4. Good(temp[t] + p) /\ Good(temp[u] + q) /\ p \in Int /\ q \in Int
  <2> HIDE DEF percent
  <2>1. Good(temp[t] + p) /\ Good(temp[u] + q)
    BY <1>1, <1>2, StaysGood
  <2>2. p \in Int /\ q \in Int
    BY <1>1, <1>2, GainBounds DEF Good
  <2> QED
    BY <2>1, <2>2
<1> HIDE DEF p, q
<1> QED
  BY <1>3, <1>4

LEMMA TemperaturesChange ==
    ASSUME Temperatures,
           temp' \in [Known -> Int], \A u \in Known : Good(temp'[u]),
           air' \in [Airy -> Int], \A u \in Airy : Good(air'[u])
    PROVE  Temperatures' /\ Known' = Known
<1>1. Known' = Known
  BY DEF Known
<1> QED
  BY <1>1 DEF Temperatures, HeatWithinRange, Good

LEMMA HeatInvFirst ==
    ASSUME HeatInv, FirstPass
    PROVE  HeatInv'
<1>0. phase = "first" /\ phase' = "first" /\ main' = main
  BY DEF FirstPass, Look, PassBy, Consider, mainVars
<1>1. /\ Temperatures /\ HookOfTurf'
      /\ todo \subseteq Known /\ listed \subseteq Known
      /\ \A j \in jobs : j.turf \in Known
  BY <1>0 DEF HeatInv, HookOfTurf, LooksAtKnown
<1>2. SUFFICES Temperatures' /\ LooksAtKnown'
  BY <1>0, <1>1 DEF HeatInv, SharesLocked, NoWorkers
<1>3. ASSUME UNCHANGED <<temp, air>>
      PROVE  Temperatures' /\ Known' = Known
  BY <1>1, <1>3 DEF Temperatures, Known, HeatWithinRange
<1>4. ASSUME NEW t \in todo, Look(t)
      PROVE  Temperatures' /\ LooksAtKnown'
  BY <1>1, <1>3, <1>4 DEF Look, LooksAtKnown
<1>5. ASSUME NEW j \in jobs, PassBy(j)
      PROVE  Temperatures' /\ LooksAtKnown'
  BY <1>1, <1>3, <1>5 DEF PassBy, LooksAtKnown
<1>6. ASSUME NEW j \in jobs, NEW airFree \in BOOLEAN, Consider(j, airFree)
      PROVE  Temperatures' /\ LooksAtKnown'
  <2> DEFINE t == j.turf
             shared == IF airFree THEN SharedWithAir(t, Radiated(t)) ELSE <<Radiated(t)>>
  <2>1. /\ t \in Known /\ (airFree => t \in Airy) /\ todo' = todo
        /\ temp' = [temp EXCEPT ![t] = shared[1]]
        /\ air' = IF airFree THEN [air EXCEPT ![t] = shared[2]] ELSE air
        /\ listed' \subseteq listed \cup {t} /\ jobs' \subseteq jobs
    BY <1>1, <1>6 DEF Consider
  <2>2. Good(Radiated(t))
    BY <1>1, <2>1, RadiatedGood
  <2>3. Good(shared[1]) /\ (airFree => Good(shared[2]))
    <3>1. CASE airFree
      BY <1>1, <2>1, <2>2, <3>1, SharedWithAirGood
    <3>2. CASE ~airFree
      BY <2>2, <3>2
    <3> QED
      BY <3>1, <3>2
  <2> HIDE DEF shared
  <2>4. temp \in [Known -> Int] /\ air \in [Airy -> Int]
    BY <1>1 DEF Temperatures
  <2>5. /\ temp' \in [Known -> Int] /\ \A u \in Known : Good(temp'[u])
        /\ air' \in [Airy -> Int] /\ \A u \in Airy : Good(air'[u])
    <3>1. shared[1] \in Int /\ (airFree => shared[2] \in Int)
      BY <2>3 DEF Good
    <3>2. temp' \in [Known -> Int] /\ air' \in [Airy -> Int]
      BY <2>1, <2>4, <3>1
    <3>3. \A u \in Known : temp'[u] = IF u = t THEN shared[1] ELSE temp[u]
      BY <2>1, <2>4
    <3>4. \A u \in Airy : air'[u] = air[u] \/ (airFree /\ air'[u] = shared[2])
      BY <2>1, <2>4
    <3> HIDE DEF t
    <3>5. \A u \in Known : Good(temp'[u])
      BY <1>1, <2>3, <3>3, GoodTemperatures
    <3>6. \A u \in Airy : Good(air'[u])
      BY <1>1, <2>3, <3>4, GoodTemperatures
    <3> QED
      BY <3>2, <3>5, <3>6
  <2>6. Temperatures' /\ Known' = Known
    BY <1>1, <2>5, TemperaturesChange
  <2> QED
    BY <1>1, <2>1, <2>6 DEF LooksAtKnown
<1> QED
  BY <1>4, <1>5, <1>6 DEF FirstPass

LEMMA HeatInvSecond ==
    ASSUME HeatInv, SecondPass
    PROVE  HeatInv'
<1>0. phase = "second" /\ phase' = "second" /\ main' = main
  BY DEF SecondPass, TakeTurf, LockNear, ShareNear, LeaveTurf, mainVars
<1>1. /\ Temperatures /\ HookOfTurf'
      /\ todo \subseteq Known /\ jobs \subseteq Job
      /\ LocksApart /\ GainsAsRead
      /\ temp \in [Known -> Int]
  BY <1>0 DEF HeatInv, HookOfTurf, SharesLocked, Temperatures
<1>2. SUFFICES Temperatures' /\ SharesLocked'
  BY <1>0, <1>1 DEF HeatInv, LooksAtKnown, NoWorkers
<1>3. ASSUME UNCHANGED <<temp, air>>
      PROVE  Temperatures' /\ Known' = Known /\ Job' = Job
             /\ \A t, u : Gains(t, u)' = Gains(t, u)
  BY <1>1, <1>3 DEF Temperatures, Known, HeatWithinRange, Job, Gains
<1>4. ASSUME NEW t \in todo, NEW locks \in BOOLEAN, TakeTurf(t, locks)
      PROVE  Temperatures' /\ SharesLocked'
  <2> DEFINE n == [turf |-> t, left |-> Out(t), with |-> {}, gains |-> <<0, 0>>]
  <2>1. /\ UNCHANGED <<temp, air>>
        /\ todo' \subseteq todo
        /\ jobs' = jobs \/ (jobs' = jobs \cup {n} /\ t \notin Locked)
    BY <1>4 DEF TakeTurf
  <2>2. n \in Job
    BY <1>1 DEF Job, Out
  <2>3. \A j \in jobs : LockedBy(j) \subseteq Locked
    BY DEF LockedBy, Locked
  <2>4. LockedBy(n) = {t} /\ n.with = {}
    BY DEF LockedBy
  <2> HIDE DEF n
  <2>5. (todo \subseteq Known)' /\ (jobs \subseteq Job)'
    BY <1>1, <1>3, <2>1, <2>2
  <2>6. LocksApart'
    BY <1>1, <2>1, <2>3, <2>4 DEF LocksApart
  <2>7. GainsAsRead'
    BY <1>1, <1>3, <2>1, <2>4 DEF GainsAsRead
  <2> QED
    BY <1>3, <2>1, <2>5, <2>6, <2>7 DEF SharesLocked
<1>5. ASSUME NEW j \in jobs, NEW u \in j.left, NEW locks \in BOOLEAN, LockNear(j, u, locks)
      PROVE  Temperatures' /\ SharesLocked'
  <2> DEFINE n == [j EXCEPT !.left = @ \ {u},
                            !.with = IF locks THEN {u} ELSE {},
                            !.gains = IF locks THEN Gains(j.turf, u) ELSE <<0, 0>>]
  <2>1. /\ UNCHANGED <<temp, air, todo>>
        /\ jobs' = (jobs \ {j}) \cup {n}
        /\ locks => u \notin Locked
    BY <1>5 DEF LockNear
  <2>2. j \in Job /\ j.turf \in Known /\ u \in Known /\ Gains(j.turf, u) \in Int \X Int
    BY <1>1, GainsGood DEF Job
  <2>3. /\ n \in Job /\ n.turf = j.turf
        /\ n.with = IF locks THEN {u} ELSE {}
        /\ locks => n.gains = Gains(j.turf, u)
    <3> DEFINE v == IF locks THEN {u} ELSE {}
               h == IF locks THEN Gains(j.turf, u) ELSE <<0, 0>>
               l == j.left \ {u}
    <3>1. l \in SUBSET Known /\ v \in SUBSET Known /\ h \in Int \X Int
      BY <2>2 DEF Job
    <3>2. n = [j EXCEPT !.left = l, !.with = v, !.gains = h]
      OBVIOUS
    <3> HIDE DEF n, v, h, l
    <3>3. n \in Job /\ n.turf = j.turf /\ n.with = v /\ n.gains = h
      BY <2>2, <3>1, <3>2 DEF Job
    <3> QED
      BY <3>3 DEF v, h
  <2>4. \A k \in jobs : LockedBy(k) \subseteq Locked
    BY DEF LockedBy, Locked
  <2>5. LockedBy(n) \subseteq LockedBy(j) \cup (IF locks THEN {u} ELSE {})
    BY <2>3 DEF LockedBy
  <2>6. j.turf \in Locked
    BY <2>4 DEF LockedBy
  <2> HIDE DEF n
  <2>7. (todo \subseteq Known)' /\ (jobs \subseteq Job)'
    BY <1>1, <1>3, <2>1, <2>3
  <2>8. LocksApart'
    BY <1>1, <2>1, <2>4, <2>5 DEF LocksApart
  <2>9. GainsAsRead'
    <3>1. \A v \in n.with : n.with = {v} /\ v # n.turf /\ n.gains = Gains(n.turf, v)
      BY <2>1, <2>3, <2>6
    <3> QED
      BY <1>1, <1>3, <2>1, <3>1 DEF GainsAsRead
  <2> QED
    BY <1>3, <2>1, <2>7, <2>8, <2>9 DEF SharesLocked
<1>6. ASSUME NEW j \in jobs, NEW u \in j.with, ShareNear(j, u)
      PROVE  Temperatures' /\ SharesLocked'
  <2> DEFINE n == [j EXCEPT !.with = {}, !.gains = <<0, 0>>]
             t == j.turf
  <2>1. /\ UNCHANGED <<air, todo>>
        /\ temp' = [temp EXCEPT ![t] = @ + j.gains[1], ![u] = @ + j.gains[2]]
        /\ jobs' = (jobs \ {j}) \cup {n}
    BY <1>6 DEF ShareNear
  <2>2. j \in Job /\ t \in Known /\ u \in Known /\ u # t /\ j.gains = Gains(t, u)
    BY <1>1 DEF Job, GainsAsRead
  <2>3. n \in Job /\ n.turf = t /\ n.with = {} /\ LockedBy(n) \subseteq LockedBy(j)
    <3>1. n \in Job /\ n.turf = t /\ n.with = {}
      <4> DEFINE w == {}
                 g == <<0, 0>>
      <4>1. w \in SUBSET Known /\ g \in Int \X Int
        OBVIOUS
      <4>2. n = [j EXCEPT !.with = w, !.gains = g]
        OBVIOUS
      <4> HIDE DEF n, w, g
      <4>3. n \in Job /\ n.turf = t /\ n.with = w
        BY <2>2, <4>1, <4>2 DEF Job
      <4> QED
        BY <4>3 DEF w
    <3> HIDE DEF n
    <3> QED
      BY <3>1 DEF LockedBy
  <2>4. Good(temp[t] + j.gains[1]) /\ Good(temp[u] + j.gains[2]) /\ j.gains \in Int \X Int
    BY <1>1, <2>2, GainsGood
  <2> HIDE DEF n, t
  <2>5. /\ temp' \in [Known -> Int]
        /\ \A v \in Known \ {t, u} : temp'[v] = temp[v]
        /\ temp'[t] = temp[t] + j.gains[1] /\ temp'[u] = temp[u] + j.gains[2]
    BY <1>1, <2>1, <2>2, <2>4
  <2>6. Temperatures' /\ Known' = Known
    <3>1. \A v \in Known : Good(temp'[v])
      BY <1>1, <2>4, <2>5, GoodTemperatures
    <3>2. air' \in [Airy -> Int] /\ \A v \in Airy : Good(air'[v])
      BY <1>1, <2>1, GoodTemperatures DEF Temperatures
    <3> QED
      BY <1>1, <2>5, <3>1, <3>2, TemperaturesChange
  <2>7. (todo \subseteq Known)' /\ (jobs \subseteq Job)'
    BY <1>1, <2>1, <2>3, <2>6 DEF Job
  <2>8. LocksApart'
    BY <1>1, <2>1, <2>3 DEF LocksApart
  <2>9. GainsAsRead'
    <3>1. ASSUME NEW k \in jobs \ {j}, NEW v \in k.with
          PROVE  k.with = {v} /\ v # k.turf /\ k.gains = Gains(k.turf, v)'
      <4>1. k.with = {v} /\ v # k.turf /\ k.gains = Gains(k.turf, v)
        BY <1>1 DEF GainsAsRead
      <4>2. LockedBy(j) \cap LockedBy(k) = {} /\ {t, u} \subseteq LockedBy(j)
            /\ {v, k.turf} \subseteq LockedBy(k)
        BY <1>1 DEF LocksApart, LockedBy, t
      <4>3. v \in Known /\ k.turf \in Known
        BY <1>1 DEF Job
      <4>4. temp'[v] = temp[v] /\ temp'[k.turf] = temp[k.turf]
        BY <2>5, <4>2, <4>3
      <4> QED
        BY <4>1, <4>4, SameGains
    <3> QED
      BY <2>1, <2>3, <3>1 DEF GainsAsRead
  <2> QED
    BY <2>6, <2>7, <2>8, <2>9 DEF SharesLocked
<1>7. ASSUME NEW j \in jobs, LeaveTurf(j)
      PROVE  Temperatures' /\ SharesLocked'
  <2>1. UNCHANGED <<temp, air, todo>> /\ jobs' \subseteq jobs
    BY <1>7 DEF LeaveTurf
  <2>2. LocksApart'
    BY <1>1, <2>1 DEF LocksApart
  <2>3. GainsAsRead'
    BY <1>1, <1>3, <2>1 DEF GainsAsRead
  <2> QED
    BY <1>1, <1>3, <2>1, <2>2, <2>3 DEF SharesLocked
<1> QED
  BY <1>4, <1>5, <1>6, <1>7 DEF SecondPass

LEMMA HeatInvThread ==
    ASSUME HeatInv, HeatThread
    PROVE  HeatInv'
<1>1. CASE Receive \/ LockTasks \/ LockTurfHeat \/ EndSecond \/ SendCost
  <2>1. UNCHANGED <<passes, main>>
    BY <1>1 DEF Receive, LockTasks, LockTurfHeat, EndSecond, SendCost, mainVars
  <2>2. phase' = phase \/ (phase' \notin {"first", "second"} /\ jobs = {})
    BY <1>1 DEF HeatInv, NoWorkers, Receive, LockTasks, LockTurfHeat, EndSecond, SendCost
  <2> QED
    BY <2>1, <2>2, HeatInvFrame DEF HeatInv, HookOfTurf
<1>2. CASE ReadTurfGases \/ BeginSecond
  <2>1. /\ UNCHANGED <<temp, air, main, jobs>> /\ jobs = {}
        /\ todo' \subseteq Known /\ listed' \subseteq Known
        /\ phase' \in {"first", "second"}
    BY <1>2 DEF HeatInv, NoWorkers, LooksAtKnown, ReadTurfGases, BeginSecond, mainVars
  <2>2. Temperatures' /\ HookOfTurf' /\ Known' = Known
    BY <2>1 DEF HeatInv, Temperatures, HookOfTurf, Known, HeatWithinRange
  <2> QED
    BY <2>1, <2>2 DEF HeatInv, LooksAtKnown, SharesLocked, LocksApart, GainsAsRead, NoWorkers
<1> QED
  BY <1>1, <1>2, HeatInvFirst, HeatInvSecond DEF HeatThread

\* Heat goes from the hotter to the colder, whatever the workers and the hooks do
\* at the same time: for all maps, conductivities, capacities, temperatures and
\* numbers of workers.
THEOREM HeatStaysWithinRange == HeatSpec => []HeatWithinRange
<1>1. HeatInv /\ [HeatNext]_allVars => HeatInv'
  <2>1. ASSUME HeatInv, UNCHANGED allVars PROVE HeatInv'
    <3>1. UNCHANGED <<passes, phase, main>>
      BY <2>1 DEF allVars, heatVars, mainVars
    <3> QED
      BY <2>1, <3>1, HeatInvFrame DEF HeatInv, HookOfTurf
  <2> QED
    BY <2>1, HeatInvHooks, HeatInvThread DEF HeatNext
<1>2. HeatInv => HeatWithinRange
  BY DEF HeatInv, Temperatures
<1> QED
  BY HeatInvInit, <1>1, <1>2, PTL DEF HeatSpec
=============================================================================
