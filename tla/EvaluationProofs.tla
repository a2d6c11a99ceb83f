---------------------------- MODULE EvaluationProofs ----------------------------
(***************************************************************************)
(* Ranking, selection and dampening over any sequence of evaluations, for  *)
(* any pods, measurements and settings.                                    *)
(*                                                                         *)
(* The argument.  Between evaluations the state holds a ranking of the     *)
(* measurements and the selection made from it (Chosen), so what holds of  *)
(* the operators holds of the state.  The counter of the dampener counts a *)
(* tail of the selections held back: exactly the selections in it differ   *)
(* enough from what is applied, and the one before it does not (Tail).     *)
(***************************************************************************)
EXTENDS Evaluation, AggregatorProofs

-----------------------------------------------------------------------------
(* The inductive invariant.                                                *)

\* What the last evaluation measured, ranked and selected.
Chosen ==
    /\ spec \in SelectionSpec
    /\ DOMAIN P99 \subseteq PodIP /\ \A ip \in DOMAIN P99 : P99[ip] \in Nat
    /\ ranked \in RankPods(P99)
    /\ selected = selectPods(spec, ranked, P99)

\* The dampener and the history of the selections that it held back.
Remembered ==
    /\ d \in [previousSelected : SUBSET PodIP, violationCount : Nat]
    /\ d.previousSelected = applied
    /\ run \in Seq(SUBSET PodIP) /\ Len(run) <= Needed

\* The last count members of s differ enough, and the one before them does not.
DifferingTail(s, count) ==
    /\ count <= Len(s)
    /\ \A i \in DOMAIN s : i > Len(s) - count => Differs(s[i])
    /\ count < Len(s) => ~Differs(s[Len(s) - count])

IInv == Chosen /\ Remembered /\ DifferingTail(run, d.violationCount)

-----------------------------------------------------------------------------
(* The tail of the selections held back.                                   *)

\* The settings of the dampener.
LEMMA Settings ==
    /\ dampening.ConsecutiveIntervals \in Nat \ {0}
    /\ Needed \in Nat /\ dampening.ConsecutiveIntervals = Needed + 1
  BY EvaluationAssumption DEF DampeningSpec, Needed

\* One more selection makes the tail longer by one, or cuts it off.
LEMMA TailAppend ==
    ASSUME NEW s \in Seq(SUBSET PodIP), NEW count \in Nat, DifferingTail(s, count),
           NEW new \in SUBSET PodIP
    PROVE  DifferingTail(Append(s, new), IF Differs(new) THEN count + 1 ELSE 0)
<1> DEFINE t == Append(s, new)
<1>1. /\ Len(s) \in Nat /\ DOMAIN s = 1..Len(s)
      /\ Len(t) = Len(s) + 1 /\ DOMAIN t = 1..(Len(s) + 1)
      /\ t[Len(s) + 1] = new /\ \A i \in DOMAIN s : t[i] = s[i]
  OBVIOUS
<1> HIDE DEF t
<1>2. CASE Differs(new)
  <2>1. ASSUME NEW i \in DOMAIN t, i > Len(t) - (count + 1) PROVE Differs(t[i])
    <3>1. CASE i = Len(s) + 1
      BY <1>1, <1>2, <3>1
    <3>2. CASE i \in DOMAIN s
      <4>1. i > Len(s) - count
        BY <1>1, <2>1
      <4> QED BY <1>1, <3>2, <4>1 DEF DifferingTail
    <3> QED BY <1>1, <3>1, <3>2
  <2>2. ASSUME count + 1 < Len(t) PROVE ~Differs(t[Len(t) - (count + 1)])
    <3>1. count < Len(s) /\ Len(t) - (count + 1) = Len(s) - count /\ Len(s) - count \in DOMAIN s
      BY <1>1, <2>2
    <3> QED BY <1>1, <3>1 DEF DifferingTail
  <2>3. count + 1 <= Len(t)
    BY <1>1 DEF DifferingTail
  <2> QED BY <1>2, <2>1, <2>2, <2>3 DEF DifferingTail, t
<1>3. CASE ~Differs(new)
  <2>1. Len(t) - 0 = Len(s) + 1 /\ 0 <= Len(t) /\ \A i \in DOMAIN t : ~(i > Len(t) - 0)
    BY <1>1
  <2> QED BY <1>1, <1>3, <2>1 DEF DifferingTail, t
<1> QED BY <1>2, <1>3

\* Forgetting the oldest selections leaves a tail that is short enough.
LEMMA TailLastOf ==
    ASSUME NEW s \in Seq(SUBSET PodIP), Len(s) <= Needed + 1,
           NEW count \in Nat, count <= Needed, DifferingTail(s, count)
    PROVE  /\ LastOf(s, Needed) \in Seq(SUBSET PodIP) /\ Len(LastOf(s, Needed)) <= Needed
           /\ DifferingTail(LastOf(s, Needed), count)
<1>0. Needed \in Nat /\ Len(s) \in Nat /\ DOMAIN s = 1..Len(s)
  BY Settings
<1>1. CASE Len(s) <= Needed
  BY <1>1 DEF LastOf
<1>2. CASE ~(Len(s) <= Needed)
  <2> DEFINE t == SubSeq(s, 2, Len(s))
  <2>1. Len(s) = Needed + 1 /\ LastOf(s, Needed) = t
    <3>1. Len(s) = Needed + 1 /\ Len(s) - Needed + 1 = 2
      <4>1. PICK n, l \in Nat : n = Needed /\ l = Len(s)
        BY <1>0
      <4>2. l <= n + 1 /\ ~(l <= n)
        BY <1>2, <4>1
      <4>3. l = n + 1 /\ l - n + 1 = 2
        BY <4>2
      <4> QED BY <4>1, <4>3
    <3> QED BY <1>2, <3>1 DEF LastOf
  <2>2. /\ t \in Seq(SUBSET PodIP) /\ Len(t) = Needed /\ DOMAIN t = 1..Needed
        /\ \A i \in 1..Needed : t[i] = s[i + 1]
    BY <1>0, <2>1
  <2> HIDE DEF t
  <2>3. ASSUME NEW i \in DOMAIN t, i > Len(t) - count PROVE Differs(t[i])
    <3>1. i + 1 \in DOMAIN s /\ i + 1 > Len(s) - count
      BY <1>0, <2>1, <2>2, <2>3
    <3> QED BY <2>2, <3>1 DEF DifferingTail
  <2>4. ASSUME count < Len(t) PROVE ~Differs(t[Len(t) - count])
    <3>1. /\ Len(t) - count \in 1..Needed /\ count < Len(s)
          /\ (Len(t) - count) + 1 = Len(s) - count
      BY <1>0, <2>1, <2>2, <2>4
    <3> QED BY <2>2, <3>1 DEF DifferingTail
  <2> QED BY <1>0, <2>1, <2>2, <2>3, <2>4 DEF DifferingTail
<1> QED BY <1>1, <1>2

\* The tail of s has as many members as there are indices from which on all differ.
LEMMA TailCounted ==
    ASSUME Remembered, DifferingTail(run, d.violationCount)
    PROVE  d.violationCount = PersistentFor
<1>1. PICK count \in Nat : count = d.violationCount
  BY DEF Remembered
<1>2. Len(run) \in Nat /\ DOMAIN run = 1..Len(run) /\ count <= Len(run)
  BY <1>1 DEF Remembered, DifferingTail
<1> DEFINE S == {i \in DOMAIN run : \A j \in i..Len(run) : Differs(run[j])}
<1>3. ASSUME NEW i \in DOMAIN run PROVE i \in S <=> i > Len(run) - count
  <2>1. ASSUME i > Len(run) - count PROVE i \in S
    <3>1. \A j \in i..Len(run) : j \in DOMAIN run /\ j > Len(run) - count
      BY <1>2, <2>1
    <3> QED BY <1>1, <3>1 DEF DifferingTail
  <2>2. ASSUME ~(i > Len(run) - count) PROVE i \notin S
    <3>1. Len(run) - count \in i..Len(run) /\ count < Len(run)
      BY <1>2, <2>2
    <3> QED BY <1>1, <3>1 DEF DifferingTail
  <2> QED BY <2>1, <2>2
<1>4. S = ((Len(run) - count) + 1)..Len(run)
  <2>1. S \subseteq DOMAIN run /\ ((Len(run) - count) + 1)..Len(run) \subseteq DOMAIN run
    BY <1>2
  <2> HIDE DEF S
  <2>2. \A i \in DOMAIN run : i > Len(run) - count <=> i \in ((Len(run) - count) + 1)..Len(run)
    BY <1>2
  <2>3. \A i \in DOMAIN run : i \in S <=> i \in ((Len(run) - count) + 1)..Len(run)
    BY <1>3, <2>2
  <2>4. PICK I : I = ((Len(run) - count) + 1)..Len(run)
    OBVIOUS
  <2> QED BY <2>1, <2>3, <2>4
<1>5. Cardinality(S) = count
  <2> HIDE DEF S
  <2>1. (Len(run) - count) + 1 \in Int /\ Len(run) \in Int
    BY <1>2
  <2>2. Cardinality(((Len(run) - count) + 1)..Len(run)) =
           IF (Len(run) - count) + 1 > Len(run) THEN 0
           ELSE Len(run) - ((Len(run) - count) + 1) + 1
    BY <2>1, FS_Interval
  <2> QED BY <1>2, <1>4, <2>2
<1> QED BY <1>1, <1>5 DEF PersistentFor

-----------------------------------------------------------------------------
(* The invariant holds.                                                    *)

\* Nothing measured, nothing selected, nothing held back.
LEMMA InitHolds == Init => IInv
<1> SUFFICES ASSUME Init PROVE IInv
  OBVIOUS
<1>1. Chosen
  <2>1. DOMAIN P99 = {} /\ spec \in SelectionSpec
    BY EvaluationAssumption DEF Init
  <2>2. Cardinality(DOMAIN P99) = 0
    BY <2>1, FS_EmptySet
  <2>3. ranked \in [1..0 -> DOMAIN P99] /\ DOMAIN ranked = {}
    BY DEF Init
  <2>4. ranked \in RankPods(P99)
    BY <2>2, <2>3 DEF RankPods, Orders, InOrder
  <2>5. selected = selectPods(spec, ranked, P99)
    BY DEF Init, selectPods
  <2> QED BY <2>1, <2>4, <2>5 DEF Chosen
<1>2. Remembered
  BY Settings DEF Init, Remembered, NewDampeningState
<1>3. DifferingTail(run, d.violationCount)
  BY DEF Init, DifferingTail, NewDampeningState
<1> QED BY <1>1, <1>2, <1>3 DEF IInv

\* Measurements of pods are finitely many.
LEMMA ChosenMeasured == Chosen => Measured(P99)
  BY EvaluationAssumption, FS_Subset DEF Chosen, Measured

\* An evaluation measures, ranks and selects anew.
LEMMA EvaluateChooses ==
    ASSUME Chosen, Evaluate
    PROVE  Chosen' /\ Members(selected') \in SUBSET PodIP
<1>1. PICK measured \in SUBSET PodIP : P99' \in [measured -> Latency]
  BY DEF Evaluate
<1>2. DOMAIN P99' = measured /\ \A ip \in measured : P99'[ip] \in Nat
  BY <1>1, EvaluationAssumption
<1>3. /\ spec' = spec /\ ranked' \in RankPods(P99')
      /\ selected' = selectPods(spec, ranked', P99')
  BY DEF Evaluate
<1>4. Chosen'
  BY <1>2, <1>3 DEF Chosen
<1>5. /\ ranked' \in Seq(DOMAIN P99') /\ Members(ranked') = DOMAIN P99'
  <2>1. IsFiniteSet(DOMAIN P99')
    BY <1>2, EvaluationAssumption, FS_Subset
  <2> QED BY <1>3, <2>1, RankingListsAll
<1>6. Members(selected') \subseteq Members(ranked')
  BY <1>3, <1>5, SelectionKeepsSome DEF Chosen
<1> QED BY <1>2, <1>4, <1>5, <1>6

\* A selection that is let through starts a new history.
LEMMA AppliedAnew ==
    ASSUME NEW new \in SUBSET PodIP,
           d' = [previousSelected |-> new, violationCount |-> 0],
           applied' = new, run' = <<>>
    PROVE  Remembered' /\ DifferingTail(run, d.violationCount)'
<1>1. d'.previousSelected = new /\ d'.violationCount = 0 /\ Len(run') = 0 /\ DOMAIN run' = {}
  OBVIOUS
<1> QED BY <1>1, Settings DEF Remembered, DifferingTail

\* A selection that is held back is one more of the run.
LEMMA HeldBack ==
    ASSUME IInv, NEW new \in SUBSET PodIP, NEW count \in Nat,
           count = IF Differs(new) THEN d.violationCount + 1 ELSE 0,
           count <= Needed,
           d' = [d EXCEPT !.violationCount = count],
           applied' = applied, run' = LastOf(Append(run, new), Needed)
    PROVE  Remembered' /\ DifferingTail(run, d.violationCount)'
<1> DEFINE s == Append(run, new)
<1>1. /\ d.violationCount \in Nat /\ DifferingTail(run, d.violationCount)
      /\ run \in Seq(SUBSET PodIP)
  BY DEF IInv, Remembered
<1>2. DifferingTail(s, count)
  BY <1>1, TailAppend
<1>3. s \in Seq(SUBSET PodIP) /\ Len(s) <= Needed + 1
  BY <1>1, Settings DEF IInv, Remembered
<1> HIDE DEF s
<1>4. /\ LastOf(s, Needed) \in Seq(SUBSET PodIP) /\ Len(LastOf(s, Needed)) <= Needed
      /\ DifferingTail(LastOf(s, Needed), count)
  BY <1>2, <1>3, TailLastOf
<1>5. DifferingTail(run', count)
  BY <1>4 DEF s
<1>6. d'.violationCount = count /\ d'.previousSelected = d.previousSelected
  BY DEF IInv, Remembered
<1>7. DifferingTail(run, d.violationCount)'
  BY <1>5, <1>6 DEF DifferingTail, Differs
<1>8. Remembered'
  BY <1>4, <1>6 DEF IInv, Remembered, s
<1> QED BY <1>7, <1>8

\* What an evaluation does with the selection it made.
LEMMA EvaluateHolds ==
    ASSUME IInv, Evaluate
    PROVE  IInv'
<1> DEFINE new == Members(selected')
           count == IF Differs(new) THEN d.violationCount + 1 ELSE 0
<1>1. Chosen' /\ new \in SUBSET PodIP
  BY EvaluateChooses DEF IInv
<1>2. d.previousSelected = applied /\ d.violationCount \in Nat
  BY DEF IInv, Remembered
<1>3. \/ /\ d' = [previousSelected |-> new, violationCount |-> 0]
         /\ applied' = new /\ run' = <<>>
      \/ /\ ~(count >= dampening.ConsecutiveIntervals)
         /\ d' = [d EXCEPT !.violationCount = count]
         /\ applied' = applied /\ run' = LastOf(Append(run, new), Needed)
  BY <1>2 DEF Evaluate, ShouldUpdate, Differs
<1>4. count \in Nat
  BY <1>2
<1> HIDE DEF new
<1>5. Remembered' /\ DifferingTail(run, d.violationCount)'
  <2>1. CASE /\ d' = [previousSelected |-> new, violationCount |-> 0]
             /\ applied' = new /\ run' = <<>>
    BY <1>1, <2>1, AppliedAnew
  <2>2. CASE /\ ~(count >= dampening.ConsecutiveIntervals)
             /\ d' = [d EXCEPT !.violationCount = count]
             /\ applied' = applied /\ run' = LastOf(Append(run, new), Needed)
    <3>1. count <= Needed
      BY <1>4, <2>2, Settings
    <3> QED BY <1>1, <1>4, <2>2, <3>1, HeldBack
  <2> QED BY <1>3, <2>1, <2>2
<1> QED BY <1>1, <1>5 DEF IInv

\* IInv is an invariant of successive evaluations.
LEMMA Invariant == Spec => []IInv
<1>1. IInv /\ UNCHANGED vars => IInv'
  BY DEF vars, IInv, Chosen, Remembered, DifferingTail, Differs
<1>2. IInv /\ [Next]_vars => IInv'
  BY <1>1, EvaluateHolds DEF Next
<1> QED BY <1>2, InitHolds, PTL DEF Spec

-----------------------------------------------------------------------------
(* What follows.                                                           *)

\* No evaluation leaves out a pod in favour of a strictly slower one, whatever the
\* mode of selectPods and however ties were ordered.
THEOREM NoFasterPodIsLeftOut == Spec => []NoFasterPodLeftOut
<1>1. IInv => NoFasterPodLeftOut
  BY ChosenMeasured, FastestSelected DEF IInv, Chosen, NoFasterPodLeftOut
<1> QED BY <1>1, Invariant, PTL

\* SelectTopN, SelectTopPercent and SelectByThreshold keep as many pods as the policy
\* asks for, and never none of a fleet.
THEOREM TheRightNumberIsKept == Spec => []KeepsTheRightNumber
<1>1. ASSUME IInv PROVE KeepsTheRightNumber
  <2>1. spec \in SelectionSpec /\ Measured(P99) /\ ranked \in RankPods(P99)
    BY <1>1, ChosenMeasured DEF IInv, Chosen
  <2>2. Len(ranked) = Cardinality(DOMAIN P99) /\ ranked \in Seq(DOMAIN P99)
    BY <2>1, RankingListsAll DEF Measured
  <2>3. selected = selectPods(spec, ranked, P99)
    BY <1>1 DEF IInv, Chosen
  <2>4. PICK number, total : number = Len(selected) /\ total = Cardinality(DOMAIN P99)
    OBVIOUS
  <2>5. CASE ranked = <<>>
    <3>1. total = 0 /\ number = 0
      BY <2>2, <2>3, <2>4, <2>5 DEF selectPods
    <3> QED BY <2>4, <3>1 DEF KeepsTheRightNumber
  <2>6. CASE ranked # <<>> /\ spec.Mode = "threshold"
    BY <2>1, <2>3, <2>6, SelectedNumber DEF KeepsTheRightNumber
  <2>7. CASE ranked # <<>> /\ spec.Mode # "threshold"
    <3>1. total \in Nat /\ total > 0 /\ number = Quota(spec, total)
      BY <2>1, <2>3, <2>4, <2>7, SelectedNumber
    <3>2. CASE spec.Mode = "topN"
      <4>1. OrDefault(spec.TopN, 3) \in Nat \ {0}
        BY <2>1 DEF SelectionSpec, OrDefault, Nil
      <4>2. number = OrDefault(spec.TopN, 3)
            \/ (total < OrDefault(spec.TopN, 3) /\ number = total)
        BY <3>1, <3>2, <4>1 DEF Quota
      <4> QED BY <2>4, <3>1, <3>2, <4>2 DEF KeepsTheRightNumber, OrDefault
    <3>3. CASE spec.Mode = "percentage"
      <4>1. PICK pct \in 1..100 : pct = OrDefault(spec.Percentage, defaultPercentage)
        BY <2>1 DEF SelectionSpec, OrDefault, Nil, defaultPercentage
      <4>2. PICK n \in 0..total : /\ n = (total * pct) \div 100
                                  /\ 100 * n <= total * pct /\ total * pct < 100 * (n + 1)
                                  /\ total * pct \in Nat
        BY <3>1, ShareBounds
      <4>3. number = IF n < 1 THEN 1 ELSE n
        BY <3>1, <3>3, <4>1, <4>2 DEF Quota
      <4>4. \/ number > 0 /\ number * 100 <= total * pct /\ total * pct < (number + 1) * 100
            \/ total * pct < 100 /\ number = 1
        <5>1. PICK x \in Nat : x = total * pct
          BY <4>2
        <5>2. \/ number > 0 /\ number * 100 <= x /\ x < (number + 1) * 100
              \/ x < 100 /\ number = 1
          BY <3>1, <4>2, <4>3, <5>1
        <5> QED BY <5>1, <5>2
      <4> QED BY <2>4, <3>1, <3>3, <4>1, <4>4
          DEF KeepsTheRightNumber, OrDefault, defaultPercentage
    <3> QED BY <2>1, <2>7, <3>2, <3>3 DEF SelectionSpec, SelectionMode
  <2> QED BY <2>5, <2>6, <2>7
<1> QED BY <1>1, Invariant, PTL

\* A selected pod that gets faster while the others stay as they were is selected
\* again by the next evaluation.
THEOREM ImprovingKeepsThePlace == Spec => ImprovedPodStays
<1> DEFINE Improves(ip) == /\ DOMAIN P99' = DOMAIN P99
                           /\ P99'[ip] < P99[ip]
                           /\ \A other \in DOMAIN P99 \ {ip} : P99'[other] = P99[other]
<1>1. ASSUME IInv, IInv', Next, NEW ip \in Members(selected), Improves(ip)
      PROVE  ip \in Members(selected')
  <2>1. /\ spec \in SelectionSpec /\ Measured(P99) /\ ranked \in RankPods(P99)
        /\ selected = selectPods(spec, ranked, P99)
    BY <1>1, ChosenMeasured DEF IInv, Chosen
  <2>2. Measured(P99')
    BY <1>1, EvaluationAssumption, FS_Subset DEF IInv, Chosen, Measured
  <2>3. ranked' \in RankPods(P99') /\ selected' = selectPods(spec, ranked', P99')
    BY <1>1 DEF Next, Evaluate
  <2> QED BY <1>1, <2>1, <2>2, <2>3, ImprovedStaysSelected
<1>2. IInv /\ IInv' /\ [Next]_vars =>
         [\A ip \in Members(selected) : Improves(ip) => ip \in Members(selected')]_vars
  BY <1>1
<1> QED BY <1>2, Invariant, PTL DEF Spec, ImprovedPodStays

\* DampeningState counts consecutive selections that differ enough from the one that
\* was really applied, and never as many as it takes to apply one.
THEOREM CounterCountsPersistence == Spec => []CounterIsPersistence
<1>1. ASSUME IInv PROVE CounterIsPersistence
  <2>1. d.violationCount = PersistentFor
    BY <1>1, TailCounted DEF IInv
  <2>2. d.violationCount <= Len(run) /\ Len(run) <= Needed
    BY <1>1 DEF IInv, Remembered, DifferingTail
  <2>3. d.violationCount \in Nat /\ Len(run) \in Nat /\ Needed \in Nat
    BY <1>1, Settings DEF IInv, Remembered
  <2>4. d.violationCount <= Needed
    BY <2>2, <2>3
  <2> QED BY <1>1, <2>1, <2>4 DEF IInv, Remembered, CounterIsPersistence
<1> QED BY <1>1, Invariant, PTL

\* ShouldUpdate replaces a selection only after ConsecutiveIntervals evaluations in a
\* row that each differed enough from it.
THEOREM ReplacedAfterPersistence == Spec => ReplacedOnlyAfterPersistence
<1> DEFINE Persisted == /\ applied' = Members(selected') /\ Differs(applied')
                        /\ Len(run) = Needed
                        /\ \A i \in DOMAIN run : Differs(run[i])
<1>1. ASSUME IInv, Next, applied' # applied, applied # {}
      PROVE  Persisted
  <2> DEFINE new == Members(selected')
  <2>1. d.previousSelected = applied /\ d.violationCount \in Nat
    BY <1>1 DEF IInv, Remembered
  <2>2. /\ applied' = new /\ Differs(new)
        /\ d.violationCount + 1 >= dampening.ConsecutiveIntervals
    BY <1>1, <2>1, Settings DEF Next, Evaluate, ShouldUpdate, Differs
  <2>3. d.violationCount <= Len(run) /\ Len(run) <= Needed /\ Len(run) \in Nat
    BY <1>1 DEF IInv, Remembered, DifferingTail
  <2>4. d.violationCount = Len(run) /\ Len(run) = Needed
    BY <2>1, <2>2, <2>3, Settings
  <2>5. \A i \in DOMAIN run : i > Len(run) - d.violationCount
    BY <1>1, <2>3, <2>4 DEF IInv, Remembered
  <2>6. \A i \in DOMAIN run : Differs(run[i])
    BY <1>1, <2>5 DEF IInv, DifferingTail
  <2> QED BY <2>2, <2>4, <2>6
<1>2. IInv /\ [Next]_vars => [applied' # applied /\ applied # {} => Persisted]_vars
  BY <1>1
<1> QED BY <1>2, Invariant, PTL DEF Spec, ReplacedOnlyAfterPersistence

=============================================================================
