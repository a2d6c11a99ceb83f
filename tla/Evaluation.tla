------------------------------- MODULE Evaluation -------------------------------
(***************************************************************************)
(* Successive evaluations of one policy without circuit breaker: the       *)
(* source measures some of the pods, RankPods orders them, selectPods      *)
(* keeps some and the dampener lets the selection through or holds it      *)
(* back.                                                                   *)
(*                                                                         *)
(* applied and run are history variables: applied is the selection of the  *)
(* last evaluation that was let through, which the endpoint slice should   *)
(* show, and run the selections held back since then, latest last.         *)
(***************************************************************************)
EXTENDS Aggregator, Dampening

CONSTANTS PodIP, Latency,
          Specs,            \* selection settings of a policy
          dampening         \* its dampening settings

ASSUME EvaluationAssumption ==
    /\ IsFiniteSet(PodIP) /\ Latency \subseteq Nat /\ Specs \subseteq SelectionSpec
    /\ dampening \in DampeningSpec

VARIABLES spec,         \* the policy's selection settings
          P99,          \* the measured pods and their P99
          ranked,       \* RankPods of the measurements
          selected,     \* what selectPods kept
          d,            \* the DampeningState
          applied,      \* the last selection that was let through
          run           \* the last selections held back, as many as one more may need

vars == <<spec, P99, ranked, selected, d, applied, run>>

Init == /\ spec \in Specs
        /\ P99 = <<>> /\ ranked = <<>> /\ selected = <<>>
        /\ d = NewDampeningState /\ applied = {} /\ run = <<>>

\* How many evaluations must have differed before one that is let through.
Needed == dampening.ConsecutiveIntervals - 1

\* The last n members of s.
LastOf(s, n) == IF Len(s) <= n THEN s ELSE SubSeq(s, Len(s) - n + 1, Len(s))

\* Steps 7, 8, 10 and 11 of Reconcile, with whatever was measured by then.
Evaluate ==
    /\ \E measured \in SUBSET PodIP : P99' \in [measured -> Latency]
    /\ ranked' \in RankPods(P99')
    /\ selected' = selectPods(spec, ranked', P99')
    /\ LET new    == Members(selected')
           answer == ShouldUpdate(d, new, dampening)
       IN  /\ d' = answer.state
           /\ applied' = IF answer.update THEN new ELSE applied
           /\ run' = IF answer.update THEN <<>> ELSE LastOf(Append(run, new), Needed)
    /\ UNCHANGED spec

Next == Evaluate

Spec == Init /\ [][Next]_vars

-----------------------------------------------------------------------------
\* No pod is left out in favour of one that is strictly slower, whatever the
\* mode: SelectByThreshold falls back to a fastest pod too.
NoFasterPodLeftOut ==
    \A kept \in Members(selected), out \in DOMAIN P99 \ Members(selected) :
        P99[kept] <= P99[out]

\* How many pods each mode keeps, stated on the set of measurements: the cap of
\* topN (3 when not set), the rounded-down share of percentage (half when not
\* set), the pods within the threshold, and never none of a non-empty set.
KeepsTheRightNumber ==
    LET total    == Cardinality(DOMAIN P99)
        within   == Cardinality({ip \in DOMAIN P99 : P99[ip] <= spec.LatencyThreshold})
        topN     == IF spec.TopN = Nil THEN 3 ELSE spec.TopN
        pct      == IF spec.Percentage = Nil THEN 50 ELSE spec.Percentage
        number   == Len(selected)
        atLeastOne(n) == number = n \/ (n = 0 /\ number = 1)
    IN  IF total = 0 THEN number = 0
        ELSE CASE spec.Mode = "topN" ->
                      number = topN \/ (total < topN /\ number = total)
               [] spec.Mode = "percentage" ->
                      \/ /\ number > 0 /\ number * 100 <= total * pct
                         /\ total * pct < (number + 1) * 100
                      \/ total * pct < 100 /\ number = 1
               [] spec.Mode = "threshold" -> atLeastOne(within)

\* A selected pod that gets faster while the others stay as they were is
\* selected again: improving never costs a pod its place, though pods with
\* equal P99 may swap places between two evaluations.
ImprovedPodStays ==
    [][\A ip \in Members(selected) :
          /\ DOMAIN P99' = DOMAIN P99
          /\ P99'[ip] < P99[ip]
          /\ \A other \in DOMAIN P99 \ {ip} : P99'[other] = P99[other]
          => ip \in Members(selected')]_vars

Differs(new) == ChangedEnough(applied, new, dampening.ThresholdPercent)

\* The trailing selections held back that differ enough from what is applied.
PersistentFor == Cardinality({i \in DOMAIN run : \A j \in i..Len(run) : Differs(run[j])})

\* The counter is the number of consecutive latest selections that each differ
\* enough from the applied one, it is short of the required number, and the
\* dampener compares with the selection that was really let through.
CounterIsPersistence ==
    /\ d.previousSelected = applied
    /\ d.violationCount = PersistentFor
    /\ d.violationCount <= Needed

\* A non-empty applied selection is replaced only when the new selection and the
\* ConsecutiveIntervals - 1 before it each differed enough from it, so a spike
\* shorter than that never moves an endpoint.
ReplacedOnlyAfterPersistence ==
    [][applied' # applied /\ applied # {} =>
          /\ applied' = Members(selected') /\ Differs(applied')
          /\ Len(run) = Needed
          /\ \A i \in DOMAIN run : Differs(run[i])]_vars

=============================================================================
