----------------------------- MODULE MCReconciler -----------------------------
(***************************************************************************)
(* Small instances of the controller.  The .cfg files choose among them.   *)
(***************************************************************************)
EXTENDS Reconciler

CONSTANTS pol1, pol2, svc1, svc2, p1, p2

Selecting(n) == [Mode |-> "topN", TopN |-> n, Percentage |-> Nil, LatencyThreshold |-> 1]

\* One slow reading ejects and one tick is the recovery interval.
Breaking(on) == [Enabled |-> on,
                 cfg |-> [P99Threshold |-> 1, ConsecutiveViolations |-> 1,
                          RecoveryInterval |-> 1]]

\* Two intervals in a row with half of the pods new.
Damping(on) == [Enabled |-> on, ThresholdPercent |-> 50, ConsecutiveIntervals |-> 2]

PolicySpec(target, n, breaking, damping) ==
    [target |-> target, selection |-> Selecting(n),
     breaker |-> Breaking(breaking), dampening |-> Damping(damping)]

const_OneService == {svc1}
const_TwoServices == {svc1, svc2}
const_OnePolicy == {pol1}
const_TwoPolicies == {pol1, pol2}
const_OnePod == {p1}
const_TwoPods == {p1, p2}
const_AllAddressed == {PodIP}
const_NoneOrAllAddressed == {{}, PodIP}
const_BehindOne == [x \in Services |-> {p1}]
const_BehindTwo == [x \in Services |-> {p1, p2}]

const_OneLatency == {1}
const_TwoLatencies == {1, 2}

\* One Service; one pod of the first or both of the second; both pods, dampened.
const_PlainSpecs == {PolicySpec(svc1, 1, TRUE, FALSE)}
const_MovingSpecs == {PolicySpec(svc1, 1, TRUE, FALSE), PolicySpec(svc2, 2, TRUE, FALSE)}
const_DampedSpecs == {PolicySpec(svc1, 2, TRUE, TRUE)}
=============================================================================
