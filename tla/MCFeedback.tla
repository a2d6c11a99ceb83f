------------------------------ MODULE MCFeedback ------------------------------
(* Two pods, a policy that takes every healthy pod, a breaker that one slow     *)
(* reading trips and one tick of rest, and a collector that keeps two samples.  *)
EXTENDS Feedback

CONSTANTS p1, p2

const_PodIP == {p1, p2}
const_Latency == {1, 3}
const_cfg == [P99Threshold |-> 2, ConsecutiveViolations |-> 1, RecoveryInterval |-> 1]
const_selection == [Mode |-> "topN", TopN |-> 2, Percentage |-> Nil, LatencyThreshold |-> 2]
=============================================================================
