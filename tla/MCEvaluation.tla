----------------------------- MODULE MCEvaluation -----------------------------
(* Three pods, every mode with its default, its smallest value and a value in  *)
(* the middle, a dampening threshold that one new pod in two passes and one in *)
(* three does not, and three intervals.                                        *)
EXTENDS Evaluation

CONSTANTS p1, p2, p3

const_PodIP == {p1, p2, p3}
const_Latency == {1, 2, 4}
Setting(mode, n, pct, thr) ==
    [Mode |-> mode, TopN |-> n, Percentage |-> pct, LatencyThreshold |-> thr]
const_Specs ==
    {Setting("topN", n, Nil, 2) : n \in {Nil, 1, 2}}
    \cup {Setting("percentage", Nil, pct, 2) : pct \in {Nil, 1, 67, 100}}
    \cup {Setting("threshold", Nil, Nil, thr) : thr \in {0, 2}}
const_dampening == [Enabled |-> TRUE, ThresholdPercent |-> 34, ConsecutiveIntervals |-> 3]

\* The fleet P99 of the status, over fleets of fast and slow pods: fewer than one
\* pod in a hundred is slower than it and at least one in a hundred is as slow, also
\* past 100 and 200 pods, where the rank that ComputeFleetP99 reads moves.
ASSUME FleetP99IsThePercentile ==
    \A size \in 1..203 : \A slow \in 0..size :
        LET column  == [i \in 1..size |-> IF i <= slow THEN 9 ELSE 1]
            p99     == ComputeFleetP99(column)
            above   == IF p99 = 9 THEN 0 ELSE slow
            atLeast == IF p99 = 9 THEN slow ELSE size
        IN  above * 100 < size /\ atLeast * 100 >= size
=============================================================================
