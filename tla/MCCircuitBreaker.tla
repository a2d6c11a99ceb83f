--------------------------- MODULE MCCircuitBreaker ---------------------------
(* Two pods, readings below, at and above the threshold, three violations to *)
(* an ejection and a recovery interval of two ticks.                         *)
EXTENDS CircuitBreaker

CONSTANTS p1, p2

const_PodIP == {p1, p2}
const_Latency == {1, 2, 3}
const_cfg == [P99Threshold |-> 2, ConsecutiveViolations |-> 3,
              RecoveryInterval |-> 2]
=============================================================================
