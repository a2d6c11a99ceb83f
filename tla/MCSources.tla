------------------------------- MODULE MCSources -------------------------------
(* Two agents and two pods, with agent readings of equal and of different      *)
(* weight, and probes that are fast, slow or missed.                           *)
EXTENDS Sources

CONSTANTS a1, a2, p1, p2

const_Agent == {a1, a2}
const_PodIP == {p1, p2}
const_Reading == {[P99 |-> 1, SampleCount |-> 1], [P99 |-> 2, SampleCount |-> 2]}
const_Latency == {1, 2}
=============================================================================
