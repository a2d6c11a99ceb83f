----------------------------- MODULE LatencySource -----------------------------
(***************************************************************************)
(* What the interface latency.Source promises the controller, whichever    *)
(* implementation was chosen: one call at a time asks for some pod IPs and *)
(* ends with an error and no readings, or with readings of pods that were  *)
(* asked for.  A call for no IP in particular may return any.              *)
(***************************************************************************)
CONSTANTS PodIP          \* pod IPs there may be

VARIABLES call,          \* the running GetLatencies: [pc, podIPs]
          outcome        \* what the last call returned: [err, stats]

vars == <<call, outcome>>

Nothing == [ip \in {} |-> 0]
NoCall == [pc |-> "none", podIPs |-> {}]
NoOutcome == [err |-> FALSE, stats |-> Nothing]

Init == call = NoCall /\ outcome = NoOutcome

Ask(podIPs) ==
    /\ call.pc = "none"
    /\ call' = [pc |-> "asked", podIPs |-> podIPs]
    /\ outcome' = NoOutcome

\* The IPs that a call for podIPs may return.
Within(podIPs) == IF podIPs = {} THEN PodIP ELSE podIPs

Answer ==
    /\ call.pc = "asked"
    /\ call' = NoCall
    /\ DOMAIN outcome'.stats \subseteq Within(call.podIPs)
    /\ outcome'.err => DOMAIN outcome'.stats = {}

Next == Answer \/ \E podIPs \in SUBSET PodIP : Ask(podIPs)

Spec == Init /\ [][Next]_vars

=============================================================================
