-------------------------------- MODULE Feedback --------------------------------
(***************************************************************************)
(* The loop that the eBPF source closes: the endpoint slice decides which  *)
(* pods get traffic, traffic is what the agents measure, and the           *)
(* measurements decide, through the circuit breaker, what the slice holds. *)
(*                                                                         *)
(* One policy with a circuit breaker and without dampening, whose slice is *)
(* the only one of its Service: the default slice is disabled, and nobody  *)
(* but the clients of the Service talks to the pods.  The agents' event    *)
(* path is taken to deliver the RTTs as they are.                          *)
(***************************************************************************)
EXTENDS Aggregator, Breaker, Collector

CONSTANTS PodIP, Latency,
          cfg,             \* the breaker's Config
          selection,       \* the policy's selection settings
          maxSamples       \* the cap of RecordEvent

VARIABLES
    rtt,         \* what a request to the pod takes at present
    samples,     \* Collector.samples
    pods,        \* the breaker's pod states
    slice        \* the endpoints of the policy's slice

vars == <<rtt, samples, pods, slice>>

\* Every pod has been measured before, and the breaker trusts them all.
Init == /\ rtt \in [PodIP -> Latency]
        /\ samples = [ip \in PodIP |-> <<rtt[ip]>>]
        /\ pods = [ip \in PodIP |-> Untracked]
        /\ slice = PodIP

\* A pod becomes slower or faster.
Change == /\ \E ip \in PodIP, v \in Latency : rtt' = [rtt EXCEPT ![ip] = v]
          /\ UNCHANGED <<samples, pods, slice>>

\* A request to a pod of the slice is measured and recorded.
Traffic(ip) ==
    /\ ip \in slice
    /\ samples' = [samples EXCEPT ![ip] = RecordSample(@, rtt[ip], maxSamples)]
    /\ UNCHANGED <<rtt, pods, slice>>

\* Reconcile, steps 7 to 13: every pod with samples has a reading.
Evaluate ==
    LET P99 == [ip \in {i \in PodIP : samples[i] # <<>>} |-> Stats(samples[ip]).P99]
    IN  /\ pods' = AfterEvaluation(pods, cfg, P99)
        /\ \E r \in RankPods(P99) :
              LET kept == selectPods(selection, Healthy(pods', r), P99)
              IN  slice' = {kept[i] : i \in DOMAIN kept}
        /\ UNCHANGED <<rtt, samples>>

Tick == /\ pods' = [ip \in PodIP |-> AfterTick(pods[ip], cfg)]
        /\ UNCHANGED <<rtt, samples, slice>>

Next == Change \/ Evaluate \/ Tick \/ \E ip \in PodIP : Traffic(ip)

Spec == Init /\ [][Next]_vars

\* Evaluations are repeated, time passes, and a pod that is in the slice again and
\* again gets requests again and again.
FairSpec == /\ Spec /\ WF_vars(Evaluate) /\ WF_vars(Tick)
            /\ \A ip \in PodIP : SF_vars(Traffic(ip))

-----------------------------------------------------------------------------
\* README.md, circuit breaker: "Re-admit after recovery."  A pod that is fast from
\* some point on ends up in the slice, if the policy selects every healthy pod.
ReadmittedAfterRecovery ==
    \A ip \in PodIP :
        <>[](rtt[ip] <= cfg.P99Threshold) => <>[](ip \in slice)

=============================================================================
