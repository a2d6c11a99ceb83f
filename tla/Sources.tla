-------------------------------- MODULE Sources --------------------------------
(***************************************************************************)
(* The latency source as cmd/main.go chooses it once, by --latency-source, *)
(* and hands it to the reconciler: either implementation behind the one    *)
(* interface.                                                              *)
(***************************************************************************)
EXTENDS Integers, FiniteSets

CONSTANTS PodIP, Agent, Reading, Latency, unreachableLatency

ASSUME SourcesAssumption ==
    /\ IsFiniteSet(Agent) /\ IsFiniteSet(PodIP)
    /\ \A r \in Reading : r.P99 \in Nat /\ r.SampleCount \in Nat \ {0}
    /\ Latency \subseteq Nat /\ unreachableLatency \in Nat
    /\ \A l \in Latency : l < unreachableLatency     \* the timeout is shorter

VARIABLES latencySourceType,                            \* the flag
          call, outcome,                                \* the call of the reconciler
          agentEndpoints, reports, down,                \* EBPFSource and its agents
          endpoints, asked, ebpfResults, received, aggregated, lastErr, answers,
          samples, results, pending, closed, stats, probed            \* ProbeSource

ebpfVars == <<agentEndpoints, reports, down, endpoints, asked, ebpfResults, received,
              aggregated, lastErr, answers>>
probeVars == <<samples, results, pending, closed, stats, probed>>
vars == <<latencySourceType, call, outcome, ebpfVars, probeVars>>

Ebpf == INSTANCE EBPFSource WITH results <- ebpfResults
Prober == INSTANCE ProbeSource

\* The two known values of the flag; any other ends the process.  What agents report
\* matters to one of them only.
Init == /\ latencySourceType \in {"ebpf", "probe"}
        /\ Ebpf!Init /\ Prober!Init
        /\ latencySourceType = "probe" => \A a \in Agent : DOMAIN reports[a] = {}

\* A step of the source that was chosen.
ByEbpf(step) == latencySourceType = "ebpf" /\ step /\ UNCHANGED <<latencySourceType, probeVars>>
ByProber(step) == latencySourceType = "probe" /\ step /\ UNCHANGED <<latencySourceType, ebpfVars>>

Next == ByEbpf(Ebpf!Next) \/ ByProber(Prober!Next)

Spec == Init /\ [][Next]_vars

\* Every goroutine ends (both HTTP clients have a timeout), and the loops go on.
Fairness == /\ WF_vars(ByEbpf(Ebpf!Take)) /\ WF_vars(ByEbpf(Ebpf!Return))
            /\ \A a \in Agent : WF_vars(ByEbpf(Ebpf!Fetch(a)))
            /\ WF_vars(ByProber(Prober!Take)) /\ WF_vars(ByProber(Prober!Return))
            /\ WF_vars(ByProber(Prober!Close))
            /\ \A ip \in PodIP : WF_vars(ByProber(Prober!Probe(ip) \/ Prober!Finish(ip)))

FairSpec == Spec /\ Fairness

\* The program as main wires it by default: the eBPF source, and nobody to call
\* UpdateAgentEndpoints.  The reconciler asks again and again.
WiredInit == Init /\ latencySourceType = "ebpf"
WiredNext == ByEbpf(Ebpf!GetLatencies \/ Ebpf!Agents)
WiredSpec == /\ WiredInit /\ [][WiredNext]_vars /\ Fairness
             /\ WF_vars(ByEbpf(Ebpf!Begin(PodIP)))

-----------------------------------------------------------------------------
Promise == INSTANCE LatencySource

\* Whichever source is chosen keeps the promise of the interface: a call returns
\* readings of pods it was asked for, or an error and nothing.
KeepsThePromise == Promise!Spec

\* The merged reading of a pod is one that some agent gave in this call, and no
\* answer of this call rests on more samples, whatever order they came in.
BestReadingKept == Ebpf!BestReadingKept

\* A call that ends hands on every pod some agent answered for: an agent that
\* fails hides its own pods and no others.
FailureStaysLocal == Ebpf!FailureStaysLocal

\* A call of the probe source returns a reading of every pod it was asked for, with
\* all three probes in it: the loop does not end before the last goroutine.
EveryPodAnswered == [][latencySourceType = "probe" => Prober!AnswersAll]_vars

\* A pod that missed a probe ranks behind every pod that answered all of its own.
FailedProbeRanksLast == Prober!FailedProbeRanksLast

\* Every call returns, although agents and pods fail, and although the list of agents
\* may be replaced by a longer or a shorter one while the loop waits for its results.
CallReturns == call.pc = "asked" ~> call.pc = "none"

\* README.md, what the controller does: "Reads latency from eBPF agents".  While every
\* agent answers and one has a reading, the reconciler gets a reading in the end.
AgentsAreRead ==
    [](down = {} /\ \E a \in Agent : DOMAIN reports[a] # {}) =>
        <>(DOMAIN outcome.stats # {})

=============================================================================
