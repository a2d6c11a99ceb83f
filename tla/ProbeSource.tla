------------------------------ MODULE ProbeSource ------------------------------
(***************************************************************************)
(* latency.ProbeSource: one GetLatencies call at a time probes every pod   *)
(* in a goroutine of its own; a closer waits for all of them and closes    *)
(* the channel over which the loop of the call ranges.                     *)
(***************************************************************************)
EXTENDS Ordering

CONSTANTS PodIP,         \* pod IPs the controller may ask for
          Latency,       \* what a probe that is answered in time may take
          unreachableLatency

VARIABLES
    call, outcome,       \* as in LatencySource
    samples,             \* per probing goroutine, by its pod: the samples so far
    results,             \* the buffered channel of results
    pending,             \* the counter of the WaitGroup
    closed,              \* is the channel closed?
    stats,               \* the map the loop fills
    probed               \* history: the samples of every pod whose goroutine ended

goroutines == <<samples, results, pending, closed, stats, probed>>
vars == <<call, outcome, goroutines>>

Nothing == [ip \in {} |-> 0]
NoCall == [pc |-> "none", podIPs |-> {}]
NoOutcome == [err |-> FALSE, stats |-> Nothing]

probeSamplesPerRound == 3

Init == /\ call = NoCall /\ outcome = NoOutcome
        /\ samples = Nothing /\ results = <<>> /\ pending = 0 /\ closed = FALSE
        /\ stats = Nothing /\ probed = Nothing

\* GetLatencies up to the loop: a goroutine per pod.
Begin(podIPs) ==
    /\ call.pc = "none"
    /\ call' = [pc |-> "asked", podIPs |-> podIPs]
    /\ outcome' = NoOutcome
    /\ samples' = [ip \in podIPs |-> <<>>]
    /\ results' = <<>> /\ pending' = Cardinality(podIPs) /\ closed' = FALSE
    /\ stats' = Nothing /\ probed' = Nothing

\* One turn of the loop of probePod: a probe that fails, is refused or takes longer
\* than the timeout counts as unreachableLatency.
Probe(ip) ==
    /\ ip \in DOMAIN samples /\ Len(samples[ip]) < probeSamplesPerRound
    /\ \E taken \in Latency \cup {unreachableLatency} :
          samples' = [samples EXCEPT ![ip] = Append(@, taken)]
    /\ UNCHANGED <<call, outcome, results, pending, closed, stats, probed>>

\* Mutant: the index is rounded to the rank below.
MutantPercentile(s, pct) ==
    Smallest(s, (pct * (Len(s) - 1)) \div 100)

\* sortDurations and percentile: the index counts from 0.
percentile(s, pct) ==
    LET idx == (pct * Len(s)) \div 100
    IN  Smallest(s, IF idx >= Len(s) THEN Len(s) - 1 ELSE idx)

\* The end of probePod and of its goroutine: the result is sent, then the
\* WaitGroup told.  The channel has room for every result.
Finish(ip) ==
    /\ ip \in DOMAIN samples /\ Len(samples[ip]) = probeSamplesPerRound
    /\ results' = Append(results, [ip |-> ip, stat |->
                     [P50 |-> percentile(samples[ip], 50),
                      P99 |-> percentile(samples[ip], 99),
                      SampleCount |-> Len(samples[ip])]])
    /\ pending' = pending - 1
    /\ probed' = [x \in DOMAIN probed \cup {ip} |->
                    IF x = ip THEN samples[ip] ELSE probed[x]]
    /\ samples' = [x \in DOMAIN samples \ {ip} |-> samples[x]]
    /\ UNCHANGED <<call, outcome, closed, stats>>

\* Mutant: the channel is closed as soon as one goroutine is done.
MutantCloseEarly ==
    /\ call.podIPs # {} /\ pending < Cardinality(call.podIPs) /\ ~closed
    /\ closed' = TRUE
    /\ UNCHANGED <<call, outcome, samples, results, pending, stats, probed>>

\* The closer: wg.Wait, then close.
Close ==
    /\ call.podIPs # {} /\ pending = 0 /\ ~closed
    /\ closed' = TRUE
    /\ UNCHANGED <<call, outcome, samples, results, pending, stats, probed>>

\* One turn of the loop over the results.
Take ==
    /\ results # <<>>
    /\ LET r == Head(results)
       IN  stats' = [ip \in DOMAIN stats \cup {r.ip} |->
                       IF ip = r.ip THEN r.stat ELSE stats[ip]]
    /\ results' = Tail(results)
    /\ UNCHANGED <<call, outcome, samples, pending, closed, probed>>

\* The end of GetLatencies: at once if no pod was asked for, else when the channel is
\* closed and drained.  It never fails.
Return ==
    /\ call.pc = "asked"
    /\ call.podIPs = {} \/ (closed /\ results = <<>>)
    /\ outcome' = [err |-> FALSE, stats |-> stats]
    /\ call' = NoCall /\ closed' = FALSE
    /\ UNCHANGED <<samples, results, pending, stats, probed>>

GetLatencies == \/ \E podIPs \in SUBSET PodIP : Begin(podIPs)
                \/ \E ip \in PodIP : Probe(ip) \/ Finish(ip)
                \/ Close \/ Take \/ Return

Next == GetLatencies

-----------------------------------------------------------------------------
\* A step that ends the call returns a reading of every pod, with all three probes.
AnswersAll ==
    call.pc = "asked" /\ call'.pc = "none" =>
        /\ DOMAIN outcome'.stats = call.podIPs
        /\ \A ip \in call.podIPs : outcome'.stats[ip].SampleCount = probeSamplesPerRound

Failed(s) == \E i \in DOMAIN s : s[i] = unreachableLatency

\* A pod that missed one of its probes looks slower, in the P99 that is ranked and
\* recorded, than every pod that answered all of them, however slow those are.
FailedProbeRanksLast ==
    \A bad, good \in DOMAIN stats :
        Failed(probed[bad]) /\ ~Failed(probed[good]) => stats[bad].P99 > stats[good].P99

=============================================================================
