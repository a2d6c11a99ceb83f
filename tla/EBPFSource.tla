------------------------------ MODULE EBPFSource ------------------------------
(***************************************************************************)
(* latency.EBPFSource: one GetLatencies call at a time asks every agent in *)
(* a goroutine of its own and merges the answers in the order in which     *)
(* they arrive, while UpdateAgentEndpoints may replace the list of agents. *)
(*                                                                         *)
(* An answer is a function from pod IPs to [P99, SampleCount]; an agent    *)
(* that is down, slow (3 s timeout) or returns anything but a well-formed  *)
(* 200 is a failure.                                                       *)
(***************************************************************************)
EXTENDS Integers, FiniteSets, Sequences

CONSTANTS Agent,         \* agent addresses
          PodIP,         \* pod IPs agents may report
          Reading        \* what an agent may report of a pod

VARIABLES
    agentEndpoints,      \* EBPFSource.agentEndpoints
    reports,             \* what each agent serves at /latencies
    down,                \* the agents that do not answer
    call, outcome,       \* as in LatencySource
    endpoints,           \* the copy of agentEndpoints that the call made
    asked,               \* agents whose goroutine has not sent its result yet
    results,             \* the buffered channel of results
    received,            \* how many results the loop has taken
    aggregated, lastErr, \* the loop's variables
    answers              \* history: the answers received in this call

loop == <<endpoints, asked, results, received, aggregated, lastErr, answers>>
vars == <<call, outcome, agentEndpoints, reports, down, loop>>

Nothing == [ip \in {} |-> 0]
NoCall == [pc |-> "none", podIPs |-> {}]
NoOutcome == [err |-> FALSE, stats |-> Nothing]
Reports == UNION {[ips -> Reading] : ips \in SUBSET PodIP}

Init == /\ agentEndpoints = {}
        /\ reports \in [Agent -> Reports] /\ down = {}
        /\ call = NoCall /\ outcome = NoOutcome
        /\ endpoints = {} /\ asked = {} /\ results = <<>> /\ received = 0
        /\ aggregated = Nothing /\ lastErr = FALSE /\ answers = {}

UpdateAgentEndpoints ==
    /\ agentEndpoints' \in SUBSET Agent
    /\ UNCHANGED <<call, outcome, reports, down, loop>>

\* An agent stops answering, or answers again.
ToggleAgent(a) ==
    /\ down' = IF a \in down THEN down \ {a} ELSE down \cup {a}
    /\ UNCHANGED <<call, outcome, agentEndpoints, reports, loop>>

\* GetLatencies up to the loop: a copy of the list and a goroutine per member.
Begin(podIPs) ==
    /\ call.pc = "none"
    /\ call' = [pc |-> "asked", podIPs |-> podIPs]
    /\ outcome' = NoOutcome
    /\ endpoints' = agentEndpoints
    /\ asked' = agentEndpoints /\ results' = <<>> /\ received' = 0
    /\ aggregated' = Nothing /\ lastErr' = FALSE /\ answers' = {}
    /\ UNCHANGED <<agentEndpoints, reports, down>>

\* Mutant: the answer is not filtered.
MutantUnfiltered(a, podIPs) ==
    [err |-> a \in down, stats |-> IF a \in down THEN Nothing ELSE reports[a]]

\* fetchFromAgent: keep the requested IPs, or all of them if none was requested.
fetchFromAgent(a, podIPs) ==
    LET kept == IF podIPs = {} THEN DOMAIN reports[a] ELSE DOMAIN reports[a] \cap podIPs
    IN  [err |-> a \in down,
         stats |-> IF a \in down THEN Nothing ELSE [ip \in kept |-> reports[a][ip]]]

\* A goroutine ends: its send never blocks, the channel holds every result.
Fetch(a) ==
    /\ a \in asked
    /\ asked' = asked \ {a}
    /\ results' = Append(results, fetchFromAgent(a, call.podIPs))
    /\ UNCHANGED <<agentEndpoints, reports, down, call, outcome, endpoints, received,
                   aggregated, lastErr, answers>>

\* Mutant: a later answer always wins.
MutantLastWins(agg, stats) ==
    [ip \in DOMAIN agg \cup DOMAIN stats |->
        IF ip \in DOMAIN stats THEN stats[ip] ELSE agg[ip]]

\* The reading with more samples wins; the earlier one if they have as many.
Merge(agg, stats) ==
    [ip \in DOMAIN agg \cup DOMAIN stats |->
        IF ip \notin DOMAIN agg THEN stats[ip]
        ELSE IF ip \in DOMAIN stats /\ stats[ip].SampleCount > agg[ip].SampleCount
             THEN stats[ip] ELSE agg[ip]]

\* One turn of the loop over the endpoints.
Take ==
    /\ results # <<>>
    /\ LET r == Head(results)
       IN  /\ aggregated' = IF r.err THEN aggregated ELSE Merge(aggregated, r.stats)
           /\ lastErr' = (lastErr \/ r.err)
           /\ answers' = IF r.err THEN answers ELSE answers \cup {r.stats}
    /\ results' = Tail(results) /\ received' = received + 1
    /\ UNCHANGED <<agentEndpoints, reports, down, call, outcome, endpoints, asked>>

\* Mutant: any failure fails the call.
MutantAnyFailure(agg, failed) ==
    IF endpoints = {} \/ failed THEN [err |-> TRUE, stats |-> Nothing]
    ELSE [err |-> FALSE, stats |-> agg]

\* The call fails when it knows of no agent, or when nothing was collected and some
\* agent failed.
Verdict(agg, failed) ==
    IF endpoints = {} \/ (DOMAIN agg = {} /\ failed)
    THEN [err |-> TRUE, stats |-> Nothing] ELSE [err |-> FALSE, stats |-> agg]

\* Mutant: the loop runs over the present list instead of its copy.
MutantLiveList == received = Cardinality(agentEndpoints)

AllReceived == received = Cardinality(endpoints)

\* The end of GetLatencies; the variables of the call are gone.
Return ==
    /\ call.pc = "asked" /\ AllReceived
    /\ outcome' = Verdict(aggregated, lastErr)
    /\ call' = NoCall /\ endpoints' = {} /\ received' = 0
    /\ aggregated' = Nothing /\ lastErr' = FALSE /\ answers' = {}
    /\ UNCHANGED <<agentEndpoints, reports, down, asked, results>>

GetLatencies == \/ \E podIPs \in SUBSET PodIP : Begin(podIPs)
                \/ \E a \in Agent : Fetch(a)
                \/ Take \/ Return

Agents == \E a \in Agent : ToggleAgent(a)

Next == GetLatencies \/ Agents \/ UpdateAgentEndpoints

-----------------------------------------------------------------------------
\* The merged reading of a pod is one that some agent gave in this call, and no
\* answer of this call rests on more samples, whatever order they came in.
BestReadingKept ==
    call.pc = "asked" =>
        /\ DOMAIN aggregated = UNION {DOMAIN s : s \in answers}
        /\ \A ip \in DOMAIN aggregated :
              /\ \E s \in answers : ip \in DOMAIN s /\ s[ip] = aggregated[ip]
              /\ \A s \in answers : ip \in DOMAIN s =>
                    s[ip].SampleCount <= aggregated[ip].SampleCount

\* A call that ends hands on every pod some agent answered for: an agent that
\* fails hides its own pods and no others.
FailureStaysLocal ==
    [][call.pc = "asked" /\ call'.pc = "none" =>
          (UNION {DOMAIN s : s \in answers} # {} =>
              ~outcome'.err /\ DOMAIN outcome'.stats = UNION {DOMAIN s : s \in answers})]_vars

=============================================================================
