----------------------------- MODULE SourcesProofs -----------------------------
(***************************************************************************)
(* Both latency sources keep the promise of the interface and what they    *)
(* promise beyond it, for any agents, pods and readings.                   *)
(*                                                                         *)
(* The argument.  While a call runs, every result on the way and every     *)
(* answer merged is about pods that were asked for (Gathering), and a call *)
(* that has merged an answer has received one.  Of the probe source, every *)
(* pod asked for is in exactly one of three places: its goroutine still    *)
(* probes it, its result waits in the channel, or the map has it           *)
(* (Probing); the WaitGroup counts the first, so a closed channel means    *)
(* that nobody is left to send.                                            *)
(***************************************************************************)
EXTENDS Sources, OrderingProofs

-----------------------------------------------------------------------------
(* The inductive invariant.                                                *)

\* What an agent's answer to the present call may hold.
Answers == UNION {[ips -> Reading] : ips \in SUBSET Promise!Within(call.podIPs)}

\* The call as the interface sees it.
Asking ==
    /\ DOMAIN call = {"pc", "podIPs"} /\ call.pc \in {"none", "asked"}
    /\ call.podIPs \in SUBSET PodIP
    /\ call.pc = "none" => call = Promise!NoCall

\* The eBPF source while a call runs.
Gathering ==
    /\ reports \in [Agent -> Ebpf!Reports]
    /\ agentEndpoints \in SUBSET Agent
    /\ call.pc = "asked" =>
          /\ endpoints \in SUBSET Agent /\ asked \in SUBSET Agent
          /\ ebpfResults \in Seq([err : BOOLEAN, stats : Answers])
          /\ received \in Nat
          /\ answers \in SUBSET Answers /\ (received = 0 => answers = {})
          /\ aggregated \in Answers
          /\ BestReadingKept

\* What three probes of a pod say.
Round == {s \in Seq(Latency \cup {unreachableLatency}) : Len(s) = 3}

Stat == [P50 : Int, P99 : Int, SampleCount : Nat]

\* The statistics of a pod are those of its probes.
StatOf(stat, ip, given) ==
    /\ ip \in DOMAIN given
    /\ stat.P99 = Prober!percentile(given[ip], 99)
    /\ stat.SampleCount = 3

Waiting == {results[i].ip : i \in DOMAIN results}

\* The probe source: where the pods of the call are.
Probing ==
    /\ \A ip \in DOMAIN samples : samples[ip] \in Seq(Latency \cup {unreachableLatency})
    /\ IsFiniteSet(DOMAIN samples) /\ pending = Cardinality(DOMAIN samples)
    /\ closed \in BOOLEAN /\ (closed => pending = 0)
    /\ results \in Seq([ip : PodIP, stat : Stat])
    /\ \A i \in DOMAIN results : StatOf(results[i].stat, results[i].ip, probed)
    /\ \A ip \in DOMAIN stats : StatOf(stats[ip], ip, probed)
    /\ \A ip \in DOMAIN probed : probed[ip] \in Round /\ ip \notin DOMAIN samples
    /\ call.pc = "asked" => call.podIPs = DOMAIN samples \cup Waiting \cup DOMAIN stats
    /\ call.pc = "none" => DOMAIN samples = {} /\ results = <<>>

\* The source that was not chosen does nothing.
Unused ==
    /\ latencySourceType = "probe" =>
          /\ ebpfResults = <<>> /\ received = 0 /\ answers = {}
          /\ aggregated = Ebpf!Nothing /\ endpoints = {} /\ asked = {}
    /\ latencySourceType = "ebpf" => stats = Prober!Nothing

IInv == /\ latencySourceType \in {"ebpf", "probe"}
        /\ Asking /\ Gathering /\ Unused
        /\ latencySourceType = "probe" => Probing

-----------------------------------------------------------------------------
(* Merging answers.                                                        *)

\* agg is the best of the answers: BestReadingKept of a call that runs.
Best(agg, given) ==
    /\ DOMAIN agg = UNION {DOMAIN s : s \in given}
    /\ \A ip \in DOMAIN agg :
          /\ \E s \in given : ip \in DOMAIN s /\ s[ip] = agg[ip]
          /\ \A s \in given : ip \in DOMAIN s => s[ip].SampleCount <= agg[ip].SampleCount

\* A partial function on W, and one built from readings.
LEMMA PartialMap ==
    ASSUME NEW W, NEW f \in UNION {[ips -> Reading] : ips \in SUBSET W}
    PROVE  /\ DOMAIN f \in SUBSET W /\ f \in [DOMAIN f -> Reading]
           /\ \A ip \in DOMAIN f : /\ f[ip] \in Reading
                                   /\ f[ip].SampleCount \in Nat /\ f[ip].SampleCount > 0
<1>1. PICK ips \in SUBSET W : f \in [ips -> Reading]
  OBVIOUS
<1>2. DOMAIN f = ips /\ \A ip \in ips : f[ip] \in Reading
  BY <1>1
<1> QED BY <1>1, <1>2, SourcesAssumption

\* One more answer: the merged readings are the best of all answers so far.
LEMMA MergeKeepsBest ==
    ASSUME NEW W, NEW agg \in UNION {[ips -> Reading] : ips \in SUBSET W},
           NEW s \in UNION {[ips -> Reading] : ips \in SUBSET W},
           NEW given \in SUBSET UNION {[ips -> Reading] : ips \in SUBSET W},
           Best(agg, given)
    PROVE  /\ Ebpf!Merge(agg, s) \in UNION {[ips -> Reading] : ips \in SUBSET W}
           /\ Best(Ebpf!Merge(agg, s), given \cup {s})
<1> DEFINE D == DOMAIN agg \cup DOMAIN s
           f == Ebpf!Merge(agg, s)
<1>1. /\ DOMAIN agg \in SUBSET W /\ DOMAIN s \in SUBSET W
      /\ \A ip \in DOMAIN agg : agg[ip] \in Reading /\ agg[ip].SampleCount \in Nat
      /\ \A ip \in DOMAIN s : s[ip] \in Reading /\ s[ip].SampleCount \in Nat
  BY PartialMap
<1>2. \A t \in given : \A ip \in DOMAIN t : t[ip].SampleCount \in Nat
  BY PartialMap
<1>3. /\ DOMAIN f = D
      /\ \A ip \in D : f[ip] = IF ip \notin DOMAIN agg THEN s[ip]
                               ELSE IF ip \in DOMAIN s
                                       /\ s[ip].SampleCount > agg[ip].SampleCount
                                    THEN s[ip] ELSE agg[ip]
      /\ f = [ip \in D |-> f[ip]]
  BY DEF Ebpf!Merge
<1> HIDE DEF f
<1>4. \A ip \in D : f[ip] \in Reading
  BY <1>1, <1>3
<1>5. f \in [D -> Reading] /\ D \in SUBSET W
  BY <1>1, <1>3, <1>4
<1>6. DOMAIN f = UNION {DOMAIN t : t \in given \cup {s}}
  BY <1>3 DEF Best
<1>7. ASSUME NEW ip \in DOMAIN f
      PROVE  /\ \E t \in given \cup {s} : ip \in DOMAIN t /\ t[ip] = f[ip]
             /\ \A t \in given \cup {s} : ip \in DOMAIN t =>
                   t[ip].SampleCount <= f[ip].SampleCount
  <2>1. CASE ip \notin DOMAIN agg
    <3>1. ip \in DOMAIN s /\ f[ip] = s[ip] /\ s[ip].SampleCount \in Nat
      BY <1>1, <1>3, <2>1
    <3>2. \A t \in given : ip \notin DOMAIN t
      BY <2>1 DEF Best
    <3> QED BY <3>1, <3>2
  <2>2. CASE ip \in DOMAIN agg /\ f[ip] = s[ip] /\ ip \in DOMAIN s
                /\ s[ip].SampleCount > agg[ip].SampleCount
    <3>1. \A t \in given : ip \in DOMAIN t => t[ip].SampleCount <= agg[ip].SampleCount
      BY <2>2 DEF Best
    <3>2. s[ip].SampleCount \in Nat /\ agg[ip].SampleCount \in Nat
      BY <1>1, <2>2
    <3>3. \A t \in given : ip \in DOMAIN t => t[ip].SampleCount <= s[ip].SampleCount
      BY <1>2, <2>2, <3>1, <3>2
    <3> QED BY <2>2, <3>2, <3>3
  <2>3. CASE ip \in DOMAIN agg /\ f[ip] = agg[ip]
                /\ (ip \in DOMAIN s => ~(s[ip].SampleCount > agg[ip].SampleCount))
    <3>1. /\ \E t \in given : ip \in DOMAIN t /\ t[ip] = agg[ip]
          /\ \A t \in given : ip \in DOMAIN t => t[ip].SampleCount <= agg[ip].SampleCount
      BY <2>3 DEF Best
    <3>2. ip \in DOMAIN s => s[ip].SampleCount <= agg[ip].SampleCount
      BY <1>1, <2>3
    <3> QED BY <2>3, <3>1, <3>2
  <2> QED BY <1>3, <2>1, <2>2, <2>3
<1>8. Best(f, given \cup {s})
  BY <1>6, <1>7 DEF Best
<1> QED BY <1>5, <1>8 DEF f

\* fetchFromAgent answers about the pods it was asked for.
LEMMA FetchAnswers ==
    ASSUME Gathering, Asking, NEW a \in Agent
    PROVE  Ebpf!fetchFromAgent(a, call.podIPs) \in [err : BOOLEAN, stats : Answers]
<1> DEFINE kept == IF call.podIPs = {} THEN DOMAIN reports[a]
                   ELSE DOMAIN reports[a] \cap call.podIPs
<1>1. /\ DOMAIN reports[a] \in SUBSET PodIP
      /\ \A ip \in DOMAIN reports[a] : reports[a][ip] \in Reading
  <2>1. reports[a] \in UNION {[ips -> Reading] : ips \in SUBSET PodIP}
    BY DEF Gathering, Ebpf!Reports
  <2> QED BY <2>1, PartialMap
<1>2. kept \in SUBSET Promise!Within(call.podIPs)
  BY <1>1 DEF Promise!Within
<1>3. [ip \in kept |-> reports[a][ip]] \in [kept -> Reading]
  BY <1>1
<1>4. [ip \in kept |-> reports[a][ip]] \in Answers
  BY <1>2, <1>3 DEF Answers
<1>5. Ebpf!Nothing \in [{} -> Reading] /\ {} \in SUBSET Promise!Within(call.podIPs)
  BY DEF Ebpf!Nothing
<1>6. Ebpf!Nothing \in Answers
  BY <1>5 DEF Answers
<1> HIDE DEF kept
<1> QED BY <1>4, <1>6 DEF Ebpf!fetchFromAgent, kept

-----------------------------------------------------------------------------
(* The eBPF source.                                                        *)

\* The empty map is an answer, and the best of none.
LEMMA NothingYet ==
    ASSUME NEW W
    PROVE  /\ Ebpf!Nothing \in UNION {[ips -> Reading] : ips \in SUBSET W}
           /\ Best(Ebpf!Nothing, {})
<1>1. Ebpf!Nothing \in [{} -> Reading] /\ {} \in SUBSET W
  BY DEF Ebpf!Nothing
<1> QED BY <1>1 DEF Best, Ebpf!Nothing

\* A call begins with nothing received.
LEMMA EbpfBegins ==
    ASSUME IInv, NEW podIPs \in SUBSET PodIP, Ebpf!Begin(podIPs)
    PROVE  Asking' /\ Gathering'
<1>1. /\ call' = [pc |-> "asked", podIPs |-> podIPs]
      /\ endpoints' = agentEndpoints /\ asked' = agentEndpoints
      /\ ebpfResults' = <<>> /\ received' = 0
      /\ aggregated' = Ebpf!Nothing /\ answers' = {}
      /\ agentEndpoints' = agentEndpoints /\ reports' = reports
  BY DEF Ebpf!Begin
<1>3. aggregated' \in Answers' /\ Best(aggregated', answers')
  BY <1>1, NothingYet DEF Answers
<1>4. BestReadingKept'
  BY <1>3 DEF Best, BestReadingKept, Ebpf!BestReadingKept
<1>5. ebpfResults' \in Seq([err : BOOLEAN, stats : Answers'])
  BY <1>1
<1>6. reports \in [Agent -> Ebpf!Reports] /\ agentEndpoints \in SUBSET Agent
  BY DEF IInv, Gathering
<1> QED BY <1>1, <1>3, <1>4, <1>5, <1>6 DEF IInv, Asking, Gathering

\* A goroutine sends its result.
LEMMA EbpfFetches ==
    ASSUME IInv, NEW a \in Agent, Ebpf!Fetch(a)
    PROVE  Asking' /\ Gathering'
<1>1. /\ asked' = asked \ {a} /\ UNCHANGED <<call, agentEndpoints, reports, endpoints>>
      /\ UNCHANGED <<received, aggregated, answers>>
      /\ ebpfResults' = Append(ebpfResults, Ebpf!fetchFromAgent(a, call.podIPs))
  BY DEF Ebpf!Fetch
<1>2. Answers' = Answers /\ (BestReadingKept => BestReadingKept')
  BY <1>1 DEF Answers, BestReadingKept, Ebpf!BestReadingKept
<1>3. call.pc = "asked" => ebpfResults' \in Seq([err : BOOLEAN, stats : Answers])
  BY <1>1, FetchAnswers DEF IInv, Gathering
<1> QED BY <1>1, <1>2, <1>3 DEF IInv, Asking, Gathering

\* The loop takes a result and merges it.
LEMMA EbpfTakes ==
    ASSUME IInv, Ebpf!Take
    PROVE  Asking' /\ Gathering'
<1>1. /\ ebpfResults # <<>> /\ ebpfResults' = Tail(ebpfResults) /\ received' = received + 1
      /\ UNCHANGED <<agentEndpoints, reports, call, endpoints, asked>>
  BY DEF Ebpf!Take
<1>2. CASE call.pc = "none"
  BY <1>1, <1>2 DEF IInv, Asking, Gathering
<1>3. CASE call.pc = "asked"
  <2>1. PICK r \in [err : BOOLEAN, stats : Answers] :
           /\ aggregated' = IF r.err THEN aggregated ELSE Ebpf!Merge(aggregated, r.stats)
           /\ answers' = IF r.err THEN answers ELSE answers \cup {r.stats}
    <3>1. Head(ebpfResults) \in [err : BOOLEAN, stats : Answers]
      <4>1. ebpfResults \in Seq([err : BOOLEAN, stats : Answers])
        BY <1>3 DEF IInv, Gathering
      <4> QED BY <1>1, <4>1, HeadTailProperties
    <3> QED BY <3>1 DEF Ebpf!Take
  <2>2. /\ aggregated \in Answers /\ answers \in SUBSET Answers
        /\ Best(aggregated, answers) /\ received \in Nat
    BY <1>3 DEF IInv, Gathering, BestReadingKept, Ebpf!BestReadingKept, Best
  <2>3. /\ aggregated' \in Answers /\ answers' \in SUBSET Answers
        /\ Best(aggregated', answers')
    <3>1. CASE r.err
      BY <2>1, <2>2, <3>1
    <3>2. CASE ~r.err
      <4>1. /\ Ebpf!Merge(aggregated, r.stats) \in Answers
            /\ Best(Ebpf!Merge(aggregated, r.stats), answers \cup {r.stats})
        BY <2>2, MergeKeepsBest DEF Answers
      <4> QED BY <2>1, <2>2, <3>2, <4>1
    <3> QED BY <3>1, <3>2
  <2>4. Answers' = Answers
    BY <1>1 DEF Answers
  <2>5. BestReadingKept'
    BY <2>3 DEF BestReadingKept, Ebpf!BestReadingKept, Best
  <2>6. ebpfResults' \in Seq([err : BOOLEAN, stats : Answers])
    BY <1>1, <1>3 DEF IInv, Gathering
  <2>7. received' \in Nat /\ received' # 0
    BY <1>1, <2>2
  <2> QED BY <1>1, <1>3, <2>3, <2>4, <2>5, <2>6, <2>7 DEF IInv, Asking, Gathering
<1> QED BY <1>2, <1>3 DEF IInv, Asking

\* The other steps of the source and of its agents.
LEMMA EbpfOthers ==
    ASSUME IInv, Ebpf!Return \/ Ebpf!Agents \/ Ebpf!UpdateAgentEndpoints
    PROVE  Asking' /\ Gathering'
<1>1. CASE Ebpf!Return
  <2>1. call' = Promise!NoCall /\ UNCHANGED <<agentEndpoints, reports>>
    BY <1>1 DEF Ebpf!Return, Ebpf!NoCall, Promise!NoCall
  <2> QED BY <2>1 DEF IInv, Asking, Gathering, Promise!NoCall
<1>2. CASE Ebpf!Agents \/ Ebpf!UpdateAgentEndpoints
  <2>1. /\ UNCHANGED <<call, reports, endpoints, asked, ebpfResults, received>>
        /\ UNCHANGED <<aggregated, answers>> /\ agentEndpoints' \in SUBSET Agent
    BY <1>2 DEF Ebpf!Agents, Ebpf!ToggleAgent, Ebpf!UpdateAgentEndpoints, Ebpf!loop,
                IInv, Gathering
  <2>2. Answers' = Answers /\ (BestReadingKept => BestReadingKept')
    BY <2>1 DEF Answers, BestReadingKept, Ebpf!BestReadingKept
  <2> QED BY <2>1, <2>2 DEF IInv, Asking, Gathering
<1> QED BY <1>1, <1>2

\* A step of the eBPF source preserves the invariant.
LEMMA EbpfHolds ==
    ASSUME IInv, ByEbpf(Ebpf!Next)
    PROVE  IInv'
<1>1. Asking' /\ Gathering'
  BY EbpfBegins, EbpfFetches, EbpfTakes, EbpfOthers
  DEF ByEbpf, Ebpf!Next, Ebpf!GetLatencies
<1>2. latencySourceType' = "ebpf" /\ Unused'
  BY DEF ByEbpf, probeVars, IInv, Unused, Prober!Nothing
<1> QED BY <1>1, <1>2 DEF IInv

-----------------------------------------------------------------------------
(* The probe source.                                                       *)

\* The cardinality of the instance is the one of the library.
LEMMA SameCardinality ==
    \A S : Prober!Cardinality(S) = Cardinality(S)
BY DEF Prober!Cardinality, Cardinality

\* The P99 of three probes is the slowest of them.
LEMMA SlowestProbe ==
    ASSUME NEW s \in Round
    PROVE  /\ Prober!percentile(s, 50) \in Int /\ Prober!percentile(s, 99) \in Int
           /\ \E k \in 1..3 : Prober!percentile(s, 99) = s[k]
           /\ \A k \in 1..3 : s[k] <= Prober!percentile(s, 99)
<1>1. /\ s \in Seq(Int) /\ Len(s) = 3 /\ DOMAIN s = 1..3
      /\ \A k \in 1..3 : s[k] \in Int
  <2>1. Latency \cup {unreachableLatency} \subseteq Int
    BY SourcesAssumption
  <2>2. s \in Seq(Latency \cup {unreachableLatency}) /\ Len(s) = 3
    BY DEF Round
  <2>3. \A k \in 1..3 : s[k] \in Latency \cup {unreachableLatency}
    BY <2>2, ElementOfSeq
  <2>4. \A k \in 1..3 : s[k] \in Int
    BY <2>1, <2>3
  <2>5. s = [k \in 1..3 |-> s[k]] /\ DOMAIN s = 1..3
    BY <2>2
  <2> QED BY <2>2, <2>4, <2>5
<1>2. \A i : Prober!Smallest(s, i) = Smallest(s, i)
  BY SameCardinality DEF Prober!Smallest, Smallest
<1>3. /\ Prober!percentile(s, 99) = Smallest(s, 2)
      /\ Prober!percentile(s, 50) = Smallest(s, 1)
  BY <1>1, <1>2 DEF Prober!percentile
<1>4. 1 \in 0..(Len(s) - 1) /\ 2 \in 0..(Len(s) - 1)
  BY <1>1
<1>5. /\ Smallest(s, 1) \in Int /\ Smallest(s, 2) \in Int
      /\ \E k \in 1..3 : Smallest(s, 2) = s[k]
  BY <1>1, <1>4, SmallestRank
<1>6. ASSUME NEW k \in 1..3 PROVE s[k] <= Smallest(s, 2)
  <2>1. Under(s, s[k]) \in SUBSET (1..3) /\ k \notin Under(s, s[k])
    BY <1>1 DEF Under
  <2>2. IsFiniteSet(1..3) /\ Cardinality(1..3) = 3
    BY Interval
  <2>3. Cardinality(Under(s, s[k])) < 3 /\ Cardinality(Under(s, s[k])) \in Nat
    BY <2>1, <2>2, Part
  <2>4. Cardinality(Under(s, s[k])) <= 2
    BY <2>3
  <2> QED BY <1>1, <1>4, <2>4, SmallestBounds
<1> QED BY <1>3, <1>5, <1>6

\* A call begins with a goroutine per pod.
LEMMA ProbeBegins ==
    ASSUME IInv, NEW podIPs \in SUBSET PodIP, Prober!Begin(podIPs)
    PROVE  Asking' /\ Probing'
<1>1. /\ call' = [pc |-> "asked", podIPs |-> podIPs]
      /\ samples' = [ip \in podIPs |-> <<>>] /\ results' = <<>>
      /\ pending' = Cardinality(podIPs) /\ closed' = FALSE
      /\ stats' = Prober!Nothing /\ probed' = Prober!Nothing
  BY SameCardinality DEF Prober!Begin
<1>2. /\ DOMAIN samples' = podIPs /\ DOMAIN stats' = {} /\ DOMAIN probed' = {}
      /\ DOMAIN results' = {} /\ Waiting' = {}
  BY <1>1 DEF Prober!Nothing, Waiting
<1>3. IsFiniteSet(podIPs)
  BY SourcesAssumption, FS_Subset
<1>4. \A ip \in podIPs : samples'[ip] \in Seq(Latency \cup {unreachableLatency})
  BY <1>1
<1>5. results' \in Seq([ip : PodIP, stat : Stat])
  BY <1>1
<1> QED BY <1>1, <1>2, <1>3, <1>4, <1>5 DEF Asking, Probing

\* A probe of a pod is taken.
LEMMA ProbeProbes ==
    ASSUME IInv, Probing, NEW ip \in PodIP, Prober!Probe(ip)
    PROVE  Asking' /\ Probing'
<1>1. PICK taken \in Latency \cup {unreachableLatency} :
         samples' = [samples EXCEPT ![ip] = Append(@, taken)]
  BY DEF Prober!Probe
<1>2. /\ ip \in DOMAIN samples
      /\ UNCHANGED <<call, results, pending, closed, stats, probed>>
  BY DEF Prober!Probe
<1>3. DOMAIN samples' = DOMAIN samples /\ Waiting' = Waiting
  BY <1>1, <1>2 DEF Waiting
<1>4. \A x \in DOMAIN samples : samples'[x] \in Seq(Latency \cup {unreachableLatency})
  BY <1>1, <1>2 DEF Probing
<1> QED BY <1>2, <1>3, <1>4 DEF IInv, Asking, Probing, StatOf

\* A goroutine ends: its pod moves from the probed to the waiting.
LEMMA ProbeFinishes ==
    ASSUME IInv, Probing, NEW ip \in PodIP, Prober!Finish(ip)
    PROVE  Asking' /\ Probing'
<1> DEFINE stat == [P50 |-> Prober!percentile(samples[ip], 50),
                    P99 |-> Prober!percentile(samples[ip], 99),
                    SampleCount |-> Len(samples[ip])]
           r == [ip |-> ip, stat |-> stat]
<1>1. /\ ip \in DOMAIN samples /\ Len(samples[ip]) = 3
      /\ results' = Append(results, r) /\ pending' = pending - 1
      /\ UNCHANGED <<call, closed, stats>>
  BY DEF Prober!Finish, Prober!probeSamplesPerRound
<1>2. /\ DOMAIN probed' = DOMAIN probed \cup {ip} /\ probed'[ip] = samples[ip]
      /\ \A x \in DOMAIN probed : x # ip => probed'[x] = probed[x]
  BY DEF Prober!Finish
<1>3. /\ DOMAIN samples' = DOMAIN samples \ {ip}
      /\ \A x \in DOMAIN samples \ {ip} : samples'[x] = samples[x]
  BY DEF Prober!Finish
<1>4. samples[ip] \in Round
  BY <1>1 DEF Probing, Round
<1>5. stat \in Stat /\ r \in [ip : PodIP, stat : Stat]
  BY <1>1, <1>4, SlowestProbe DEF Stat
<1>6. /\ r.ip = ip /\ r.stat.P99 = Prober!percentile(samples[ip], 99)
      /\ r.stat.SampleCount = 3
  BY <1>1
<1> HIDE DEF stat, r
<1>7. /\ results \in Seq([ip : PodIP, stat : Stat])
      /\ results' \in Seq([ip : PodIP, stat : Stat])
      /\ DOMAIN results = 1..Len(results) /\ Len(results) \in Nat
      /\ DOMAIN results' = 1..(Len(results) + 1)
      /\ results'[Len(results) + 1] = r
      /\ \A i \in DOMAIN results : results'[i] = results[i]
  BY <1>1, <1>5 DEF Probing
<1>8. Waiting' = Waiting \cup {ip}
  <2>1. ASSUME NEW x \in Waiting' PROVE x \in Waiting \cup {ip}
    <3>1. PICK i \in DOMAIN results' : x = results'[i].ip
      BY DEF Waiting
    <3>2. i \in DOMAIN results \/ i = Len(results) + 1
      BY <1>7
    <3> QED BY <1>6, <1>7, <3>1, <3>2 DEF Waiting
  <2>2. ASSUME NEW x \in Waiting PROVE x \in Waiting'
    <3>1. PICK i \in DOMAIN results : x = results[i].ip
      BY DEF Waiting
    <3>2. i \in DOMAIN results' /\ results'[i] = results[i]
      BY <1>7
    <3> QED BY <3>1, <3>2 DEF Waiting
  <2>3. ip \in Waiting'
    <3>1. Len(results) + 1 \in DOMAIN results'
      BY <1>7
    <3> QED BY <1>6, <1>7, <3>1 DEF Waiting
  <2> QED BY <2>1, <2>2, <2>3
<1>9. /\ IsFiniteSet(DOMAIN samples')
      /\ pending' = Cardinality(DOMAIN samples') /\ closed = FALSE
  <2>1. IsFiniteSet(DOMAIN samples) /\ pending = Cardinality(DOMAIN samples)
    BY DEF Probing
  <2>2. /\ IsFiniteSet(DOMAIN samples \ {ip})
        /\ Cardinality(DOMAIN samples \ {ip}) = Cardinality(DOMAIN samples) - 1
    BY <1>1, <2>1, FS_RemoveElement
  <2>3. Cardinality(DOMAIN samples) # 0
    BY <1>1, <2>1, FS_EmptySet
  <2> QED BY <1>1, <1>3, <2>1, <2>2, <2>3 DEF Probing
<1>10. ip \notin DOMAIN probed
  BY <1>1 DEF Probing
<1>11. \A st, x : StatOf(st, x, probed) => StatOf(st, x, probed')
  BY <1>2, <1>10 DEF StatOf
<1>12. \A i \in DOMAIN results' : StatOf(results'[i].stat, results'[i].ip, probed')
  <2>1. StatOf(r.stat, r.ip, probed')
    BY <1>2, <1>6 DEF StatOf
  <2>2. ASSUME NEW i \in DOMAIN results PROVE StatOf(results[i].stat, results[i].ip, probed')
    BY <1>11 DEF Probing
  <2>3. ASSUME NEW i \in DOMAIN results'
        PROVE  StatOf(results'[i].stat, results'[i].ip, probed')
    <3>1. CASE i \in DOMAIN results
      BY <1>7, <2>2, <3>1
    <3>2. CASE i = Len(results) + 1
      BY <1>7, <2>1, <3>2
    <3> QED BY <1>7, <3>1, <3>2
  <2> QED BY <2>3
<1>13. \A x \in DOMAIN stats' : StatOf(stats'[x], x, probed')
  BY <1>1, <1>11 DEF Probing
<1>14. \A x \in DOMAIN probed' : probed'[x] \in Round /\ x \notin DOMAIN samples'
  BY <1>2, <1>3, <1>4 DEF Probing
<1>15. \A x \in DOMAIN samples' : samples'[x] \in Seq(Latency \cup {unreachableLatency})
  BY <1>3 DEF Probing
<1>16. call.pc = "asked" => call.podIPs = DOMAIN samples' \cup Waiting' \cup DOMAIN stats
  BY <1>1, <1>3, <1>8 DEF Probing
<1>17. call.pc # "none"
  BY <1>1 DEF Probing
<1>18. Asking'
  BY <1>1 DEF IInv, Asking
<1>19. closed \in BOOLEAN
  BY DEF Probing
<1> QED BY <1>1, <1>7, <1>9, <1>12, <1>13, <1>14, <1>15, <1>16, <1>17, <1>18, <1>19
        DEF Probing

\* The closer closes when nobody is left to send.
LEMMA ProbeCloses ==
    ASSUME IInv, Probing, Prober!Close
    PROVE  Asking' /\ Probing'
<1>1. /\ pending = 0 /\ closed' = TRUE
      /\ UNCHANGED <<call, samples, results, pending, stats, probed>>
  BY DEF Prober!Close
<1>2. Waiting' = Waiting
  BY <1>1 DEF Waiting
<1> QED BY <1>1, <1>2 DEF IInv, Asking, Probing, StatOf

\* The loop takes a result: its pod moves from the waiting to the map.
LEMMA ProbeTakes ==
    ASSUME IInv, Probing, Prober!Take
    PROVE  Asking' /\ Probing'
<1> DEFINE r == Head(results)
<1>1. /\ results # <<>> /\ results' = Tail(results)
      /\ UNCHANGED <<call, samples, pending, closed, probed>>
  BY DEF Prober!Take
<1>2. /\ DOMAIN stats' = DOMAIN stats \cup {r.ip} /\ stats'[r.ip] = r.stat
      /\ \A x \in DOMAIN stats : x # r.ip => stats'[x] = stats[x]
  BY DEF Prober!Take
<1>3. /\ results \in Seq([ip : PodIP, stat : Stat]) /\ r = results[1]
      /\ results' \in Seq([ip : PodIP, stat : Stat])
      /\ DOMAIN results = 1..Len(results) /\ Len(results) \in Nat \ {0}
      /\ DOMAIN results' = 1..(Len(results) - 1)
      /\ \A i \in DOMAIN results' : results'[i] = results[i + 1]
  BY <1>1 DEF Probing
<1> HIDE DEF r
<1>4. 1 \in DOMAIN results /\ \A i \in DOMAIN results' : i + 1 \in DOMAIN results
  BY <1>3
<1>5. \A i \in DOMAIN results : i = 1 \/ \E j \in DOMAIN results' : i = j + 1
  <2>1. ASSUME NEW i \in DOMAIN results, i # 1
        PROVE  i - 1 \in DOMAIN results' /\ i = (i - 1) + 1
    BY <1>3, <2>1
  <2> QED BY <2>1
<1>6. Waiting = Waiting' \cup {r.ip}
  <2>1. ASSUME NEW x \in Waiting PROVE x \in Waiting' \cup {r.ip}
    <3>1. PICK i \in DOMAIN results : x = results[i].ip
      BY DEF Waiting
    <3>2. CASE i = 1
      BY <1>3, <3>1, <3>2
    <3>3. CASE \E j \in DOMAIN results' : i = j + 1
      BY <1>3, <3>1, <3>3 DEF Waiting
    <3> QED BY <1>5, <3>2, <3>3
  <2>2. ASSUME NEW x \in Waiting' PROVE x \in Waiting
    <3>1. PICK i \in DOMAIN results' : x = results'[i].ip
      BY DEF Waiting
    <3> QED BY <1>3, <1>4, <3>1 DEF Waiting
  <2>3. r.ip \in Waiting
    BY <1>3, <1>4 DEF Waiting
  <2> QED BY <2>1, <2>2, <2>3
<1>7. probed' = probed
  BY <1>1
<1>8. \A i \in DOMAIN results' : StatOf(results'[i].stat, results'[i].ip, probed')
  <2>1. ASSUME NEW i \in DOMAIN results' PROVE StatOf(results'[i].stat, results'[i].ip, probed')
    <3>1. StatOf(results[i + 1].stat, results[i + 1].ip, probed)
      BY <1>4 DEF Probing
    <3> QED BY <1>3, <1>7, <3>1
  <2> QED BY <2>1
<1>9. \A x \in DOMAIN stats' : StatOf(stats'[x], x, probed')
  <2>1. StatOf(r.stat, r.ip, probed)
    BY <1>3, <1>4 DEF Probing
  <2>2. \A x \in DOMAIN stats : StatOf(stats[x], x, probed)
    BY DEF Probing
  <2>3. \A x \in DOMAIN stats' : StatOf(stats'[x], x, probed)
    BY <1>2, <2>1, <2>2
  <2> QED BY <1>7, <2>3
<1>10. call.pc # "none"
  BY <1>1 DEF Probing
<1>11. call.pc = "asked" => call.podIPs = DOMAIN samples \cup Waiting' \cup DOMAIN stats'
  BY <1>2, <1>6 DEF Probing
<1>12. Asking'
  BY <1>1 DEF IInv, Asking
<1> QED BY <1>1, <1>3, <1>8, <1>9, <1>10, <1>11, <1>12 DEF Probing

\* A call returns when nobody probes any more and nothing waits: the map has every
\* pod of the call.
LEMMA AllAnswered ==
    ASSUME IInv, Probing, Prober!Return
    PROVE  DOMAIN samples = {} /\ results = <<>> /\ DOMAIN stats = call.podIPs
<1>1. call.pc = "asked" /\ (call.podIPs = {} \/ (closed /\ results = <<>>))
  BY DEF Prober!Return
<1>2. call.podIPs = DOMAIN samples \cup Waiting \cup DOMAIN stats
  BY <1>1 DEF Probing
<1>3. results \in Seq([ip : PodIP, stat : Stat])
  BY DEF Probing
<1>4. Waiting = {} <=> results = <<>>
  <2>1. ASSUME results # <<>> PROVE 1 \in DOMAIN results
    BY <1>3, <2>1
  <2>2. ASSUME results = <<>> PROVE DOMAIN results = {}
    BY <2>2
  <2> QED BY <2>1, <2>2 DEF Waiting
<1>5. CASE call.podIPs = {}
  BY <1>2, <1>4, <1>5
<1>6. CASE closed /\ results = <<>>
  <2>1. IsFiniteSet(DOMAIN samples) /\ Cardinality(DOMAIN samples) = 0
    BY <1>6 DEF Probing
  <2>2. DOMAIN samples = {}
    BY <2>1, FS_EmptySet
  <2> QED BY <1>2, <1>4, <1>6, <2>2
<1> QED BY <1>1, <1>5, <1>6

\* The call returns.
LEMMA ProbeReturns ==
    ASSUME IInv, Probing, Prober!Return
    PROVE  Asking' /\ Probing'
<1>1. call' = Promise!NoCall /\ closed' = FALSE
      /\ UNCHANGED <<samples, results, pending, stats, probed>>
  BY DEF Prober!Return, Prober!NoCall, Promise!NoCall
<1>2. DOMAIN samples = {} /\ results = <<>>
  BY AllAnswered
<1> QED BY <1>1, <1>2 DEF IInv, Asking, Probing, StatOf, Promise!NoCall

\* A step of the probe source preserves the invariant.
LEMMA ProberHolds ==
    ASSUME IInv, ByProber(Prober!Next)
    PROVE  IInv'
<1>1. latencySourceType = "probe" /\ Probing
  BY DEF ByProber, IInv
<1>2. Asking' /\ Probing'
  BY <1>1, ProbeBegins, ProbeProbes, ProbeFinishes, ProbeCloses, ProbeTakes, ProbeReturns
  DEF ByProber, Prober!Next, Prober!GetLatencies
<1>3. latencySourceType' = "probe" /\ UNCHANGED ebpfVars
  BY <1>1 DEF ByProber
<1>4. Unused'
  BY <1>1, <1>3 DEF ebpfVars, IInv, Unused
<1>5. (reports \in [Agent -> Ebpf!Reports] /\ agentEndpoints \in SUBSET Agent)'
  BY <1>3 DEF ebpfVars, IInv, Gathering
<1>6. Gathering'
  <2>1. /\ ebpfResults' = <<>> /\ received' = 0 /\ answers' = {}
        /\ aggregated' = Ebpf!Nothing /\ endpoints' = {} /\ asked' = {}
    BY <1>3, <1>4 DEF Unused
  <2>2. aggregated' \in Answers' /\ Best(aggregated', answers')
    BY <2>1, NothingYet DEF Answers
  <2>3. BestReadingKept'
    BY <2>2 DEF Best, BestReadingKept, Ebpf!BestReadingKept
  <2>4. ebpfResults' \in Seq([err : BOOLEAN, stats : Answers'])
    BY <2>1
  <2> QED BY <1>5, <2>1, <2>2, <2>3, <2>4 DEF Gathering
<1> QED BY <1>2, <1>3, <1>4, <1>6 DEF IInv

-----------------------------------------------------------------------------
(* The theorems.                                                           *)

\* Both sources start with nothing.
LEMMA InitHolds ==
    ASSUME Init
    PROVE  IInv
<1>1. /\ latencySourceType \in {"ebpf", "probe"} /\ call = Promise!NoCall
      /\ reports \in [Agent -> Ebpf!Reports] /\ agentEndpoints = {}
      /\ endpoints = {} /\ asked = {} /\ ebpfResults = <<>> /\ received = 0
      /\ aggregated = Ebpf!Nothing /\ answers = {}
  BY DEF Init, Ebpf!Init, Ebpf!NoCall, Promise!NoCall
<1>2. /\ samples = Prober!Nothing /\ results = <<>> /\ pending = 0 /\ closed = FALSE
      /\ stats = Prober!Nothing /\ probed = Prober!Nothing
  BY DEF Init, Prober!Init
<1>3. DOMAIN samples = {} /\ DOMAIN stats = {} /\ DOMAIN probed = {} /\ DOMAIN results = {}
  BY <1>2 DEF Prober!Nothing
<1>4. IsFiniteSet({}) /\ Cardinality({}) = 0
  BY FS_EmptySet
<1>5. Asking /\ Unused
  BY <1>1, <1>2 DEF Asking, Unused, Promise!NoCall
<1>6. Gathering
  BY <1>1 DEF Gathering, Promise!NoCall
<1>7. results \in Seq([ip : PodIP, stat : Stat])
  BY <1>2
<1>8. Probing
  BY <1>1, <1>2, <1>3, <1>4, <1>7 DEF Probing, Promise!NoCall
<1> QED BY <1>1, <1>5, <1>6, <1>8 DEF IInv

\* A step that changes nothing preserves the invariant.
LEMMA StutteringHolds ==
    ASSUME IInv, UNCHANGED vars
    PROVE  IInv'
<1>1. /\ UNCHANGED <<latencySourceType, call, agentEndpoints, reports, endpoints, asked>>
      /\ UNCHANGED <<ebpfResults, received, aggregated, answers>>
      /\ UNCHANGED <<samples, results, pending, closed, stats, probed>>
  BY DEF vars, ebpfVars, probeVars
<1>2. Answers' = Answers /\ (BestReadingKept => BestReadingKept') /\ Waiting' = Waiting
  BY <1>1 DEF Answers, BestReadingKept, Ebpf!BestReadingKept, Waiting
<1>3. Asking' /\ Gathering' /\ Unused'
  BY <1>1, <1>2 DEF IInv, Asking, Gathering, Unused
<1>4. Probing => Probing'
  BY <1>1, <1>2 DEF Probing
<1> QED BY <1>1, <1>3, <1>4 DEF IInv

\* The invariant holds in every state, whichever source was chosen.
THEOREM Invariant == Spec => []IInv
<1>1. IInv /\ [Next]_vars => IInv'
  BY EbpfHolds, ProberHolds, StutteringHolds DEF Next
<1> QED BY <1>1, InitHolds, PTL DEF Spec

\* Whatever order the answers of the agents come in, the reading merged for a pod is
\* the one with the most samples.
THEOREM TheBestReadingIsKept == Spec => []BestReadingKept
<1>1. IInv => BestReadingKept
  BY DEF IInv, Asking, Gathering, BestReadingKept, Ebpf!BestReadingKept
<1> QED BY <1>1, Invariant, PTL

\* A failed probe counts as unreachableLatency, which is longer than any answer takes,
\* and the P99 of three probes is the slowest.
THEOREM AFailedProbeRanksLast == Spec => []FailedProbeRanksLast
<1>1. ASSUME IInv PROVE FailedProbeRanksLast
  <2>1. CASE latencySourceType = "ebpf"
    <3>1. DOMAIN stats = {}
      BY <1>1, <2>1 DEF IInv, Unused, Prober!Nothing
    <3> QED BY <3>1 DEF FailedProbeRanksLast, Prober!FailedProbeRanksLast
  <2>2. CASE latencySourceType = "probe"
    <3> SUFFICES ASSUME NEW bad \in DOMAIN stats, NEW good \in DOMAIN stats,
                        Prober!Failed(probed[bad]), ~Prober!Failed(probed[good])
                 PROVE  stats[bad].P99 > stats[good].P99
      BY DEF FailedProbeRanksLast, Prober!FailedProbeRanksLast
    <3>1. /\ probed[bad] \in Round /\ stats[bad].P99 = Prober!percentile(probed[bad], 99)
          /\ probed[good] \in Round /\ stats[good].P99 = Prober!percentile(probed[good], 99)
      BY <1>1, <2>2 DEF IInv, Probing, StatOf
    <3>2. /\ \A k \in 1..3 : probed[bad][k] <= stats[bad].P99
          /\ stats[bad].P99 \in Int
          /\ \E k \in 1..3 : stats[good].P99 = probed[good][k]
      BY <3>1, SlowestProbe
    <3>3. DOMAIN probed[bad] = 1..3 /\ DOMAIN probed[good] = 1..3
      BY <3>1 DEF Round
    <3>4. unreachableLatency <= stats[bad].P99
      BY <3>2, <3>3 DEF Prober!Failed
    <3>5. \A k \in 1..3 : probed[good][k] \in Latency
      <4>1. \A k \in 1..3 : probed[good][k] \in Latency \cup {unreachableLatency}
        BY <3>1, ElementOfSeq DEF Round
      <4>2. \A k \in 1..3 : probed[good][k] # unreachableLatency
        BY <3>3 DEF Prober!Failed
      <4> QED BY <4>1, <4>2
    <3>6. stats[good].P99 \in Latency
      BY <3>2, <3>5
    <3>7. /\ stats[good].P99 \in Nat /\ unreachableLatency \in Nat
          /\ stats[good].P99 < unreachableLatency
      BY <3>6, SourcesAssumption
    <3> QED BY <3>2, <3>4, <3>7
  <2> QED BY <1>1, <2>1, <2>2 DEF IInv
<1> QED BY <1>1, Invariant, PTL

\* A call of the eBPF source that returns has merged nothing if it knew of no agent.
LEMMA NoAgentNoAnswer ==
    ASSUME IInv, Ebpf!Return
    PROVE  endpoints = {} => answers = {}
<1>1. call.pc = "asked" /\ received = Ebpf!Cardinality(endpoints)
  BY DEF Ebpf!Return, Ebpf!AllReceived
<1>2. Ebpf!Cardinality({}) = Cardinality({})
  BY DEF Ebpf!Cardinality, Cardinality
<1>3. endpoints = {} => received = 0
  BY <1>1, <1>2, FS_EmptySet
<1> QED BY <1>1, <1>3 DEF IInv, Gathering

\* What an agent answered for is handed on, whichever other agents failed.
THEOREM AFailureStaysLocal == Spec => FailureStaysLocal
<1> DEFINE Given == UNION {DOMAIN s : s \in answers}
           Local == call.pc = "asked" /\ call'.pc = "none" =>
                       (Given # {} => ~outcome'.err /\ DOMAIN outcome'.stats = Given)
<1>1. ASSUME IInv, Next, call.pc = "asked", call'.pc = "none"
      PROVE  Local
  <2>1. CASE ByProber(Prober!Next)
    BY <1>1, <2>1 DEF ByProber, IInv, Unused
  <2>2. CASE ByEbpf(Ebpf!Next)
    <3>1. Ebpf!Return
      BY <1>1, <2>2 DEF ByEbpf, Ebpf!Next, Ebpf!GetLatencies, Ebpf!Begin, Ebpf!Fetch,
                        Ebpf!Take, Ebpf!Agents, Ebpf!ToggleAgent, Ebpf!UpdateAgentEndpoints
    <3>2. outcome' = Ebpf!Verdict(aggregated, lastErr)
      BY <3>1 DEF Ebpf!Return
    <3>3. DOMAIN aggregated = Given
      BY <1>1 DEF IInv, Gathering, BestReadingKept, Ebpf!BestReadingKept
    <3>4. Given # {} => endpoints # {}
      BY <1>1, <3>1, NoAgentNoAnswer
    <3> QED BY <3>2, <3>3, <3>4 DEF Ebpf!Verdict
  <2> QED BY <1>1, <2>1, <2>2 DEF Next
<1>2. IInv /\ [Next]_vars => [Local]_Ebpf!vars
  BY <1>1 DEF vars, ebpfVars, Ebpf!vars, Ebpf!loop
<1> QED BY <1>2, Invariant, PTL DEF Spec, FailureStaysLocal, Ebpf!FailureStaysLocal

\* The channel of the probe source is closed by the last goroutine, so the loop ends
\* with every pod in the map, each with its three probes.
THEOREM EveryPodIsAnswered == Spec => EveryPodAnswered
<1>1. ASSUME IInv, Next, latencySourceType = "probe", call.pc = "asked", call'.pc = "none"
      PROVE  Prober!AnswersAll
  <2>1. Prober!Return
    BY <1>1 DEF Next, ByEbpf, ByProber, Prober!Next, Prober!GetLatencies, Prober!Begin,
                Prober!Probe, Prober!Finish, Prober!Close, Prober!Take
  <2>2. outcome' = [err |-> FALSE, stats |-> stats]
    BY <2>1 DEF Prober!Return
  <2>3. Probing
    BY <1>1 DEF IInv
  <2>4. DOMAIN stats = call.podIPs
    BY <1>1, <2>1, <2>3, AllAnswered
  <2>5. \A ip \in DOMAIN stats : stats[ip].SampleCount = 3
    BY <2>3 DEF Probing, StatOf
  <2> QED BY <2>2, <2>4, <2>5 DEF Prober!AnswersAll, Prober!probeSamplesPerRound
<1>2. IInv /\ [Next]_vars => [latencySourceType = "probe" => Prober!AnswersAll]_vars
  BY <1>1 DEF Prober!AnswersAll
<1> QED BY <1>2, Invariant, PTL DEF Spec, EveryPodAnswered

\* Both sources implement the interface: the steps before the last are internal.
THEOREM SourcesKeepThePromise == Spec => KeepsThePromise
<1>1. Init => Promise!Init
  BY DEF Init, Ebpf!Init, Ebpf!NoCall, Ebpf!NoOutcome, Ebpf!Nothing, Promise!Init,
         Promise!NoCall, Promise!NoOutcome, Promise!Nothing
<1>2. ASSUME IInv, ByEbpf(Ebpf!Next) PROVE [Promise!Next]_Promise!vars
  <2>1. CASE Ebpf!Next /\ ~Ebpf!Return /\ ~\E podIPs \in SUBSET PodIP : Ebpf!Begin(podIPs)
    BY <2>1 DEF Ebpf!Next, Ebpf!GetLatencies, Ebpf!Fetch, Ebpf!Take, Ebpf!Agents,
                Ebpf!ToggleAgent, Ebpf!UpdateAgentEndpoints, Promise!vars
  <2>2. ASSUME NEW podIPs \in SUBSET PodIP, Ebpf!Begin(podIPs) PROVE Promise!Ask(podIPs)
    BY <2>2 DEF Ebpf!Begin, Promise!Ask, Ebpf!NoOutcome, Promise!NoOutcome, Ebpf!Nothing,
                Promise!Nothing
  <2>3. CASE Ebpf!Return
    <3>1. /\ call.pc = "asked" /\ call' = Promise!NoCall
          /\ outcome' = Ebpf!Verdict(aggregated, lastErr)
      BY <2>3 DEF Ebpf!Return, Ebpf!NoCall, Promise!NoCall
    <3>2. DOMAIN aggregated \subseteq Promise!Within(call.podIPs)
      <4>1. aggregated \in UNION {[ips -> Reading] : ips \in SUBSET Promise!Within(call.podIPs)}
        BY <1>2, <3>1 DEF IInv, Gathering, Answers
      <4> QED BY <4>1, PartialMap
    <3> QED BY <3>1, <3>2 DEF Ebpf!Verdict, Ebpf!Nothing, Promise!Answer, Promise!Next
  <2> QED BY <1>2, <2>1, <2>2, <2>3 DEF ByEbpf, Promise!Next
<1>3. ASSUME IInv, ByProber(Prober!Next) PROVE [Promise!Next]_Promise!vars
  <2>1. CASE /\ Prober!Next /\ ~Prober!Return
             /\ ~\E podIPs \in SUBSET PodIP : Prober!Begin(podIPs)
    BY <2>1 DEF Prober!Next, Prober!GetLatencies, Prober!Probe, Prober!Finish, Prober!Take,
                Prober!Close, Promise!vars
  <2>2. ASSUME NEW podIPs \in SUBSET PodIP, Prober!Begin(podIPs) PROVE Promise!Ask(podIPs)
    BY <2>2 DEF Prober!Begin, Promise!Ask, Prober!NoOutcome, Promise!NoOutcome,
                Prober!Nothing, Promise!Nothing
  <2>3. CASE Prober!Return
    <3>1. /\ call.pc = "asked" /\ call' = Promise!NoCall
          /\ outcome' = [err |-> FALSE, stats |-> stats]
      BY <2>3 DEF Prober!Return, Prober!NoCall, Promise!NoCall
    <3>2. DOMAIN stats = call.podIPs
      BY <1>3, <2>3, AllAnswered DEF IInv, ByProber
    <3>3. call.podIPs \subseteq Promise!Within(call.podIPs)
      BY <1>3 DEF IInv, Asking, Promise!Within
    <3> QED BY <3>1, <3>2, <3>3 DEF Promise!Answer, Promise!Next
  <2> QED BY <1>3, <2>1, <2>2, <2>3 DEF ByProber, Promise!Next
<1>4. IInv /\ [Next]_vars => [Promise!Next]_Promise!vars
  BY <1>2, <1>3 DEF Next, vars, Promise!vars
<1> QED BY <1>1, <1>4, Invariant, PTL DEF Spec, KeepsThePromise, Promise!Spec

=============================================================================
