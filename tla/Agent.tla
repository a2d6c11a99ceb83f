--------------------------------- MODULE Agent ---------------------------------
(***************************************************************************)
(* The node agent: the two kernel probes of tcp_latency.c, the ring buffer *)
(* between kernel and user space, the reader loop of Loader.Run and the    *)
(* Collector that the HTTP handler reads, in a process that loads,         *)
(* attaches, shuts down, dies and is started again (Loader).               *)
(*                                                                         *)
(* kprobe_tcp_sendmsg runs before the socket is locked, so it may run on   *)
(* another CPU between any two statements of kprobe_tcp_rcv_established    *)
(* for the same flow; the latter runs with the socket locked, once at a    *)
(* time per flow.  Several flows may have one destination IP, which is all *)
(* of the flow that the collector uses.  The in-kernel aggregation         *)
(* per_ip_latency is written and never read, and left out.                 *)
(***************************************************************************)
EXTENDS Collector, Loader, FiniteSetsExt

CONSTANTS Flow,          \* TCP flows
          Dst,           \* flow -> its destination IP
          MaxEntries,    \* MAX_ENTRIES of tcp_send_timestamps
          RingSize,      \* records that fit into the ring buffer
          MaxRTT,        \* the 30 seconds above which an RTT is dropped
          Word,          \* values of a 32-bit word
          maxSamples,    \* the cap of RecordEvent
          MaxClock,      \* bound: how long the clock runs
          MaxRecords     \* bound: records one process puts into the ring buffer

ASSUME AgentAssumption ==
    /\ {MaxEntries, RingSize, MaxRTT, maxSamples, MaxClock, MaxRecords} \subseteq Nat
    /\ Word \in Nat /\ Word > 1 /\ maxSamples > 0 /\ MaxClock > 0
    /\ MaxClock < Word * Word - MaxRTT       \* the clock does not wrap around

IPs == {Dst[f] : f \in Flow}

VARIABLES
    clock,       \* bpf_ktime_get_ns
    sent,        \* tcp_send_timestamps: flow -> timestamp
    probe,       \* per flow: where kprobe_tcp_rcv_established is
    ring,        \* the ring buffer, oldest record first
    samples,     \* Collector.samples
    rtts,        \* history: per IP the RTTs put into the ring buffer
    parsed       \* history: per IP the RTTs taken out of it

kernelVars == <<sent, probe, ring, rtts>>
collectorVars == <<samples, parsed>>
vars == <<clock, kernelVars, collectorVars, loaderVars>>

\* A __u64.
U64(n) == n % (Word * Word)

Resting == [pc |-> "rest", now |-> 0, rtt |-> 0]

\* No process: no program is attached, no map exists, no sample is kept.
NoKernel == [sent |-> [f \in {} |-> 0], probe |-> [f \in Flow |-> Resting],
             ring |-> <<>>, rtts |-> [ip \in IPs |-> <<>>]]
NoCollector == [samples |-> [ip \in IPs |-> <<>>], parsed |-> [ip \in IPs |-> <<>>]]

Init == /\ clock = 1
        /\ sent = NoKernel.sent /\ probe = NoKernel.probe
        /\ ring = NoKernel.ring /\ rtts = NoKernel.rtts
        /\ samples = NoCollector.samples /\ parsed = NoCollector.parsed
        /\ LoaderInit

-----------------------------------------------------------------------------
(* The kernel.                                                             *)

Advance == /\ clock < MaxClock /\ clock' = clock + 1
           /\ UNCHANGED <<kernelVars, collectorVars, loaderVars>>

\* kprobe_tcp_sendmsg: BPF_ANY overwrites; a full map refuses a new flow.
Send(f) ==
    /\ "send" \in held
    /\ f \in DOMAIN sent \/ Cardinality(DOMAIN sent) < MaxEntries
    /\ sent' = [g \in DOMAIN sent \cup {f} |-> IF g = f THEN clock ELSE sent[g]]
    /\ UNCHANGED <<clock, probe, ring, rtts, collectorVars, loaderVars>>

\* kprobe_tcp_rcv_established up to now = bpf_ktime_get_ns().
Receive(f) ==
    /\ "recv" \in held
    /\ probe[f].pc = "rest" /\ f \in DOMAIN sent
    /\ probe' = [probe EXCEPT ![f] = [pc |-> "computing", now |-> clock, rtt |-> 0]]
    /\ UNCHANGED <<clock, sent, ring, rtts, collectorVars, loaderVars>>

\* rtt_ns = now - *send_ts.  A send after now may have updated the flow's element:
\* in place, as here, is the worst case (a hash map puts a new element, and the
\* pointer keeps the old one, unless that is used again).
Compute(f) ==
    /\ probe[f].pc = "computing"
    /\ probe' = [probe EXCEPT ![f].pc = "submitting",
                              ![f].rtt = U64(probe[f].now - sent[f])]
    /\ UNCHANGED <<clock, sent, ring, rtts, collectorVars, loaderVars>>

\* Mutant: an RTT is not compared with 30 seconds.
MutantNoLimit(rtt) == TRUE

Plausible(rtt) == rtt <= MaxRTT

\* The records written to the ring buffer so far.
Submitted == MapThenSumSet(LAMBDA ip : Len(rtts[ip]), IPs)

\* Delete the timestamp; submit an event unless the RTT is implausible or the
\* ring buffer is full.  The padding of the event is whatever memory held.
Submit(f) ==
    LET rtt  == probe[f].rtt
        emit == Plausible(rtt) /\ Len(ring) < RingSize
    IN  /\ probe[f].pc = "submitting"
        /\ Submitted < MaxRecords
        /\ sent' = [g \in DOMAIN sent \ {f} |-> sent[g]]
        /\ probe' = [probe EXCEPT ![f] = Resting]
        /\ \/ /\ emit
              /\ \E padding \in 0..(Word - 1) :
                    ring' = Append(ring, latency_event(Dst[f], padding, rtt,
                                                       probe[f].now, Word))
              /\ rtts' = [rtts EXCEPT ![Dst[f]] = Append(@, rtt)]
           \/ ~emit /\ UNCHANGED <<ring, rtts>>
        /\ UNCHANGED <<clock, collectorVars, loaderVars>>

-----------------------------------------------------------------------------
(* The process.                                                            *)

\* One turn of Loader.Run: Read, ParseLatencyEvent, RecordEvent.
Run ==
    /\ loop = "reading" /\ "reader" \in held
    /\ ring # <<>>
    /\ ring' = Tail(ring)
    /\ LET evt == ParseLatencyEvent(Head(ring), Word)
           ip  == evt.DstIP
       IN  /\ samples' = [samples EXCEPT ![ip] = RecordSample(@, evt.RTTNs, maxSamples)]
           /\ parsed' = [parsed EXCEPT ![ip] = Append(@, evt.RTTNs)]
    /\ UNCHANGED <<clock, sent, probe, rtts, loaderVars>>

\* The last reference to the programs is gone, and with it their maps.
Detach == /\ sent' = NoKernel.sent /\ probe' = NoKernel.probe
          /\ ring' = NoKernel.ring /\ rtts' = NoKernel.rtts

\* Close of a resource; with the last one, the collection, the maps are gone.
Unload == /\ CloseNext
          /\ IF held' = {} THEN Detach ELSE UNCHANGED kernelVars
          /\ UNCHANGED <<clock, collectorVars>>

\* The end of the process takes the collector's samples along.
Die == /\ Exit /\ Detach
       /\ samples' = NoCollector.samples /\ parsed' = NoCollector.parsed
       /\ UNCHANGED clock

Proceed == LoaderStep /\ UNCHANGED <<clock, kernelVars, collectorVars>>

Next == \/ Advance \/ Run \/ Unload \/ Die \/ Proceed
        \/ \E f \in Flow : Send(f) \/ Receive(f) \/ Compute(f) \/ Submit(f)

Spec == Init /\ [][Next]_vars

\* The goroutines of Run are scheduled, and a read of an open ring buffer that
\* holds a record does not fail for ever.  Nothing is assumed of main, which may
\* wait in Shutdown, nor of the kernel.
FairSpec ==
    /\ Spec
    /\ SF_vars(Run)
    /\ WF_vars((Begin \/ Watch \/ ReadClosed \/ HandleError) /\ Proceed)

-----------------------------------------------------------------------------
\* Every RTT that leaves the kernel is a real one: not above the limit, and not
\* the wrapped-around difference that a send between the two clock readings of a
\* receive leaves behind; an RTT longer than the node has run would be one.
RTTsAreReal ==
    \A ip \in IPs : \A i \in DOMAIN rtts[ip] :
        rtts[ip][i] <= MaxRTT /\ rtts[ip][i] < clock

\* The collector holds, for each IP, exactly the latest readings it was handed, in
\* their order, whichever flow they came from, and no more than its cap.
SamplesAreTheLatest ==
    \A ip \in IPs :
        LET n == Len(parsed[ip])
            first == IF n > maxSamples THEN n - maxSamples + 1 ELSE 1
        IN  samples[ip] = SubSeq(parsed[ip], first, n)

\* The statistics served for an IP are ordered and lie within its samples: the
\* interpolation of percentileUint64 never leaves the range it works on.
StatsWithinSamples ==
    \A ip \in IPs : samples[ip] # <<>> =>
        LET stats == Stats(samples[ip])
        IN  /\ Smallest(samples[ip], 0) <= stats.P50
            /\ stats.P50 <= stats.P99
            /\ stats.P99 <= Smallest(samples[ip], stats.SampleCount - 1)

\* collector.go: "LatencyEvent mirrors the BPF latency_event struct."  The RTTs
\* the collector is handed for an IP are the RTTs the kernel measured for it.
EventsAreMirrored ==
    \A ip \in IPs : \A i \in DOMAIN parsed[ip] : parsed[ip][i] = rtts[ip][i]

\* While the process serves, what the kernel puts into the ring buffer is taken
\* out again and again: a failing read does not end the reader goroutine.
RecordsGetRead == []<>(ring = <<>> \/ main # "serving")

\* Once the context is cancelled the reader goroutine returns, even if main waits
\* in Shutdown for ever and whenever the watcher gets to close the reader under
\* the loop; only the end of the process may come first.
ReaderReturns == cancelled ~> (loop = "returned" \/ main = "down")

\* When Load has returned an error it holds nothing, whichever of its steps failed
\* and took its own error path; when Close has returned, no probe is attached and
\* no reader open, however it and the watcher raced for the reader.
ReleasedOnReturn ==
    /\ main = "failed" => held = {}
    /\ main = "closed" => held \subseteq {"coll"}

=============================================================================
