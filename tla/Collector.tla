------------------------------- MODULE Collector -------------------------------
(***************************************************************************)
(* ebpf.Collector and ParseLatencyEvent: what one ring buffer record does  *)
(* to the samples of a pod IP, and the statistics over those samples.      *)
(*                                                                         *)
(* A record is read as a sequence of 32-bit words; Word is the number of   *)
(* values of a word, so a small Word stands for 2^32.                      *)
(***************************************************************************)
EXTENDS Ordering

\* struct latency_event as the compiler lays it out: the 64-bit rtt_ns is
\* aligned to 8 bytes, so 4 bytes of padding follow the two ports.  The ports and
\* the source address are left out; ip is dst_ip.
latency_event(ip, padding, rtt_ns, timestamp_ns, Word) ==
    [ip    |-> ip,
     words |-> <<padding, rtt_ns % Word, rtt_ns \div Word,
                 timestamp_ns % Word, timestamp_ns \div Word>>]

\* ParseLatencyEvent: RTTNs is bytes 12 to 19, the words after the ports.
ParseLatencyEvent(record, Word) ==
    [DstIP |-> record.ip,
     RTTNs |-> record.words[1] + record.words[2] * Word]

\* Mutant: the newest samples are dropped instead of the oldest.
MutantDropNewest(samples, rtt, maxSamples) ==
    LET all == Append(samples, rtt) IN
    IF Len(all) > maxSamples THEN SubSeq(all, 1, maxSamples) ELSE all

\* RecordEvent on the samples of one IP: append, then keep the latest.
RecordSample(samples, rtt, maxSamples) ==
    LET all == Append(samples, rtt) IN
    IF Len(all) > maxSamples
    THEN SubSeq(all, Len(all) - maxSamples + 1, Len(all)) ELSE all

\* Mutant: the interpolation starts from the upper neighbour.
MutantPercentile(samples, pct) ==
    LET rank  == pct * (Len(samples) - 1)
        lower == rank \div 100
        upper == IF rank % 100 = 0 THEN lower ELSE lower + 1
    IN  Smallest(samples, upper)
        + ((rank % 100) * (Smallest(samples, upper) - Smallest(samples, lower))) \div 100

\* percentileUint64: linear interpolation between the two nearest ranks, in whole
\* nanoseconds.  rank is 100 times the float64 of the code.
percentileUint64(samples, pct) ==
    LET rank  == pct * (Len(samples) - 1)
        lower == rank \div 100
        upper == IF rank % 100 = 0 THEN lower ELSE lower + 1
    IN  Smallest(samples, lower)
        + ((rank % 100) * (Smallest(samples, upper) - Smallest(samples, lower))) \div 100

\* GetStats for one IP that has samples, before the division to microseconds.
Stats(samples) == [P50 |-> percentileUint64(samples, 50),
                   P99 |-> percentileUint64(samples, 99),
                   SampleCount |-> Len(samples)]

=============================================================================
