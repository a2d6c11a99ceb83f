------------------------------ MODULE AgentProofs ------------------------------
(***************************************************************************)
(* What the node agent measures and keeps, for any number of flows, pods,  *)
(* records and any sizes of its buffers.                                   *)
(*                                                                         *)
(* The argument for the RTTs: both clock readings of a receive lie between *)
(* 1 and the present clock, so their difference is either less than the    *)
(* clock or, after a send that overwrote the first one, wraps around to a  *)
(* number above the limit; and a probe that has read the clock finds its   *)
(* timestamp, since only the probe of the same flow deletes it.            *)
(*                                                                         *)
(* For what is released: on an error path of Load, whatever is still held  *)
(* is among what the path closes yet; the same holds of Close but for the  *)
(* collection.                                                             *)
(***************************************************************************)
EXTENDS Agent, OrderingProofs

-----------------------------------------------------------------------------
(* The inductive invariant.                                                *)

\* The probe of a flow: how far it is and what it has read.
Measures(f) ==
    LET p == probe[f]
    IN  /\ p = [pc |-> p.pc, now |-> p.now, rtt |-> p.rtt]
        /\ p.pc \in {"rest", "computing", "submitting"}
        /\ p.pc # "rest" => f \in DOMAIN sent
        /\ p.pc = "computing" => p.now \in 1..clock
        /\ p.pc = "submitting" =>
              p.now \in 1..clock /\ p.rtt \in Nat /\ (Plausible(p.rtt) => p.rtt < clock)

\* A record of the ring buffer.
Record == [ip : IPs, words : [1..5 -> Nat]]

Kernel ==
    /\ clock \in 1..MaxClock
    /\ \A f \in DOMAIN sent : sent[f] \in 1..clock
    /\ DOMAIN probe = Flow /\ \A f \in Flow : Measures(f)
    /\ ring \in Seq(Record)
    /\ rtts \in [IPs -> Seq(Nat)]
    /\ RTTsAreReal

Kept ==
    /\ samples \in [IPs -> Seq(Nat)] /\ parsed \in [IPs -> Seq(Nat)]
    /\ SamplesAreTheLatest

\* What the process holds, against what its return closes yet.
Resource == {"coll", "send", "recv", "reader"}

Releasing ==
    /\ held \subseteq Resource /\ toClose \in Seq(Resource)
    /\ main = "failing" => held \subseteq Range(toClose)
    /\ main = "failed" => held = {}
    /\ main = "closing" => held \subseteq {"coll"} \cup Range(toClose)
    /\ main = "closed" => held \subseteq {"coll"}

IInv == Kernel /\ Kept /\ Releasing

-----------------------------------------------------------------------------
(* Arithmetic.                                                             *)

\* A remainder, written as it is in the next two lemmas.
LEMMA Remainder ==
    ASSUME NEW d \in Int, NEW m \in Nat \ {0}
    PROVE  /\ d % m \in 0..(m - 1) /\ d \div m \in Int
           /\ d = m * (d \div m) + (d % m)
OBVIOUS

\* The difference of two clock readings as a __u64.
LEMMA Difference ==
    ASSUME NEW m \in Nat \ {0}, NEW d \in Int
    PROVE  /\ 0 <= d /\ d < m => d % m = d
           /\ d < 0 /\ -m <= d => d % m = d + m
OBVIOUS

\* A __u64 difference of readings up to now is no implausible number, or shorter
\* than the node has run.
LEMMA RealDifference ==
    ASSUME NEW c \in 1..MaxClock, NEW now \in 1..c, NEW before \in 1..c
    PROVE  /\ U64(now - before) \in Nat
           /\ Plausible(U64(now - before)) => U64(now - before) < c
<1> DEFINE m == Word * Word
           d == now - before
<1>1. m \in Nat \ {0} /\ MaxClock < m - MaxRTT /\ MaxRTT \in Nat /\ MaxClock \in Nat
  <2>1. /\ Word \in Nat /\ Word > 1 /\ MaxRTT \in Nat /\ MaxClock \in Nat
        /\ MaxClock < Word * Word - MaxRTT
    BY AgentAssumption
  <2>2. Word * Word \in Nat /\ Word * Word # 0
    BY <2>1
  <2> QED BY <2>1, <2>2
<1> HIDE DEF m
<1>2. d \in Int /\ d < c /\ -c < d
  OBVIOUS
<1>3. U64(d) = d % m
  BY DEF U64, m
<1>4. 0 <= d => d % m = d
  BY <1>1, <1>2, Difference
<1>5. d < 0 => d % m = d + m
  BY <1>1, <1>2, Difference
<1> HIDE DEF d
<1>6. U64(d) \in Nat /\ (U64(d) <= MaxRTT => U64(d) < c)
  BY <1>1, <1>2, <1>3, <1>4, <1>5
<1> QED BY <1>6 DEF Plausible, d

\* A part of r hundredths of a distance.
LEMMA PartOfDistance ==
    ASSUME NEW D \in Nat, NEW r \in 0..99
    PROVE  /\ (r * D) \div 100 \in 0..D
           /\ \A q \in r..99 : (r * D) \div 100 <= (q * D) \div 100
<1>1. r * D \in Nat /\ (100 - r) * D \in Nat
  OBVIOUS
<1>2. (100 - r) * D = 100 * D - r * D
  OBVIOUS
<1>3. r * D <= 100 * D
  BY <1>1, <1>2
<1>4. ASSUME NEW q \in r..99 PROVE r * D <= q * D /\ q * D \in Nat
  <2>1. (q - r) * D \in Nat /\ q * D \in Nat
    OBVIOUS
  <2>2. (q - r) * D = q * D - r * D
    OBVIOUS
  <2> QED BY <1>1, <2>1, <2>2
<1>5. \A x, y \in Nat : x <= y => x \div 100 <= y \div 100
  OBVIOUS
<1>6. \A x \in Nat : x <= 100 * D => x \div 100 \in 0..D
  OBVIOUS
<1> QED BY <1>1, <1>3, <1>4, <1>5, <1>6

-----------------------------------------------------------------------------
(* The collector.                                                          *)

\* The latest m members of s.
First(n, m) == IF n > m THEN n - m + 1 ELSE 1

Latest(s, m) == SubSeq(s, First(Len(s), m), Len(s))

\* RecordEvent on the latest samples gives the latest samples.
LEMMA RecordKeepsLatest ==
    ASSUME NEW s \in Seq(Nat), NEW v \in Nat, NEW m \in Nat \ {0}
    PROVE  /\ RecordSample(Latest(s, m), v, m) = Latest(Append(s, v), m)
           /\ Latest(Append(s, v), m) \in Seq(Nat)
<1> DEFINE n == Len(s)
           old == Latest(s, m)
           t == Append(s, v)
           all == Append(old, v)
<1>1. /\ n \in Nat /\ t \in Seq(Nat) /\ Len(t) = n + 1 /\ t[n + 1] = v
      /\ \A k \in 1..n : t[k] = s[k]
  OBVIOUS
<1>2. CASE n < m
  <2>1. old = s
    <3>1. First(n, m) = 1
      BY <1>1, <1>2 DEF First
    <3> QED BY <1>1, <3>1 DEF Latest
  <2>2. Latest(t, m) = t
    <3>1. First(n + 1, m) = 1
      BY <1>1, <1>2 DEF First
    <3> QED BY <1>1, <3>1 DEF Latest
  <2>3. RecordSample(old, v, m) = t
    BY <1>1, <1>2, <2>1 DEF RecordSample
  <2> QED BY <1>1, <2>2, <2>3
<1>3. CASE n >= m
  <2>1. old = SubSeq(s, n - m + 1, n)
    <3>1. First(n, m) = n - m + 1
      BY <1>1, <1>3 DEF First
    <3> QED BY <3>1 DEF Latest
  <2>2. /\ old \in Seq(Nat) /\ Len(old) = m
        /\ \A k \in 1..m : old[k] = s[n - m + k]
    BY <1>1, <1>3, <2>1
  <2> HIDE DEF old, t
  <2>3. /\ all \in Seq(Nat) /\ Len(all) = m + 1 /\ all[m + 1] = v
        /\ \A k \in 1..m : all[k] = old[k]
    BY <2>2
  <2> HIDE DEF all
  <2>4. RecordSample(old, v, m) = SubSeq(all, 2, m + 1)
    <3>1. Len(all) > m /\ Len(all) - m + 1 = 2
      BY <2>3
    <3> QED BY <2>3, <3>1 DEF RecordSample, all
  <2>5. Latest(t, m) = SubSeq(t, n - m + 2, n + 1)
    <3>1. First(n + 1, m) = n - m + 2
      BY <1>1, <1>3 DEF First
    <3> QED BY <1>1, <3>1 DEF Latest
  <2>6. /\ SubSeq(all, 2, m + 1) \in Seq(Nat) /\ Len(SubSeq(all, 2, m + 1)) = m
        /\ \A k \in 1..m : SubSeq(all, 2, m + 1)[k] = all[k + 1]
    BY <2>3
  <2>7. /\ SubSeq(t, n - m + 2, n + 1) \in Seq(Nat) /\ Len(SubSeq(t, n - m + 2, n + 1)) = m
        /\ \A k \in 1..m : SubSeq(t, n - m + 2, n + 1)[k] = t[n - m + 1 + k]
    <3>1. n - m + 2 \in 1..Len(t) /\ n + 1 \in 1..Len(t) /\ n + 1 - (n - m + 2) + 1 = m
      BY <1>1, <1>3
    <3>2. /\ SubSeq(t, n - m + 2, n + 1) \in Seq(Nat)
          /\ Len(SubSeq(t, n - m + 2, n + 1)) = n + 1 - (n - m + 2) + 1
          /\ \A k \in 1..(n + 1 - (n - m + 2) + 1) :
                SubSeq(t, n - m + 2, n + 1)[k] = t[n - m + 2 + k - 1]
      BY <1>1, <1>3, <3>1, SubSeqProperties
    <3>3. \A k \in 1..m : n - m + 2 + k - 1 = n - m + 1 + k
      BY <1>1
    <3> QED BY <3>1, <3>2, <3>3
  <2>8. ASSUME NEW k \in 1..m PROVE all[k + 1] = t[n - m + 1 + k]
    <3>1. CASE k = m
      BY <1>1, <2>3, <3>1
    <3>2. CASE k < m
      <4>1. k + 1 \in 1..m /\ n - m + (k + 1) \in 1..n
        BY <1>1, <1>3, <3>2
      <4>2. all[k + 1] = s[n - m + (k + 1)]
        BY <2>2, <2>3, <4>1
      <4>3. t[n - m + (k + 1)] = s[n - m + (k + 1)]
        BY <1>1, <4>1
      <4>4. n - m + (k + 1) = n - m + 1 + k
        BY <1>1
      <4> QED BY <4>2, <4>3, <4>4
    <3> QED BY <3>1, <3>2
  <2>9. SubSeq(all, 2, m + 1) = SubSeq(t, n - m + 2, n + 1)
    BY <2>6, <2>7, <2>8, SeqEqual
  <2> QED BY <2>4, <2>5, <2>7, <2>9 DEF t, old
<1> QED BY <1>1, <1>2, <1>3

\* percentileUint64 stays between the two ranks it interpolates.
LEMMA Interpolation ==
    ASSUME NEW s \in Seq(Nat), s # <<>>, NEW pct \in 0..100
    PROVE  LET rank  == pct * (Len(s) - 1)
               lower == rank \div 100
               upper == IF rank % 100 = 0 THEN lower ELSE lower + 1
               D == Smallest(s, upper) - Smallest(s, lower)
           IN  /\ lower \in 0..(Len(s) - 1) /\ upper \in 0..(Len(s) - 1) /\ lower <= upper
               /\ Smallest(s, lower) \in Int /\ Smallest(s, upper) \in Int /\ D \in Nat
               /\ percentileUint64(s, pct) \in Int
               /\ percentileUint64(s, pct) = Smallest(s, lower) + ((rank % 100) * D) \div 100
               /\ Smallest(s, lower) <= percentileUint64(s, pct)
               /\ percentileUint64(s, pct) <= Smallest(s, upper)
<1> DEFINE n == Len(s) - 1
           rank == pct * n
           lower == rank \div 100
           upper == IF rank % 100 = 0 THEN lower ELSE lower + 1
           D == Smallest(s, upper) - Smallest(s, lower)
           part == ((rank % 100) * D) \div 100
<1> SUFFICES
      /\ lower \in 0..n /\ upper \in 0..n /\ lower <= upper
      /\ Smallest(s, lower) \in Int /\ Smallest(s, upper) \in Int /\ D \in Nat
      /\ Smallest(s, lower) + part \in Int
      /\ Smallest(s, lower) <= Smallest(s, lower) + part
      /\ Smallest(s, lower) + part <= Smallest(s, upper)
  BY DEF percentileUint64
<1>1. n \in Nat /\ s \in Seq(Int)
  OBVIOUS
<1>2. rank \in Nat /\ rank <= 100 * n
  <2>1. pct * n \in Nat /\ (100 - pct) * n \in Nat
    BY <1>1
  <2>2. (100 - pct) * n = 100 * n - pct * n
    BY <1>1
  <2> QED BY <1>1, <2>1, <2>2
<1> HIDE DEF rank
<1>3. /\ lower \in Nat /\ rank % 100 \in 0..99
      /\ rank = 100 * lower + (rank % 100)
  BY <1>2
<1> HIDE DEF lower, n
<1>4. lower \in 0..n /\ upper \in 0..n /\ lower <= upper
  BY <1>1, <1>2, <1>3
<1> HIDE DEF upper
<1>5. Smallest(s, lower) \in Int /\ Smallest(s, upper) \in Int
  BY <1>1, <1>4, SmallestRank DEF n
<1>6. Smallest(s, lower) <= Smallest(s, upper)
  BY <1>1, <1>4, SmallestIncreases DEF n
<1>7. D \in Nat
  BY <1>5, <1>6
<1> HIDE DEF D
<1>8. part \in 0..D
  BY <1>3, <1>7, PartOfDistance
<1> HIDE DEF part
<1>9. Smallest(s, upper) = Smallest(s, lower) + D
  BY <1>5 DEF D
<1> QED BY <1>4, <1>5, <1>7, <1>8, <1>9

\* The ranks of the two percentiles, in hundredths.
LEMMA Ranks ==
    ASSUME NEW n \in Nat
    PROVE  /\ (50 * n) % 100 \in 0..99 /\ (99 * n) % 100 \in 0..99
           /\ (50 * n) \div 100 \in Nat /\ (99 * n) \div 100 \in Nat
           /\ (50 * n) \div 100 <= (99 * n) \div 100
           /\ (50 * n) \div 100 = (99 * n) \div 100 => (50 * n) % 100 <= (99 * n) % 100
<1>1. ASSUME NEW a \in Nat, NEW b \in Nat, a <= b
      PROVE  /\ a % 100 \in 0..99 /\ b % 100 \in 0..99
             /\ a \div 100 \in Nat /\ b \div 100 \in Nat /\ a \div 100 <= b \div 100
             /\ a \div 100 = b \div 100 => a % 100 <= b % 100
  BY <1>1
<1>2. 50 * n \in Nat /\ 99 * n \in Nat /\ 50 * n <= 99 * n
  OBVIOUS
<1> QED BY <1>1, <1>2

\* The statistics of any samples are ordered and within them.
LEMMA StatsOrdered ==
    ASSUME NEW s \in Seq(Nat), s # <<>>
    PROVE  /\ Smallest(s, 0) <= percentileUint64(s, 50)
           /\ percentileUint64(s, 50) <= percentileUint64(s, 99)
           /\ percentileUint64(s, 99) <= Smallest(s, Len(s) - 1)
<1> DEFINE n == Len(s) - 1
           m50 == (50 * n) % 100
           l50 == (50 * n) \div 100
           u50 == IF m50 = 0 THEN l50 ELSE l50 + 1
           m99 == (99 * n) % 100
           l99 == (99 * n) \div 100
           u99 == IF m99 = 0 THEN l99 ELSE l99 + 1
           P50 == percentileUint64(s, 50)
           P99 == percentileUint64(s, 99)
<1>1. /\ l50 \in 0..n /\ u50 \in 0..n /\ Smallest(s, l50) \in Int /\ Smallest(s, u50) \in Int
      /\ P50 \in Int /\ Smallest(s, l50) <= P50 /\ P50 <= Smallest(s, u50)
      /\ P50 = Smallest(s, l50) + (m50 * (Smallest(s, u50) - Smallest(s, l50))) \div 100
      /\ Smallest(s, u50) - Smallest(s, l50) \in Nat
  BY Interpolation
<1>2. /\ l99 \in 0..n /\ u99 \in 0..n /\ Smallest(s, l99) \in Int /\ Smallest(s, u99) \in Int
      /\ P99 \in Int /\ Smallest(s, l99) <= P99 /\ P99 <= Smallest(s, u99)
      /\ P99 = Smallest(s, l99) + (m99 * (Smallest(s, u99) - Smallest(s, l99))) \div 100
  BY Interpolation
<1>3. s \in Seq(Int) /\ n \in Nat
  OBVIOUS
<1>4. /\ m50 \in 0..99 /\ m99 \in 0..99 /\ l50 \in Nat /\ l99 \in Nat /\ l50 <= l99
      /\ l50 = l99 => m50 <= m99
  BY <1>3, Ranks
<1>5. 0 \in 0..n /\ n \in 0..n
  BY <1>3
<1>6. Smallest(s, 0) \in Int /\ Smallest(s, n) \in Int
  BY <1>3, <1>5, SmallestRank
<1>7. Smallest(s, 0) <= Smallest(s, l50)
  BY <1>1, <1>3, <1>4, <1>5, SmallestIncreases
<1>8. Smallest(s, u99) <= Smallest(s, n)
  BY <1>2, <1>3, <1>5, SmallestIncreases
<1> HIDE DEF P50, P99, m50, m99, l50, l99
<1>9. P50 <= P99
  <2>1. CASE u50 <= l99
    <3>1. Smallest(s, u50) <= Smallest(s, l99)
      BY <1>1, <1>2, <1>3, <2>1, SmallestIncreases
    <3> HIDE DEF u50, u99
    <3> QED BY <1>1, <1>2, <3>1
  <2>2. CASE ~(u50 <= l99)
    <3>1. l50 = l99 /\ m50 # 0 /\ m99 # 0 /\ u50 = u99
      BY <1>4, <2>2
    <3> HIDE DEF u50, u99
    <3> DEFINE D == Smallest(s, u50) - Smallest(s, l50)
               d50 == (m50 * D) \div 100
               d99 == (m99 * D) \div 100
    <3>2. m99 \in m50..99
      BY <1>4, <3>1
    <3>3. d50 <= d99 /\ d50 \in Int /\ d99 \in Int
      <4>1. D \in Nat
        BY <1>1
      <4> HIDE DEF D
      <4>2. d50 \in 0..D /\ d99 \in 0..D
        BY <1>4, <4>1, PartOfDistance
      <4>3. d50 <= d99
        BY <1>4, <3>2, <4>1, PartOfDistance
      <4> QED BY <4>1, <4>2, <4>3
    <3>4. P50 = Smallest(s, l50) + d50 /\ P99 = Smallest(s, l50) + d99
      BY <1>1, <1>2, <3>1
    <3> HIDE DEF d50, d99
    <3> QED BY <1>1, <3>3, <3>4
  <2> QED BY <2>1, <2>2
<1> HIDE DEF u50, u99
<1>10. Smallest(s, 0) <= P50
  BY <1>1, <1>6, <1>7
<1>11. P99 <= Smallest(s, n)
  BY <1>2, <1>6, <1>8
<1> QED BY <1>9, <1>10, <1>11 DEF P50, P99

-----------------------------------------------------------------------------
(* The steps.                                                              *)

\* The clock advances.
LEMMA AdvanceHolds == IInv /\ Advance => IInv'
<1> SUFFICES ASSUME IInv, Advance PROVE IInv'
  OBVIOUS
<1>1. /\ clock < MaxClock /\ clock' = clock + 1
      /\ UNCHANGED <<sent, probe, ring, rtts, samples, parsed, main, held, toClose>>
  BY DEF Advance, kernelVars, collectorVars, loaderVars
<1>2. clock \in 1..MaxClock /\ clock' \in 1..MaxClock
  BY <1>1, AgentAssumption DEF IInv, Kernel
<1>3. \A x \in 1..clock : x \in 1..clock'
  BY <1>1, <1>2
<1>4. \A f \in Flow : Measures(f)'
  <2>1. ASSUME NEW f \in Flow PROVE Measures(f)'
    <3>1. Measures(f)
      BY DEF IInv, Kernel
    <3>2. \A r \in Nat : r < clock => r < clock'
      BY <1>1, <1>2
    <3> QED BY <1>1, <1>3, <3>1, <3>2 DEF Measures
  <2> QED BY <2>1
<1>5. RTTsAreReal'
  <2>1. ASSUME NEW ip \in IPs, NEW i \in DOMAIN rtts[ip]
        PROVE  rtts[ip][i] <= MaxRTT /\ rtts[ip][i] < clock'
    <3>1. rtts[ip] \in Seq(Nat)
      BY DEF IInv, Kernel
    <3>2. rtts[ip][i] \in Nat
      BY <3>1
    <3>3. rtts[ip][i] <= MaxRTT /\ rtts[ip][i] < clock
      BY DEF IInv, Kernel, RTTsAreReal
    <3> QED BY <1>1, <1>2, <3>2, <3>3
  <2> QED BY <1>1, <2>1 DEF RTTsAreReal
<1>6. \A f \in DOMAIN sent' : sent'[f] \in 1..clock'
  BY <1>1, <1>3 DEF IInv, Kernel
<1>7. Kernel'
  BY <1>1, <1>2, <1>4, <1>5, <1>6 DEF IInv, Kernel
<1> QED BY <1>1, <1>7 DEF IInv, Kept, SamplesAreTheLatest, Releasing

\* The collector and the process do not change in a step of the probes.
Elsewhere == UNCHANGED <<clock, samples, parsed, main, held, toClose>>

\* A step of the probes has to preserve the part of the kernel.
LEMMA OnlyKernel == IInv /\ Elsewhere /\ Kernel' => IInv'
BY DEF Elsewhere, IInv, Kept, SamplesAreTheLatest, Releasing

\* A send overwrites the timestamp of its flow, under a probe of the flow too.
LEMMA SendHolds == ASSUME NEW f \in Flow PROVE IInv /\ Send(f) => IInv'
<1> SUFFICES ASSUME IInv, Send(f) PROVE IInv'
  OBVIOUS
<1>1. Elsewhere /\ UNCHANGED <<probe, ring, rtts>>
  BY DEF Send, Elsewhere, collectorVars, loaderVars
<1>2. clock' = clock /\ clock \in 1..MaxClock /\ clock \in 1..clock
  BY <1>1 DEF Elsewhere, IInv, Kernel
<1>3. /\ DOMAIN sent' = DOMAIN sent \cup {f} /\ sent'[f] = clock
      /\ \A g \in DOMAIN sent : g # f => sent'[g] = sent[g]
  BY DEF Send
<1>4. \A g \in DOMAIN sent' : sent'[g] \in 1..clock
  BY <1>2, <1>3 DEF IInv, Kernel
<1>5. \A g \in Flow : Measures(g) => Measures(g)'
  BY <1>1, <1>2, <1>3 DEF Measures
<1>6. Kernel'
  BY <1>1, <1>2, <1>4, <1>5 DEF IInv, Kernel, RTTsAreReal
<1> QED BY <1>1, <1>6, OnlyKernel

\* A receive finds its timestamp and reads the clock.
LEMMA ReceiveHolds == ASSUME NEW f \in Flow PROVE IInv /\ Receive(f) => IInv'
<1> SUFFICES ASSUME IInv, Receive(f) PROVE IInv'
  OBVIOUS
<1>1. Elsewhere /\ UNCHANGED <<sent, ring, rtts>> /\ f \in DOMAIN sent
  BY DEF Receive, Elsewhere, collectorVars, loaderVars
<1>2. clock' = clock /\ clock \in 1..clock
  BY <1>1 DEF Elsewhere, IInv, Kernel
<1>3. /\ DOMAIN probe' = Flow /\ probe'[f] = [pc |-> "computing", now |-> clock, rtt |-> 0]
      /\ \A g \in Flow \ {f} : probe'[g] = probe[g]
  BY DEF Receive, IInv, Kernel
<1>4. \A g \in Flow \ {f} : Measures(g) => Measures(g)'
  BY <1>1, <1>2, <1>3 DEF Measures
<1>5. Measures(f)'
  BY <1>1, <1>2, <1>3 DEF Measures
<1>6. Kernel'
  BY <1>1, <1>2, <1>3, <1>4, <1>5 DEF IInv, Kernel, RTTsAreReal
<1> QED BY <1>1, <1>6, OnlyKernel

\* The subtraction, with whatever timestamp the map holds by now.
LEMMA ComputeHolds == ASSUME NEW f \in Flow PROVE IInv /\ Compute(f) => IInv'
<1> SUFFICES ASSUME IInv, Compute(f) PROVE IInv'
  OBVIOUS
<1> DEFINE r == U64(probe[f].now - sent[f])
<1>1. /\ Elsewhere /\ UNCHANGED <<sent, ring, rtts>> /\ probe[f].pc = "computing"
  BY DEF Compute, Elsewhere, collectorVars, loaderVars
<1>2. /\ f \in DOMAIN sent /\ probe[f].now \in 1..clock /\ sent[f] \in 1..clock
      /\ clock \in 1..MaxClock /\ clock' = clock
      /\ probe[f] = [pc |-> probe[f].pc, now |-> probe[f].now, rtt |-> probe[f].rtt]
  BY <1>1 DEF IInv, Kernel, Measures, Elsewhere
<1>3. /\ DOMAIN probe' = Flow
      /\ probe'[f] = [pc |-> "submitting", now |-> probe[f].now, rtt |-> r]
      /\ \A g \in Flow \ {f} : probe'[g] = probe[g]
  BY <1>2 DEF Compute, IInv, Kernel
<1>4. r \in Nat /\ (Plausible(r) => r < clock)
  BY <1>2, RealDifference
<1> HIDE DEF r
<1>5. \A g \in Flow \ {f} : Measures(g) => Measures(g)'
  BY <1>1, <1>2, <1>3 DEF Measures
<1>6. Measures(f)'
  BY <1>1, <1>2, <1>3, <1>4 DEF Measures, Plausible
<1>7. Kernel'
  BY <1>1, <1>2, <1>3, <1>5, <1>6 DEF IInv, Kernel, RTTsAreReal
<1> QED BY <1>1, <1>7, OnlyKernel

\* A record of a plausible RTT goes into the ring buffer, or none.
LEMMA SubmitHolds == ASSUME NEW f \in Flow PROVE IInv /\ Submit(f) => IInv'
<1> SUFFICES ASSUME IInv, Submit(f) PROVE IInv'
  OBVIOUS
<1> DEFINE rtt == probe[f].rtt
<1>1. Elsewhere /\ probe[f].pc = "submitting"
  BY DEF Submit, Elsewhere, collectorVars, loaderVars
<1>2. /\ clock' = clock /\ rtt \in Nat /\ (Plausible(rtt) => rtt < clock)
      /\ probe[f].now \in Nat
  BY <1>1 DEF IInv, Kernel, Measures, Elsewhere
<1>3. /\ DOMAIN sent' = DOMAIN sent \ {f}
      /\ \A g \in DOMAIN sent \ {f} : sent'[g] = sent[g]
      /\ DOMAIN probe' = Flow /\ probe'[f] = Resting
      /\ \A g \in Flow \ {f} : probe'[g] = probe[g]
  BY DEF Submit, IInv, Kernel
<1>4. \A g \in Flow \ {f} : Measures(g) => Measures(g)'
  BY <1>2, <1>3 DEF Measures
<1>5. Measures(f)'
  BY <1>3 DEF Measures, Resting
<1>6. \A g \in DOMAIN sent' : sent'[g] \in 1..clock
  BY <1>3 DEF IInv, Kernel
<1>7. ring' \in Seq(Record) /\ rtts' \in [IPs -> Seq(Nat)] /\ RTTsAreReal'
  <2>1. CASE UNCHANGED <<ring, rtts>>
    BY <1>2, <2>1 DEF IInv, Kernel, RTTsAreReal
  <2>2. CASE /\ Plausible(rtt) /\ rtts' = [rtts EXCEPT ![Dst[f]] = Append(@, rtt)]
             /\ \E padding \in 0..(Word - 1) :
                   ring' = Append(ring, latency_event(Dst[f], padding, rtt, probe[f].now, Word))
    <3> DEFINE ip == Dst[f]
    <3>1. PICK padding \in 0..(Word - 1) :
             ring' = Append(ring, latency_event(ip, padding, rtt, probe[f].now, Word))
      BY <2>2
    <3>2. ip \in IPs
      BY DEF IPs
    <3>3. Word \in Nat \ {0} /\ MaxRTT \in Nat
      BY AgentAssumption
    <3>4. \A x \in Nat : x % Word \in Nat /\ x \div Word \in Nat
      BY <3>3, Remainder
    <3>5. latency_event(ip, padding, rtt, probe[f].now, Word) \in Record
      <4>1. /\ padding \in Nat /\ rtt % Word \in Nat /\ rtt \div Word \in Nat
            /\ probe[f].now % Word \in Nat /\ probe[f].now \div Word \in Nat
        BY <1>2, <3>3, <3>4
      <4> QED BY <3>2, <4>1 DEF latency_event, Record
    <3>6. ring' \in Seq(Record)
      BY <3>1, <3>5 DEF IInv, Kernel
    <3>7. rtts \in [IPs -> Seq(Nat)] /\ rtts[ip] \in Seq(Nat)
      BY <3>2 DEF IInv, Kernel
    <3>8. /\ rtts' \in [IPs -> Seq(Nat)] /\ rtts'[ip] = Append(rtts[ip], rtt)
          /\ \A x \in IPs : x # ip => rtts'[x] = rtts[x]
      BY <1>2, <2>2, <3>2, <3>7
    <3>9. RTTsAreReal'
      <4>1. ASSUME NEW x \in IPs, NEW i \in DOMAIN rtts'[x]
            PROVE  rtts'[x][i] <= MaxRTT /\ rtts'[x][i] < clock
        <5>1. CASE x # ip
          BY <3>8, <4>1, <5>1 DEF IInv, Kernel, RTTsAreReal
        <5>2. CASE x = ip /\ i \in DOMAIN rtts[ip]
          <6>1. rtts'[x][i] = rtts[ip][i]
            <7>1. \A q \in Seq(Nat) : \A k \in DOMAIN q : Append(q, rtt)[k] = q[k]
              BY <1>2
            <7> QED BY <3>7, <3>8, <5>2, <7>1
          <6> QED BY <3>2, <5>2, <6>1 DEF IInv, Kernel, RTTsAreReal
        <5>3. CASE x = ip /\ i \notin DOMAIN rtts[ip]
          <6>1. rtts'[x][i] = rtt
            BY <1>2, <3>7, <3>8, <4>1, <5>3
          <6> QED BY <1>2, <2>2, <6>1 DEF Plausible
        <5> QED BY <5>1, <5>2, <5>3
      <4> QED BY <1>2, <4>1 DEF RTTsAreReal
    <3> QED BY <3>6, <3>8, <3>9
  <2> QED BY <2>1, <2>2 DEF Submit
<1>8. Kernel'
  BY <1>2, <1>3, <1>4, <1>5, <1>6, <1>7 DEF IInv, Kernel
<1> QED BY <1>1, <1>8, OnlyKernel

\* One turn of the reader loop.
LEMMA RunHolds == IInv /\ Run => IInv'
<1> SUFFICES ASSUME IInv, Run PROVE IInv'
  OBVIOUS
<1> DEFINE rec == Head(ring)
           ip  == rec.ip
           v   == rec.words[1] + rec.words[2] * Word
<1>1. /\ ring # <<>> /\ ring' = Tail(ring)
      /\ UNCHANGED <<clock, sent, probe, rtts, main, held, toClose>>
      /\ samples' = [samples EXCEPT ![ip] = RecordSample(@, v, maxSamples)]
      /\ parsed' = [parsed EXCEPT ![ip] = Append(@, v)]
  BY DEF Run, loaderVars, ParseLatencyEvent
<1>2. rec \in Record /\ ring' \in Seq(Record)
  <2>1. ring \in Seq(Record)
    BY DEF IInv, Kernel
  <2> QED BY <1>1, <2>1, HeadTailProperties
<1> HIDE DEF rec
<1>3. ip \in IPs /\ v \in Nat
  <2>1. rec.words[1] \in Nat /\ rec.words[2] \in Nat /\ Word \in Nat
    BY <1>2, AgentAssumption DEF Record
  <2>2. ip \in IPs
    BY <1>2 DEF Record
  <2> QED BY <2>1, <2>2
<1> HIDE DEF ip, v
<1>4. /\ samples \in [IPs -> Seq(Nat)] /\ parsed \in [IPs -> Seq(Nat)]
      /\ \A x \in IPs : samples[x] = Latest(parsed[x], maxSamples)
  BY DEF IInv, Kept, SamplesAreTheLatest, Latest, First
<1>5. maxSamples \in Nat \ {0} /\ parsed[ip] \in Seq(Nat)
  BY <1>3, <1>4, AgentAssumption
<1>6. /\ RecordSample(samples[ip], v, maxSamples) = Latest(Append(parsed[ip], v), maxSamples)
      /\ Latest(Append(parsed[ip], v), maxSamples) \in Seq(Nat)
  BY <1>3, <1>4, <1>5, RecordKeepsLatest
<1>7. Append(parsed[ip], v) \in Seq(Nat)
  BY <1>3, <1>5
<1>8. /\ samples' \in [IPs -> Seq(Nat)] /\ parsed' \in [IPs -> Seq(Nat)]
      /\ parsed'[ip] = Append(parsed[ip], v)
      /\ samples'[ip] = Latest(Append(parsed[ip], v), maxSamples)
      /\ \A x \in IPs : x # ip => samples'[x] = samples[x] /\ parsed'[x] = parsed[x]
  BY <1>1, <1>3, <1>4, <1>6, <1>7
<1>9. \A x \in IPs : samples'[x] = Latest(parsed'[x], maxSamples)
  BY <1>4, <1>8
<1>10. Kept'
  BY <1>8, <1>9 DEF Kept, SamplesAreTheLatest, Latest, First
<1>11. Kernel'
  BY <1>1, <1>2 DEF IInv, Kernel, RTTsAreReal, Measures
<1> QED BY <1>1, <1>10, <1>11 DEF IInv, Releasing

\* With its programs gone the kernel is as it was at first.
LEMMA DetachHolds ==
    ASSUME clock \in 1..MaxClock, Detach, UNCHANGED clock
    PROVE  Kernel'
<1>1. /\ DOMAIN sent' = {} /\ probe' = [f \in Flow |-> Resting]
      /\ ring' = <<>> /\ rtts' = [ip \in IPs |-> <<>>]
  BY DEF Detach, NoKernel
<1>2. \A f \in Flow : Measures(f)'
  BY <1>1 DEF Measures, Resting
<1>3. rtts' \in [IPs -> Seq(Nat)] /\ ring' \in Seq(Record)
  BY <1>1
<1>4. \A ip \in IPs : DOMAIN rtts'[ip] = {}
  BY <1>1
<1> QED BY <1>1, <1>2, <1>3, <1>4 DEF Kernel, RTTsAreReal

\* A process without samples.
LEMMA NoneKept == Latest(<<>>, maxSamples) = <<>>
BY AgentAssumption DEF Latest, First

\* Closing the first of a list leaves the others to close.
LEMMA CloseFirst ==
    ASSUME NEW s \in Seq(Resource), s # <<>>
    PROVE  /\ Tail(s) \in Seq(Resource)
           /\ Range(s) \ {Head(s)} \subseteq Range(Tail(s))
<1>1. Tail(s) \in Seq(Resource) /\ Len(Tail(s)) = Len(s) - 1
  OBVIOUS
<1>2. ASSUME NEW k \in DOMAIN s, s[k] # Head(s) PROVE s[k] \in Range(Tail(s))
  <2>1. k - 1 \in DOMAIN Tail(s) /\ Tail(s)[k - 1] = s[k]
    BY <1>1, <1>2
  <2> QED BY <2>1 DEF Range
<1> QED BY <1>1, <1>2 DEF Range

\* A close on an error path of Load, or in Close.
LEMMA UnloadHolds == IInv /\ Unload => IInv'
<1> SUFFICES ASSUME IInv, Unload PROVE IInv'
  OBVIOUS
<1>1. /\ toClose # <<>> /\ held' = held \ {Head(toClose)} /\ toClose' = Tail(toClose)
      /\ UNCHANGED <<clock, samples, parsed, main>>
  BY DEF Unload, CloseNext, collectorVars
<1>2. Kernel'
  <2>1. CASE Detach
    BY <1>1, <2>1, DetachHolds DEF IInv, Kernel
  <2>2. CASE UNCHANGED kernelVars
    BY <1>1, <2>2 DEF kernelVars, IInv, Kernel, RTTsAreReal, Measures
  <2> QED BY <2>1, <2>2 DEF Unload
<1>3. Releasing'
  <2>1. toClose' \in Seq(Resource) /\ Range(toClose) \ {Head(toClose)} \subseteq Range(toClose')
    BY <1>1, CloseFirst DEF IInv, Releasing
  <2> QED BY <1>1, <2>1 DEF IInv, Releasing
<1> QED BY <1>1, <1>2, <1>3 DEF IInv, Kept, SamplesAreTheLatest

\* The end of the process.
LEMMA DieHolds == IInv /\ Die => IInv'
<1> SUFFICES ASSUME IInv, Die PROVE IInv'
  OBVIOUS
<1>1. Detach /\ clock' = clock /\ held' = {} /\ toClose' = <<>> /\ main' = "down"
  BY DEF Die, Exit
<1>2. Kernel'
  BY <1>1, DetachHolds DEF IInv, Kernel
<1>3. samples' = [ip \in IPs |-> <<>>] /\ parsed' = [ip \in IPs |-> <<>>]
  BY DEF Die, NoCollector
<1>4. \A ip \in IPs : samples'[ip] = Latest(parsed'[ip], maxSamples)
  BY <1>3, NoneKept
<1>5. samples' \in [IPs -> Seq(Nat)] /\ parsed' \in [IPs -> Seq(Nat)]
  BY <1>3
<1>6. Kept'
  BY <1>4, <1>5 DEF Kept, SamplesAreTheLatest, Latest, First
<1>7. Releasing'
  BY <1>1 DEF Releasing
<1> QED BY <1>2, <1>6, <1>7 DEF IInv

\* Each error path of Load lists all that Load had acquired before the step that
\* failed.
LEMMA PathsAreComplete ==
    ASSUME NEW i \in DOMAIN Resources, Acquires(i), held \subseteq Resource
    PROVE  ErrorPaths[i] \in Seq(Resource) /\ held \subseteq Range(ErrorPaths[i])
<1>1. /\ DOMAIN Resources = 1..4 /\ Resources[1] = "coll" /\ Resources[2] = "send"
      /\ Resources[3] = "recv" /\ Resources[4] = "reader"
  BY DEF Resources
<1>2. \A j \in 1..4 : j >= i => Resources[j] \notin held
  BY <1>1 DEF Acquires
<1>3. /\ ErrorPaths[1] = <<>> /\ ErrorPaths[2] = <<"coll">>
      /\ ErrorPaths[3] = <<"send", "coll">> /\ ErrorPaths[4] = <<"recv", "send", "coll">>
  BY DEF ErrorPaths
<1>4. CASE i = 1
  <2>1. "coll" \notin held /\ "send" \notin held /\ "recv" \notin held /\ "reader" \notin held
    BY <1>1, <1>2, <1>4
  <2>2. held = {}
    BY <2>1 DEF Resource
  <2>3. <<>> \in Seq(Resource)
    OBVIOUS
  <2> QED BY <1>3, <1>4, <2>2, <2>3
<1>5. CASE i = 2
  <2>1. "send" \notin held /\ "recv" \notin held /\ "reader" \notin held
    BY <1>1, <1>2, <1>5
  <2>2. held \subseteq {"coll"}
    BY <2>1 DEF Resource
  <2>3. <<"coll">> \in Seq(Resource) /\ {"coll"} \subseteq Range(<<"coll">>)
    BY DEF Resource, Range
  <2> QED BY <1>3, <1>5, <2>2, <2>3
<1>6. CASE i = 3
  <2>1. "recv" \notin held /\ "reader" \notin held
    BY <1>1, <1>2, <1>6
  <2>2. held \subseteq {"coll", "send"}
    BY <2>1 DEF Resource
  <2>3. <<"send", "coll">> \in Seq(Resource) /\ {"coll", "send"} \subseteq Range(<<"send", "coll">>)
    BY DEF Resource, Range
  <2> QED BY <1>3, <1>6, <2>2, <2>3
<1>7. CASE i = 4
  <2>1. "reader" \notin held
    BY <1>1, <1>2, <1>7
  <2>2. held \subseteq {"coll", "send", "recv"}
    BY <2>1 DEF Resource
  <2>3. /\ <<"recv", "send", "coll">> \in Seq(Resource)
        /\ {"coll", "send", "recv"} \subseteq Range(<<"recv", "send", "coll">>)
    BY DEF Resource, Range
  <2> QED BY <1>3, <1>7, <2>2, <2>3
<1> QED BY <1>1, <1>4, <1>5, <1>6, <1>7

\* The other steps of the process touch neither kernel nor collector; those that
\* return begin with a list of what to close, or end with it closed.
LEMMA ProceedHolds == IInv /\ Proceed => IInv'
<1> SUFFICES ASSUME IInv, Proceed PROVE IInv'
  OBVIOUS
<1>1. UNCHANGED <<clock, sent, probe, ring, rtts, samples, parsed>>
  BY DEF Proceed, kernelVars, collectorVars
<1>2. Releasing'
  <2>1. CASE Load
    <3>1. PICK i \in DOMAIN Resources :
             /\ Acquires(i) /\ held' = held \cup {Resources[i]}
             /\ main' = IF i = Len(Resources) THEN "serving" ELSE main
      BY <2>1 DEF Load
    <3>2. Resources[i] \in Resource
      BY DEF Resources, Resource
    <3>3. main = "loading" /\ main' \in {"loading", "serving"} /\ toClose' = toClose
      BY <2>1, <3>1 DEF Load, Acquires
    <3> QED BY <3>1, <3>2, <3>3 DEF IInv, Releasing
  <2>2. CASE LoadFails
    <3>1. PICK i \in DOMAIN Resources : Acquires(i) /\ toClose' = ErrorPaths[i]
      BY <2>2 DEF LoadFails
    <3>2. main' = "failing" /\ held' = held
      BY <2>2 DEF LoadFails
    <3> QED BY <3>1, <3>2, PathsAreComplete DEF IInv, Releasing
  <2>3. CASE Return
    <3>1. main' = "closing" /\ held' = held /\ toClose' = <<"reader", "send", "recv">>
      BY <2>3 DEF Return, Released
    <3>2. Range(toClose') = {"reader", "send", "recv"}
      <4>1. DOMAIN toClose' = {1, 2, 3} /\ toClose'[1] = "reader" /\ toClose'[2] = "send"
            /\ toClose'[3] = "recv"
        BY <3>1
      <4> QED BY <4>1 DEF Range
    <3>3. toClose' \in Seq(Resource)
      BY <3>1 DEF Resource
    <3> QED BY <3>1, <3>2, <3>3 DEF IInv, Releasing, Resource
  <2>4. CASE Unwound
    <3>1. Range(<<>>) = {}
      BY DEF Range
    <3> QED BY <2>4, <3>1 DEF Unwound, IInv, Releasing
  <2>5. CASE Start \/ Signal \/ Begin \/ Watch \/ ReadClosed \/ ReadFails \/ HandleError
    BY <2>5 DEF Start, Signal, Begin, Watch, ReadClosed, ReadFails, HandleError, IInv,
                Releasing
  <2> QED BY <2>1, <2>2, <2>3, <2>4, <2>5 DEF Proceed, LoaderStep
<1> QED BY <1>1, <1>2 DEF IInv, Kernel, Kept, RTTsAreReal, SamplesAreTheLatest, Measures

-----------------------------------------------------------------------------
(* The theorems.                                                           *)

\* The invariant holds in every state.
THEOREM Invariant == Spec => []IInv
<1>1. Init => IInv
  <2> SUFFICES ASSUME Init PROVE IInv
    OBVIOUS
  <2>1. /\ clock = 1 /\ DOMAIN sent = {} /\ probe = [f \in Flow |-> Resting]
        /\ ring = <<>> /\ rtts = [ip \in IPs |-> <<>>]
        /\ samples = [ip \in IPs |-> <<>>] /\ parsed = [ip \in IPs |-> <<>>]
        /\ held = {} /\ toClose = <<>> /\ main = "down"
    BY DEF Init, NoKernel, NoCollector, LoaderInit
  <2>2. \A f \in Flow : Measures(f)
    BY <2>1 DEF Measures, Resting
  <2>3. /\ rtts \in [IPs -> Seq(Nat)] /\ ring \in Seq(Record)
        /\ samples \in [IPs -> Seq(Nat)] /\ parsed \in [IPs -> Seq(Nat)]
        /\ \A ip \in IPs : DOMAIN rtts[ip] = {}
    BY <2>1
  <2>4. clock \in 1..MaxClock
    BY <2>1, AgentAssumption
  <2>5. Kernel
    BY <2>1, <2>2, <2>3, <2>4 DEF Kernel, RTTsAreReal
  <2>6. \A ip \in IPs : samples[ip] = Latest(parsed[ip], maxSamples)
    BY <2>1, NoneKept
  <2>7. Kept
    BY <2>3, <2>6 DEF Kept, SamplesAreTheLatest, Latest, First
  <2> QED BY <2>1, <2>5, <2>7 DEF IInv, Releasing
<1>2. IInv /\ UNCHANGED vars => IInv'
  BY DEF vars, kernelVars, collectorVars, loaderVars, IInv, Kernel, Kept, RTTsAreReal,
         SamplesAreTheLatest, Releasing, Measures
<1>3. IInv /\ [Next]_vars => IInv'
  BY <1>2, AdvanceHolds, RunHolds, UnloadHolds, DieHolds, ProceedHolds, SendHolds, ReceiveHolds,
     ComputeHolds, SubmitHolds DEF Next
<1> QED BY <1>1, <1>3, PTL DEF Spec

\* No send that runs between the two clock readings of a receive makes the kernel
\* report an RTT that did not take place.
THEOREM EveryRTTIsReal == Spec => []RTTsAreReal
<1>1. IInv => RTTsAreReal
  BY DEF IInv, Kernel
<1> QED BY <1>1, Invariant, PTL

\* The collector keeps the latest readings and nothing else, across deaths of the
\* process and failed loads.
THEOREM TheLatestAreKept == Spec => []SamplesAreTheLatest
<1>1. IInv => SamplesAreTheLatest
  BY DEF IInv, Kept
<1> QED BY <1>1, Invariant, PTL

\* The interpolated percentiles of any samples are in order and within the samples.
THEOREM TheStatsAreWithinSamples == Spec => []StatsWithinSamples
<1>1. IInv => StatsWithinSamples
  <2> SUFFICES ASSUME IInv, NEW ip \in IPs, samples[ip] # <<>>
               PROVE  /\ Smallest(samples[ip], 0) <= Stats(samples[ip]).P50
                      /\ Stats(samples[ip]).P50 <= Stats(samples[ip]).P99
                      /\ Stats(samples[ip]).P99
                            <= Smallest(samples[ip], Stats(samples[ip]).SampleCount - 1)
    BY DEF StatsWithinSamples
  <2>1. samples[ip] \in Seq(Nat)
    BY DEF IInv, Kept
  <2>2. /\ Stats(samples[ip]).P50 = percentileUint64(samples[ip], 50)
        /\ Stats(samples[ip]).P99 = percentileUint64(samples[ip], 99)
        /\ Stats(samples[ip]).SampleCount = Len(samples[ip])
    BY DEF Stats
  <2> QED BY <2>1, <2>2, StatsOrdered
<1> QED BY <1>1, Invariant, PTL

\* Whichever step of Load fails, its error path closes all that was acquired before
\* it; and Close leaves neither a probe attached nor the reader open.
THEOREM EverythingIsReleased == Spec => []ReleasedOnReturn
<1>1. IInv => ReleasedOnReturn
  BY DEF IInv, Releasing, ReleasedOnReturn
<1> QED BY <1>1, Invariant, PTL

=============================================================================
