------------------------- MODULE CircuitBreakerProofs -------------------------
(***************************************************************************)
(* The breaker's safety, for every set of pods, every set of readings and  *)
(* every configuration.                                                    *)
(***************************************************************************)
EXTENDS CircuitBreaker, TLAPS

\* The inductive invariant: neither the count nor the time of an ejection can
\* be kept right without the types, and TrustedAfterRecovery needs both.
IInv == TypeOK /\ CountIsTheStreak /\ ElapsedIsTheRest

\* The invariant of one pod: its state ps, its streak s and its rest q.
PodOK(ps, s, q) ==
    /\ ps \in PodState /\ ps.ViolationCount <= Limit
    /\ s \in 0..Limit /\ q \in 0..cfg.RecoveryInterval
    /\ ps.State = "untracked" => s = 0
    /\ ps.State = "closed" => ps.ViolationCount = s /\ s < Limit
    /\ ps.State \in {"open", "halfopen"} => ps.ViolationCount = Limit
    /\ ps.State = "open" => ps.Elapsed = q
    /\ ps.State = "halfopen" => q = cfg.RecoveryInterval

\* The history of one pod after a reading.
SlowAfter(s, p99) == IF ~IsSlow(p99) THEN 0 ELSE IF s < Limit THEN s + 1 ELSE s
QuietAfter(ps, q, after) == IF IsEjected(after) /\ ~IsEjected(ps) THEN 0 ELSE q

\* The configured limit and interval are numbers, and the limit is not 0.
LEMMA ConfigRange == /\ cfg.ConsecutiveViolations \in Nat
                     /\ cfg.ConsecutiveViolations > 0
                     /\ cfg.RecoveryInterval \in Nat
                     /\ cfg.P99Threshold \in Nat
  BY ConfigAssumption, SMT DEF Config

\* The invariant holds when it holds of each pod.
LEMMA PodByPod ==
    IInv <=> /\ pods = [ip \in PodIP |-> pods[ip]]
             /\ slow = [ip \in PodIP |-> slow[ip]]
             /\ quiet = [ip \in PodIP |-> quiet[ip]]
             /\ \A ip \in PodIP : PodOK(pods[ip], slow[ip], quiet[ip])
  BY DEF IInv, TypeOK, CountIsTheStreak, ElapsedIsTheRest, PodOK

\* What a reading does to a pod in the closed state, or with no entry yet.
LEMMA ClosedReading ==
    ASSUME NEW n \in Nat, n < Limit, NEW p99 \in Nat,
           NEW q \in 0..cfg.RecoveryInterval, NEW ps \in PodState, ~IsEjected(ps)
    PROVE  LET after == RecordClosed(Closed(n), cfg, p99)
           IN  PodOK(after, SlowAfter(n, p99), QuietAfter(ps, q, after))
  BY ConfigRange DEF RecordClosed, Closed, Ejected, PodOK, SlowAfter, QuietAfter,
       IsSlow, IsEjected, Limit, PodState, State

\* A reading that ejects a closed pod completes its streak.
LEMMA ClosedEjection ==
    ASSUME NEW ps, NEW p99 \in Nat, ps.ViolationCount \in Nat,
           ps.ViolationCount < Limit, IsEjected(RecordClosed(ps, cfg, p99))
    PROVE  SlowAfter(ps.ViolationCount, p99) = Limit
  BY ConfigRange DEF RecordClosed, Closed, Ejected, SlowAfter, IsSlow, IsEjected,
                     Limit

\* RecordLatency keeps the invariant of the pod it names.
LEMMA ReadingOK ==
    ASSUME NEW ps, NEW s, NEW q, PodOK(ps, s, q), NEW p99 \in Nat
    PROVE  LET after == AfterRecord(ps, cfg, p99)
           IN  PodOK(after, SlowAfter(s, p99), QuietAfter(ps, q, after))
<1> DEFINE after == AfterRecord(ps, cfg, p99)
<1>1. CASE ps.State = "untracked"
  <2>1. after = RecordClosed(Closed(0), cfg, p99) /\ s = 0
    BY <1>1 DEF AfterRecord, PodOK
  <2>2. ~IsEjected(ps) /\ ps \in PodState /\ q \in 0..cfg.RecoveryInterval
    BY <1>1 DEF PodOK, IsEjected
  <2>3. 0 < Limit
    BY ConfigRange DEF Limit
  <2> QED
    BY <2>1, <2>2, <2>3, ClosedReading
<1>2. CASE ps.State = "closed"
  <2>1. /\ after = RecordClosed(ps, cfg, p99)
        /\ s = ps.ViolationCount /\ s < Limit /\ s \in Nat
    BY <1>2, ConfigRange DEF AfterRecord, PodOK, Limit
  <2>2. RecordClosed(ps, cfg, p99) = RecordClosed(Closed(s), cfg, p99)
    BY <2>1 DEF RecordClosed, Closed
  <2>3. ~IsEjected(ps) /\ ps \in PodState /\ q \in 0..cfg.RecoveryInterval
    BY <1>2 DEF PodOK, IsEjected
  <2> QED
    BY <2>1, <2>2, <2>3, ClosedReading
<1>3. CASE ps.State = "open"
  <2>1. after = HalfOpenIfDue(ps, cfg)
    BY <1>3 DEF AfterRecord
  <2> QED
    BY <1>3, <2>1, ConfigRange DEF HalfOpenIfDue, HalfOpen, PodOK, SlowAfter, QuietAfter,
         IsSlow, IsEjected, Limit, PodState, State
<1>4. CASE ps.State = "halfopen"
  <2>1. after = RecordHalfOpen(ps, cfg, p99)
    BY <1>4 DEF AfterRecord
  <2> QED
    BY <1>4, <2>1, ConfigRange DEF RecordHalfOpen, Closed, Ejected, PodOK,
         SlowAfter, QuietAfter, IsSlow, IsEjected, Limit, PodState, State
<1> QED
  BY <1>1, <1>2, <1>3, <1>4 DEF PodOK, PodState, State

\* New establishes the invariant.
LEMMA InitIInv == Init => IInv
  BY ConfigRange DEF Init, IInv, TypeOK, CountIsTheStreak, ElapsedIsTheRest,
                     Untracked, PodState, State, Limit

\* Every method, and the passing of time, keeps the invariant.
LEMMA StepIInv == IInv /\ [Next]_vars => IInv'
<1> SUFFICES ASSUME IInv, [Next]_vars PROVE IInv'
  OBVIOUS
<1>0. /\ pods = [ip \in PodIP |-> pods[ip]]
      /\ slow = [ip \in PodIP |-> slow[ip]]
      /\ quiet = [ip \in PodIP |-> quiet[ip]]
      /\ \A ip \in PodIP : PodOK(pods[ip], slow[ip], quiet[ip])
  BY PodByPod
<1>1. ASSUME NEW ip \in PodIP, NEW p99 \in Latency, RecordLatency(ip, p99)
      PROVE  IInv'
  <2>1. p99 \in Nat
    BY LatencyAssumption
  <2>2. /\ pods' = [pods EXCEPT ![ip] = AfterRecord(pods[ip], cfg, p99)]
        /\ slow' = [slow EXCEPT ![ip] = SlowAfter(slow[ip], p99)]
        /\ quiet' = [quiet EXCEPT ![ip] =
              QuietAfter(pods[ip], quiet[ip], AfterRecord(pods[ip], cfg, p99))]
    BY <1>1 DEF RecordLatency, SlowAfter, QuietAfter
  <2>3. PodOK(pods'[ip], slow'[ip], quiet'[ip])
    BY <1>0, <2>1, <2>2, ReadingOK
  <2>4. \A i \in PodIP : PodOK(pods'[i], slow'[i], quiet'[i])
    BY <1>0, <2>2, <2>3
  <2>5. /\ pods' = [i \in PodIP |-> pods'[i]]
        /\ slow' = [i \in PodIP |-> slow'[i]]
        /\ quiet' = [i \in PodIP |-> quiet'[i]]
    BY <1>0, <2>2
  <2> QED
    BY <2>4, <2>5 DEF IInv, TypeOK, CountIsTheStreak, ElapsedIsTheRest, PodOK, Limit
<1> USE ConfigRange DEF IInv, TypeOK, CountIsTheStreak, ElapsedIsTheRest,
                        PodState, State, Limit
<1>2. CASE CheckRecovery
  BY <1>2 DEF CheckRecovery, HalfOpenIfDue, HalfOpen
<1>3. ASSUME NEW ip \in PodIP, RemovePod(ip) PROVE IInv'
  BY <1>3 DEF RemovePod, Untracked
<1>4. CASE Reset
  BY <1>4 DEF Reset, Untracked
<1>5. CASE Tick
  BY <1>5 DEF Tick, AfterTick
<1>6. CASE UNCHANGED vars
  BY <1>6 DEF vars
<1> QED
  BY <1>1, <1>2, <1>3, <1>4, <1>5, <1>6 DEF Next, Record

\* In every reachable state the breaker's state is well formed and no
\* ViolationCount passes the limit.
THEOREM TypeCorrect == Spec => []TypeOK
<1>1. IInv => TypeOK
  BY DEF IInv
<1> QED
  BY InitIInv, StepIInv, <1>1, PTL DEF Spec

\* In every reachable state a closed pod's ViolationCount is the length of its
\* current run of slow readings, short of the limit.
THEOREM StreakCounted == Spec => []CountIsTheStreak
<1>1. IInv => CountIsTheStreak
  BY DEF IInv
<1> QED
  BY InitIInv, StepIInv, <1>1, PTL DEF Spec

\* A closed pod is ejected only by its ConsecutiveViolations-th slow reading in a
\* row, and a pod on probation only by a slow reading.
THEOREM EjectionEarned == Spec => EjectedForAStreak
<1> DEFINE Earned == \A ip \in PodIP :
              IsEjected(pods'[ip]) /\ ~IsEjected(pods[ip]) =>
                 /\ slow'[ip] > 0
                 /\ pods[ip].State # "halfopen" => slow'[ip] = Limit
<1>1. IInv /\ [Next]_vars => [Earned]_vars
  <2> SUFFICES ASSUME IInv, Next PROVE Earned
    OBVIOUS
  <2> USE ConfigRange DEF IInv, TypeOK, CountIsTheStreak, PodState, State,
                          IsEjected, Limit
  <2>1. ASSUME NEW ip \in PodIP, NEW p99 \in Latency, RecordLatency(ip, p99)
        PROVE  Earned
    <3>1. p99 \in Nat
      BY LatencyAssumption
    <3>2. CASE pods[ip].State = "untracked"
      BY <2>1, <3>1, <3>2 DEF RecordLatency, AfterRecord, RecordClosed, Closed,
                              Ejected, IsSlow
    <3>3. CASE pods[ip].State = "closed"
      <4>1. /\ pods' = [pods EXCEPT ![ip] = RecordClosed(pods[ip], cfg, p99)]
            /\ slow' = [slow EXCEPT ![ip] = SlowAfter(slow[ip], p99)]
        BY <2>1, <3>3 DEF RecordLatency, AfterRecord, SlowAfter
      <4>2. IsEjected(RecordClosed(pods[ip], cfg, p99))
               => SlowAfter(slow[ip], p99) = Limit
        BY <3>1, <3>3, ClosedEjection
      <4> QED
        BY <4>1, <4>2
    <3>4. CASE pods[ip].State = "open"
      BY <2>1, <3>4 DEF RecordLatency
    <3>5. CASE pods[ip].State = "halfopen"
      BY <2>1, <3>1, <3>5 DEF RecordLatency, AfterRecord, RecordHalfOpen, Closed,
                              Ejected, IsSlow
    <3> QED
      BY <3>2, <3>3, <3>4, <3>5
  <2>2. CASE CheckRecovery
    BY <2>2 DEF CheckRecovery, HalfOpenIfDue, HalfOpen
  <2>3. ASSUME NEW ip \in PodIP, RemovePod(ip) PROVE Earned
    BY <2>3 DEF RemovePod, Untracked
  <2>4. CASE Reset
    BY <2>4 DEF Reset, Untracked
  <2>5. CASE Tick
    BY <2>5 DEF Tick, AfterTick
  <2> QED
    BY <2>1, <2>2, <2>3, <2>4, <2>5 DEF Next, Record
<1> QED
  BY InitIInv, StepIInv, <1>1, PTL DEF Spec, EjectedForAStreak

\* A pod that was ejected is closed again only from the half-open state, after a
\* full recovery interval since its last ejection and by a reading not slow.
THEOREM ReadmissionEarned == Spec => TrustedAfterRecovery
<1> DEFINE Earned == \A ip \in PodIP :
              pods[ip].State \in {"open", "halfopen"} /\ pods'[ip].State = "closed"
                 => /\ pods[ip].State = "halfopen"
                    /\ quiet[ip] = cfg.RecoveryInterval
                    /\ slow'[ip] = 0
<1>1. IInv /\ [Next]_vars => [Earned]_vars
  <2> SUFFICES ASSUME IInv, Next PROVE Earned
    OBVIOUS
  <2> USE ConfigRange DEF IInv, TypeOK, ElapsedIsTheRest, PodState, State
  <2>1. ASSUME NEW ip \in PodIP, NEW p99 \in Latency, RecordLatency(ip, p99)
        PROVE  Earned
    <3>1. p99 \in Nat
      BY LatencyAssumption
    <3>2. CASE pods[ip].State \in {"untracked", "closed"}
      BY <2>1, <3>2 DEF RecordLatency
    <3>3. CASE pods[ip].State = "open"
      BY <2>1, <3>3 DEF RecordLatency, AfterRecord, HalfOpenIfDue, HalfOpen
    <3>4. CASE pods[ip].State = "halfopen"
      BY <2>1, <3>1, <3>4 DEF RecordLatency, AfterRecord, RecordHalfOpen, Closed,
                              Ejected, IsSlow
    <3> QED
      BY <3>2, <3>3, <3>4
  <2>2. CASE CheckRecovery
    BY <2>2 DEF CheckRecovery, HalfOpenIfDue, HalfOpen
  <2>3. ASSUME NEW ip \in PodIP, RemovePod(ip) PROVE Earned
    BY <2>3 DEF RemovePod, Untracked
  <2>4. CASE Reset
    BY <2>4 DEF Reset, Untracked
  <2>5. CASE Tick
    BY <2>5 DEF Tick, AfterTick
  <2> QED
    BY <2>1, <2>2, <2>3, <2>4, <2>5 DEF Next, Record
<1> QED
  BY InitIInv, StepIInv, <1>1, PTL DEF Spec, TrustedAfterRecovery

=============================================================================
