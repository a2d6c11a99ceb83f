------------------------------- MODULE Breaker -------------------------------
(***************************************************************************)
(* What one call of a method of circuitbreaker.Breaker does to the         *)
(* PodState of one pod IP (internal/circuitbreaker/circuitbreaker.go).     *)
(*                                                                         *)
(* The map of pod states is total here: "untracked" stands for an IP that  *)
(* has no entry.  EjectedAt is kept as Elapsed, the time since EjectedAt,  *)
(* which saturates at the recovery interval because the code only ever     *)
(* asks whether that much time has passed; it is 0 in every state but      *)
(* "open", where alone it is read.  LastViolationTime and                  *)
(* LastRecoveryProbeAt are written and never read, and left out.           *)
(***************************************************************************)
EXTENDS Ordering

\* The largest value of the int32 fields of the policy and of PodState.
MaxInt32 == 2147483647

\* circuitbreaker.Config.  The CRD gives ConsecutiveViolations a minimum of 1.
Config == [P99Threshold : Nat,
           ConsecutiveViolations : 1..MaxInt32,
           RecoveryInterval : Nat]

\* State, with "untracked" for an IP that has no entry in Breaker.pods.
State == {"untracked", "closed", "open", "halfopen"}

PodState == [State : State, ViolationCount : Nat, Elapsed : Nat]

Untracked == [State |-> "untracked", ViolationCount |-> 0, Elapsed |-> 0]

Closed(n) == [State |-> "closed", ViolationCount |-> n, Elapsed |-> 0]

\* Ejected now: EjectedAt = time.Now().
Ejected(n) == [State |-> "open", ViolationCount |-> n, Elapsed |-> 0]

HalfOpen(n) == [State |-> "halfopen", ViolationCount |-> n, Elapsed |-> 0]

\* Mutant: a fast reading does not reset ViolationCount.
MutantNoReset(ps, cfg, p99) ==
    LET count == ps.ViolationCount + 1 IN
    IF p99 <= cfg.P99Threshold THEN ps
    ELSE IF count >= cfg.ConsecutiveViolations THEN Ejected(count)
    ELSE Closed(count)

\* Mutant: the limit must be passed, not reached.
MutantLimitPassed(ps, cfg, p99) ==
    LET count == ps.ViolationCount + 1 IN
    IF p99 <= cfg.P99Threshold THEN Closed(0)
    ELSE IF count > cfg.ConsecutiveViolations THEN Ejected(count)
    ELSE Closed(count)

\* RecordLatency of a pod whose state is StateClosed.
RecordClosed(ps, cfg, p99) ==
    LET count == ps.ViolationCount + 1 IN
    IF p99 <= cfg.P99Threshold THEN Closed(0)
    ELSE IF count >= cfg.ConsecutiveViolations THEN Ejected(count)
    ELSE Closed(count)

\* Mutant: the recovery interval is not awaited.
MutantNotAwaited(ps, cfg) ==
    IF ps.State = "open" THEN HalfOpen(ps.ViolationCount) ELSE ps

\* An open pod whose recovery interval has elapsed is half-opened; both
\* RecordLatency and CheckRecovery do this, whatever the reading was.
HalfOpenIfDue(ps, cfg) ==
    IF ps.State = "open" /\ ps.Elapsed >= cfg.RecoveryInterval
    THEN HalfOpen(ps.ViolationCount)
    ELSE ps

\* Mutant: a slow probe counts as one more violation.
MutantProbeCounts(ps, cfg, p99) ==
    IF p99 <= cfg.P99Threshold THEN Closed(0) ELSE Ejected(ps.ViolationCount + 1)

\* Mutant: a reading at the threshold fails the probe.
MutantStrictProbe(ps, cfg, p99) ==
    IF p99 < cfg.P99Threshold THEN Closed(0) ELSE Ejected(ps.ViolationCount)

\* RecordLatency of a pod whose state is StateHalfOpen: one reading decides.
RecordHalfOpen(ps, cfg, p99) ==
    IF p99 <= cfg.P99Threshold THEN Closed(0) ELSE Ejected(ps.ViolationCount)

\* Breaker.RecordLatency: the entry is created on the first reading.
AfterRecord(ps, cfg, p99) ==
    CASE ps.State = "untracked" -> RecordClosed(Closed(0), cfg, p99)
      [] ps.State = "closed"    -> RecordClosed(ps, cfg, p99)
      [] ps.State = "open"      -> HalfOpenIfDue(ps, cfg)
      [] ps.State = "halfopen"  -> RecordHalfOpen(ps, cfg, p99)

\* Breaker.IsEjected
IsEjected(ps) == ps.State = "open"

\* One evaluation (Reconcile, step 9) with the readings P99 of some pods:
\* CheckRecovery, then RecordLatency of every pod that was measured.
AfterEvaluation(pods, cfg, P99) ==
    [ip \in DOMAIN pods |->
        LET due == HalfOpenIfDue(pods[ip], cfg) IN
        IF ip \in DOMAIN P99 THEN AfterRecord(due, cfg, P99[ip]) ELSE due]

\* Mutant: without a healthy pod nothing is left to select from.
MutantNoFallback(pods, r) == Filter(r, {ip \in DOMAIN pods : ~IsEjected(pods[ip])})

\* The ranked pods that are not ejected, or all of them if each one is.
Healthy(pods, r) ==
    LET healthy == Filter(r, {ip \in DOMAIN pods : ~IsEjected(pods[ip])})
    IN  IF healthy # <<>> THEN healthy ELSE r

\* time.Since(ps.EjectedAt) one tick later.
AfterTick(ps, cfg) ==
    IF ps.State = "open" /\ ps.Elapsed < cfg.RecoveryInterval
    THEN [ps EXCEPT !.Elapsed = @ + 1]
    ELSE ps

=============================================================================
