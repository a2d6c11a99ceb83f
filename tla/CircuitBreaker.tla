---------------------------- MODULE CircuitBreaker ----------------------------
(***************************************************************************)
(* circuitbreaker.Breaker as its callers see it: one map of pod states and *)
(* the methods that change it, in any order.  Every method holds b.mu from *)
(* its first to its last statement, so each one is a single action.        *)
(*                                                                         *)
(* slow and quiet are history variables: no method reads them.  They count *)
(* what was really observed of a pod, and the properties compare the       *)
(* breaker's verdict with them.                                            *)
(***************************************************************************)
EXTENDS Breaker

CONSTANTS PodIP,        \* the pod IPs callers may name
          Latency,      \* the P99 values a reading may carry
          cfg           \* the Config that New was given

ASSUME ConfigAssumption == cfg \in Config
ASSUME LatencyAssumption == Latency \subseteq Nat

VARIABLES pods,         \* Breaker.pods, total: PodIP -> PodState
          slow,         \* consecutive slow readings of a pod, saturating
          quiet         \* ticks since a pod was last ejected, saturating

vars == <<pods, slow, quiet>>

Limit == cfg.ConsecutiveViolations

IsSlow(p99) == p99 > cfg.P99Threshold

\* New
Init == /\ pods = [ip \in PodIP |-> Untracked]
        /\ slow = [ip \in PodIP |-> 0]
        /\ quiet = [ip \in PodIP |-> 0]

-----------------------------------------------------------------------------
(* The methods.                                                            *)

RecordLatency(ip, p99) ==
    LET after == AfterRecord(pods[ip], cfg, p99) IN
    /\ pods' = [pods EXCEPT ![ip] = after]
    /\ slow' = [slow EXCEPT ![ip] = IF ~IsSlow(p99) THEN 0
                                    ELSE IF @ < Limit THEN @ + 1 ELSE @]
    /\ quiet' = [quiet EXCEPT ![ip] = IF IsEjected(after) /\ ~IsEjected(pods[ip])
                                      THEN 0 ELSE @]

CheckRecovery ==
    /\ pods' = [ip \in PodIP |-> HalfOpenIfDue(pods[ip], cfg)]
    /\ UNCHANGED <<slow, quiet>>

RemovePod(ip) ==
    /\ pods' = [pods EXCEPT ![ip] = Untracked]
    /\ slow' = [slow EXCEPT ![ip] = 0]
    /\ quiet' = [quiet EXCEPT ![ip] = 0]

Reset ==
    /\ pods' = [ip \in PodIP |-> Untracked]
    /\ slow' = [ip \in PodIP |-> 0]
    /\ quiet' = [ip \in PodIP |-> 0]

\* The clock that time.Since reads.
Tick ==
    /\ pods' = [ip \in PodIP |-> AfterTick(pods[ip], cfg)]
    /\ quiet' = [ip \in PodIP |-> IF quiet[ip] < cfg.RecoveryInterval
                                  THEN quiet[ip] + 1 ELSE quiet[ip]]
    /\ UNCHANGED slow

Record(ip) == \E p99 \in Latency : RecordLatency(ip, p99)

Next ==
    \/ \E ip \in PodIP : Record(ip)
    \/ \E ip \in PodIP : RemovePod(ip)
    \/ CheckRecovery
    \/ Reset
    \/ Tick

Spec == Init /\ [][Next]_vars

\* Time passes, and every pod is measured again and again: the controller
\* records a reading of each measured pod at each evaluation.
FairSpec == Spec /\ WF_vars(Tick) /\ \A ip \in PodIP : WF_vars(Record(ip))

-----------------------------------------------------------------------------
(* What the breaker promises.                                              *)

\* Every pod has a well-formed state, no ViolationCount passes the configured
\* limit, and the two history counters stay in range.
TypeOK == /\ pods \in [PodIP -> PodState]
          /\ \A ip \in PodIP : pods[ip].ViolationCount <= Limit
          /\ slow \in [PodIP -> 0..Limit]
          /\ quiet \in [PodIP -> 0..cfg.RecoveryInterval]

\* While a pod is closed its ViolationCount is exactly the length of its
\* current run of slow readings, and that run is still short of the limit; so
\* ConsecutiveViolations slow readings in a row never leave a pod closed.  Once
\* ejected the count is frozen at the limit, however often the half-open pod is
\* ejected again, so the int32 field never overflows.
CountIsTheStreak ==
    \A ip \in PodIP :
        /\ pods[ip].State = "untracked" => slow[ip] = 0
        /\ pods[ip].State = "closed" =>
              pods[ip].ViolationCount = slow[ip] /\ slow[ip] < Limit
        /\ pods[ip].State \in {"open", "halfopen"} =>
              pods[ip].ViolationCount = Limit

\* The time the breaker believes an open pod has been out is the time that
\* passed since its latest ejection, and a half-open pod has served all of it.
ElapsedIsTheRest ==
    \A ip \in PodIP :
        /\ pods[ip].State = "open" => pods[ip].Elapsed = quiet[ip]
        /\ pods[ip].State = "halfopen" => quiet[ip] = cfg.RecoveryInterval

\* A pod leaves the closed state for ejection only on its
\* ConsecutiveViolations-th slow reading in a row, and is ejected from any
\* other state only by a slow reading.
EjectedForAStreak ==
    [][\A ip \in PodIP :
          IsEjected(pods'[ip]) /\ ~IsEjected(pods[ip]) =>
             /\ slow'[ip] > 0
             /\ pods[ip].State # "halfopen" => slow'[ip] = Limit]_vars

\* A pod that was ejected is trusted again only after a full recovery interval
\* without a further ejection, and only by a reading that is not slow; the one
\* other way out is that the breaker forgets the pod (RemovePod, Reset).
TrustedAfterRecovery ==
    [][\A ip \in PodIP :
          pods[ip].State \in {"open", "halfopen"} /\ pods'[ip].State = "closed"
             => /\ pods[ip].State = "halfopen"
                /\ quiet[ip] = cfg.RecoveryInterval
                /\ slow'[ip] = 0]_vars

\* A pod whose readings are fast from some point on does not stay ejected or
\* on probation: it ends up, and remains, in the closed state.
FastPodReadmitted ==
    \A ip \in PodIP :
        <>[](slow[ip] = 0) => <>[](pods[ip].State \in {"untracked", "closed"})

=============================================================================
