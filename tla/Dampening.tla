------------------------------- MODULE Dampening -------------------------------
(***************************************************************************)
(* latency.DampeningState: what one call of ShouldUpdate does.             *)
(*                                                                         *)
(* A selection is the set of its pod IPs: ShouldUpdate only asks for       *)
(* membership and length, and a selection has no duplicates.  The float64  *)
(* comparison changed / total * 100 >= thresholdPercent is the exact one   *)
(* for selections of fewer than 50 pods; at 50 and at 100 pods four        *)
(* percentages are rounded below their whole value.                        *)
(***************************************************************************)
EXTENDS Integers, FiniteSets

\* The dampening settings of a policy, with the bounds the API server validates.
DampeningSpec == [Enabled : BOOLEAN, ThresholdPercent : 1..100,
                  ConsecutiveIntervals : Nat \ {0}]

\* NewDampeningState
NewDampeningState == [previousSelected |-> {}, violationCount |-> 0]

\* computeChangePercent(new) >= thresholdPercent.  Only the pods that were
\* added count as changed, over the larger of the two selections.
ChangedEnough(previous, new, thresholdPercent) ==
    LET changed == Cardinality(new \ previous)
        total   == IF Cardinality(new) > Cardinality(previous)
                   THEN Cardinality(new) ELSE Cardinality(previous)
    IN  changed * 100 >= thresholdPercent * total

\* Mutant: a selection within the threshold does not reset the counter.
MutantCounterKept(d, new, spec) ==
    IF d.previousSelected = {}
    THEN [update |-> TRUE, state |-> [previousSelected |-> new, violationCount |-> 0]]
    ELSE LET count == IF ChangedEnough(d.previousSelected, new, spec.ThresholdPercent)
                      THEN d.violationCount + 1 ELSE d.violationCount
         IN  IF count >= spec.ConsecutiveIntervals
             THEN [update |-> TRUE,
                   state |-> [previousSelected |-> new, violationCount |-> 0]]
             ELSE [update |-> FALSE,
                   state |-> [d EXCEPT !.violationCount = count]]

\* Mutant: the new selection is not remembered when it is applied.
MutantNotRemembered(d, new, spec) ==
    IF d.previousSelected = {}
    THEN [update |-> TRUE, state |-> [previousSelected |-> new, violationCount |-> 0]]
    ELSE LET count == IF ChangedEnough(d.previousSelected, new, spec.ThresholdPercent)
                      THEN d.violationCount + 1 ELSE 0
         IN  [update |-> count >= spec.ConsecutiveIntervals,
              state |-> [d EXCEPT !.violationCount = count]]

\* DampeningState.ShouldUpdate: the answer and the state it leaves behind.
ShouldUpdate(d, new, spec) ==
    IF d.previousSelected = {}
    THEN [update |-> TRUE, state |-> [previousSelected |-> new, violationCount |-> 0]]
    ELSE LET count == IF ChangedEnough(d.previousSelected, new, spec.ThresholdPercent)
                      THEN d.violationCount + 1 ELSE 0
         IN  IF count >= spec.ConsecutiveIntervals
             THEN [update |-> TRUE,
                   state |-> [previousSelected |-> new, violationCount |-> 0]]
             ELSE [update |-> FALSE,
                   state |-> [d EXCEPT !.violationCount = count]]

=============================================================================
