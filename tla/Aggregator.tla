------------------------------ MODULE Aggregator ------------------------------
(***************************************************************************)
(* Ranking, selection and the fleet P99 of internal/latency/               *)
(* aggregator.go, with selectPods of the controller that chooses between   *)
(* the three strategies.                                                   *)
(*                                                                         *)
(* A ranking is a sequence of distinct pod IPs and P99 a function from the *)
(* measured IPs to their P99, a whole number of time units.                *)
(***************************************************************************)
EXTENDS Ordering

\* A pointer field of the policy that is nil; the CRD keeps the others >= 1.
Nil == -1

SelectionMode == {"topN", "percentage", "threshold"}

defaultPercentage == 50

\* The part of AviatorPolicySpec that selectPods reads.
SelectionSpec == [Mode : SelectionMode,
                  TopN : (Nat \ {0}) \cup {Nil},
                  Percentage : 1..100 \cup {Nil},
                  LatencyThreshold : Nat]

\* The sequences that hold every member of S once.
Orders(S) == {r \in [1..Cardinality(S) -> S] :
                 \A i, j \in DOMAIN r : r[i] = r[j] => i = j}

InOrder(r, P99) == \A i, j \in DOMAIN r : i < j => P99[r[i]] <= P99[r[j]]

\* Mutant: the slowest pods come first.
MutantRankPods(P99) ==
    {r \in Orders(DOMAIN P99) :
        \A i, j \in DOMAIN r : i < j => P99[r[i]] >= P99[r[j]]}

\* RankPods.  The rankings come out of a map range and sort.Slice is not
\* stable, so pods with the same P99 may come in any order.
RankPods(P99) == {r \in Orders(DOMAIN P99) : InOrder(r, P99)}

SelectTopN(r, n) == IF n <= 0 \/ n >= Len(r) THEN r ELSE SubSeq(r, 1, n)

\* Mutant: the minimum of one pod is forgotten.
MutantNoMinimum(r, percent) ==
    LET pct == IF percent <= 0 THEN 100 ELSE percent
        n   == (Len(r) * pct) \div 100
    IN  SubSeq(r, 1, IF n > Len(r) THEN Len(r) ELSE n)

SelectTopPercent(r, percent) ==
    LET pct == IF percent <= 0 THEN 100 ELSE percent
        n   == (Len(r) * pct) \div 100
        one == IF n < 1 THEN 1 ELSE n
    IN  SubSeq(r, 1, IF one > Len(r) THEN Len(r) ELSE one)

SelectByThreshold(r, P99, threshold) ==
    LET selected == Filter(r, {ip \in DOMAIN P99 : P99[ip] <= threshold})
    IN  IF selected = <<>> /\ r # <<>> THEN <<r[1]>> ELSE selected

OrDefault(pointer, default) == IF pointer = Nil THEN default ELSE pointer

\* AviatorPolicyReconciler.selectPods
selectPods(spec, r, P99) ==
    IF r = <<>> THEN r
    ELSE CASE spec.Mode = "topN"       -> SelectTopN(r, OrDefault(spec.TopN, 3))
           [] spec.Mode = "percentage" ->
                 SelectTopPercent(r, OrDefault(spec.Percentage, defaultPercentage))
           [] spec.Mode = "threshold"  ->
                 SelectByThreshold(r, P99, spec.LatencyThreshold)

-----------------------------------------------------------------------------
(* The fleet P99 of the status, over a sequence of P99 values.             *)

ComputeFleetP99(s) ==
    LET idx == (99 * Len(s)) \div 100
    IN  IF s = <<>> THEN 0
        ELSE Smallest(s, IF idx >= Len(s) THEN Len(s) - 1 ELSE idx)

=============================================================================
