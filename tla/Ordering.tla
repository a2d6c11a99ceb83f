-------------------------------- MODULE Ordering --------------------------------
(***************************************************************************)
(* What the loops and sorts over Go slices leave behind, stated by ranks:  *)
(* the filter loops of the controller and of SelectByThreshold, and        *)
(* sorted[i] after sort.Slice or sortDurations.                            *)
(***************************************************************************)
EXTENDS Integers, Sequences, FiniteSets

Members(r) == {r[i] : i \in DOMAIN r}

\* The member of a set of numbers that has n smaller ones.
Nth(S, n) == CHOOSE i \in S : Cardinality({j \in S : j < i}) = n

\* A loop that appends the members of r that are in keep.
Filter(r, keep) ==
    LET at == {i \in DOMAIN r : r[i] \in keep}
    IN  [n \in 1..Cardinality(at) |-> r[Nth(at, n - 1)]]

\* sorted[i], counting from 0, when sorted holds the numbers of s in order.
Smallest(s, i) ==
    CHOOSE v \in {s[k] : k \in DOMAIN s} :
        /\ Cardinality({k \in DOMAIN s : s[k] < v}) <= i
        /\ Cardinality({k \in DOMAIN s : s[k] <= v}) > i

=============================================================================
