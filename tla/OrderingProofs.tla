----------------------------- MODULE OrderingProofs -----------------------------
(***************************************************************************)
(* What Filter and Smallest compute, for sequences of any length.          *)
(*                                                                         *)
(* The argument for both is by ranks.  The number of members below a       *)
(* member is a natural number, and a non-empty set of natural numbers has  *)
(* a least one (the order on Nat is well founded); from the least member   *)
(* onward every rank up to the size of the set is taken.                   *)
(***************************************************************************)
EXTENDS Ordering, FiniteSetTheorems, SequenceTheorems, TLAPS

-----------------------------------------------------------------------------
(* Least members and finite sets of indices.                               *)

\* The least-number principle, for sets.
LEMMA LeastNumber ==
    ASSUME NEW T \in SUBSET Nat, T # {}
    PROVE  \E m \in T : \A n \in T : m <= n
<1> DEFINE R == {ss \in Nat \X Nat : ss[1] < ss[2]}
<1>1. IsWellFoundedOn(R, Nat)
  BY NatLessThanWellFounded DEF OpToRel
<1>2. \E m \in T : \A n \in T : <<n, m>> \notin R
  <2> HIDE DEF R
  <2> QED BY <1>1, WFMin
<1>3. PICK m \in T : \A n \in T : <<n, m>> \notin R
  BY <1>2
<1>4. \A n \in T : n \in Nat /\ m \in Nat
  OBVIOUS
<1>5. \A n \in T : ~(n < m)
  BY <1>3, <1>4
<1> QED BY <1>4, <1>5

\* There are n numbers from 1 to n.
LEMMA Interval ==
    ASSUME NEW n \in Nat
    PROVE  IsFiniteSet(1..n) /\ Cardinality(1..n) = n
  BY FS_Interval

\* The indices of a sequence that satisfy a condition are finitely many.
LEMMA SomeIndices ==
    ASSUME NEW n \in Nat, NEW S \in SUBSET (1..n)
    PROVE  /\ IsFiniteSet(S) /\ Cardinality(S) \in Nat /\ Cardinality(S) <= n
           /\ \A i \in S : i \in Nat
<1>1. IsFiniteSet(1..n) /\ Cardinality(1..n) = n
  BY Interval
<1>2. \A i \in S : i \in Nat
  OBVIOUS
<1> QED BY <1>1, <1>2, FS_Subset, FS_CardinalityType

\* A part of a finite set is finite and no larger, and smaller if it leaves out a
\* member.
LEMMA Part ==
    ASSUME NEW S, IsFiniteSet(S), NEW T \in SUBSET S
    PROVE  /\ IsFiniteSet(T) /\ Cardinality(T) \in Nat /\ Cardinality(S) \in Nat
           /\ Cardinality(T) <= Cardinality(S)
           /\ T # S => Cardinality(T) < Cardinality(S)
<1>1. /\ IsFiniteSet(T) /\ Cardinality(T) <= Cardinality(S)
      /\ Cardinality(S) = Cardinality(T) => S = T
  BY FS_Subset
<1>2. Cardinality(T) \in Nat /\ Cardinality(S) \in Nat
  BY <1>1, FS_CardinalityType
<1> QED BY <1>1, <1>2

\* The numbers from 1 to n that are not in S.
LEMMA Complement ==
    ASSUME NEW n \in Nat, NEW S \in SUBSET (1..n)
    PROVE  Cardinality((1..n) \ S) = n - Cardinality(S)
<1>1. IsFiniteSet(1..n) /\ Cardinality(1..n) = n
  BY Interval
<1>2. (1..n) \cap S = S
  OBVIOUS
<1>3. Cardinality((1..n) \ S) = Cardinality(1..n) - Cardinality((1..n) \cap S)
  BY <1>1, FS_Difference
<1> QED BY <1>1, <1>2, <1>3

-----------------------------------------------------------------------------
(* The n-th member of a set of indices.                                    *)

Below(S, i) == {j \in S : j < i}

\* Of two members, the smaller has fewer below it.
LEMMA BelowGrows ==
    ASSUME NEW L \in Nat, NEW S \in SUBSET (1..L)
    PROVE  \A i, j \in S : i < j => Cardinality(Below(S, i)) < Cardinality(Below(S, j))
<1> SUFFICES ASSUME NEW i \in S, NEW j \in S, i < j
             PROVE  Cardinality(Below(S, i)) < Cardinality(Below(S, j))
  OBVIOUS
<1>1. IsFiniteSet(S) /\ i \in Nat /\ j \in Nat /\ \A k \in S : k \in Nat
  BY SomeIndices
<1>2. Below(S, i) \in SUBSET Below(S, j) /\ i \in Below(S, j) /\ i \notin Below(S, i)
  <2>1. \A k \in S : k < i => k < j
    BY <1>1
  <2>2. ~(i < i)
    BY <1>1
  <2> QED BY <2>1, <2>2 DEF Below
<1>3. IsFiniteSet(Below(S, j))
  BY <1>1, FS_Subset DEF Below
<1> QED BY <1>2, <1>3, Part

\* Every rank short of the size of the set belongs to a member.
LEMMA RanksTaken ==
    ASSUME NEW L \in Nat, NEW S \in SUBSET (1..L), NEW n \in 0..(Cardinality(S) - 1)
    PROVE  \E i \in S : Cardinality(Below(S, i)) = n
<1> DEFINE Missing == {k \in 0..(Cardinality(S) - 1) :
                          \A i \in S : Cardinality(Below(S, i)) # k}
<1>1. IsFiniteSet(S) /\ Cardinality(S) \in Nat /\ \A i \in S : i \in Nat
  BY SomeIndices
<1> SUFFICES ASSUME Missing # {} PROVE FALSE
  OBVIOUS
<1>2. PICK m \in Missing : \A k \in Missing : m <= k
  <2>1. Missing \in SUBSET Nat
    BY <1>1
  <2> QED BY <2>1, LeastNumber
<1>a. m \in Nat /\ m < Cardinality(S) /\ \A i \in S : Cardinality(Below(S, i)) # m
  BY <1>1
<1>3. PICK Lower \in SUBSET S : /\ Cardinality(Lower) = m
                                /\ \A i \in Lower, j \in S : j < i => j \in Lower
  <2>1. CASE m = 0
    BY <2>1, FS_EmptySet
  <2>2. CASE m > 0
    <3>1. m - 1 \in 0..(Cardinality(S) - 1) /\ m - 1 \notin Missing
      BY <1>1, <1>2, <1>a, <2>2
    <3>2. PICK i \in S : Cardinality(Below(S, i)) = m - 1
      BY <3>1
    <3>3. IsFiniteSet(Below(S, i)) /\ i \notin Below(S, i)
      BY <1>1, FS_Subset DEF Below
    <3>4. Cardinality(Below(S, i) \cup {i}) = Cardinality(Below(S, i)) + 1
      BY <3>3, FS_AddElement
    <3>5. \A a \in Below(S, i) \cup {i}, b \in S : b < a => b \in Below(S, i) \cup {i}
      BY <1>1 DEF Below
    <3>6. Cardinality(Below(S, i) \cup {i}) = m
      BY <1>a, <3>2, <3>4
    <3> QED BY <3>5, <3>6 DEF Below
  <2> QED BY <1>a, <2>1, <2>2
<1>4. S \ Lower # {} /\ S \ Lower \in SUBSET Nat
  <2>1. Lower # S
    BY <1>3, <1>a
  <2> QED BY <1>1, <2>1
<1>5. PICK i \in S \ Lower : \A j \in S \ Lower : i <= j
  BY <1>4, LeastNumber
<1>6. Below(S, i) = Lower
  <2>1. \A j \in S : j < i => j \in Lower
    BY <1>1, <1>5
  <2>2. \A j \in Lower : j < i
    BY <1>1, <1>3, <1>5
  <2> QED BY <2>1, <2>2 DEF Below
<1> QED BY <1>a, <1>3, <1>5, <1>6

\* Nth is the member with that rank.
LEMMA NthMember ==
    ASSUME NEW L \in Nat, NEW S \in SUBSET (1..L), NEW n \in 0..(Cardinality(S) - 1)
    PROVE  Nth(S, n) \in S /\ Cardinality(Below(S, Nth(S, n))) = n
<1>1. \E i \in S : Cardinality({j \in S : j < i}) = n
  BY RanksTaken DEF Below
<1>2. Nth(S, n) \in S /\ Cardinality({j \in S : j < Nth(S, n)}) = n
  BY <1>1 DEF Nth
<1> QED BY <1>2 DEF Below

\* A higher rank is a larger member.
LEMMA NthIncreases ==
    ASSUME NEW L \in Nat, NEW S \in SUBSET (1..L),
           NEW m \in 0..(Cardinality(S) - 1), NEW n \in 0..(Cardinality(S) - 1), m < n
    PROVE  Nth(S, m) < Nth(S, n)
<1>1. /\ Nth(S, m) \in S /\ Cardinality(Below(S, Nth(S, m))) = m
      /\ Nth(S, n) \in S /\ Cardinality(Below(S, Nth(S, n))) = n
  BY NthMember
<1>2. \A i \in S : i \in Nat
  BY SomeIndices
<1>3. \A i, j \in S : i < j => Cardinality(Below(S, i)) < Cardinality(Below(S, j))
  BY BelowGrows
<1>4. m \in Int /\ n \in Int /\ ~(n < m) /\ n # m
  BY SomeIndices
<1>5. ~(Nth(S, n) < Nth(S, m)) /\ Nth(S, n) # Nth(S, m)
  BY <1>1, <1>3, <1>4
<1>6. Nth(S, m) \in Nat /\ Nth(S, n) \in Nat
  BY <1>1, <1>2
<1> QED BY <1>5, <1>6

\* Every member has a rank.
LEMMA EveryMemberRanked ==
    ASSUME NEW L \in Nat, NEW S \in SUBSET (1..L), NEW i \in S
    PROVE  \E n \in 0..(Cardinality(S) - 1) : Nth(S, n) = i
<1>1. IsFiniteSet(S) /\ Cardinality(S) \in Nat /\ \A k \in S : k \in Nat
  BY SomeIndices
<1>2. PICK n : n = Cardinality(Below(S, i))
  OBVIOUS
<1>3. Below(S, i) \in SUBSET S /\ i \notin Below(S, i)
  BY <1>1 DEF Below
<1>4. n \in Nat /\ n < Cardinality(S)
  BY <1>1, <1>2, <1>3, Part
<1>5. n \in 0..(Cardinality(S) - 1)
  BY <1>1, <1>4
<1>6. Nth(S, n) \in S /\ Cardinality(Below(S, Nth(S, n))) = n
  BY <1>5, NthMember
<1>7. \A k, j \in S : k < j => Cardinality(Below(S, k)) < Cardinality(Below(S, j))
  BY BelowGrows
<1>8. Nth(S, n) = i
  <2>1. ~(n < n)
    BY <1>4
  <2>2. ~(Nth(S, n) < i) /\ ~(i < Nth(S, n))
    BY <1>2, <1>6, <1>7, <2>1
  <2>3. Nth(S, n) \in Nat /\ i \in Nat
    BY <1>1, <1>6
  <2> QED BY <2>2, <2>3
<1> QED BY <1>5, <1>8

-----------------------------------------------------------------------------
(* Filter.                                                                 *)

Places(r, keep) == {i \in DOMAIN r : r[i] \in keep}
Place(r, keep, n) == Nth(Places(r, keep), n - 1)

\* The n-th member of the result is the n-th member of r that is kept, and every
\* member that is kept has its place in the result.
LEMMA FilterKeeps ==
    ASSUME NEW A, NEW r \in Seq(A), NEW keep
    PROVE  /\ Filter(r, keep) \in Seq(A)
           /\ IsFiniteSet(Places(r, keep)) /\ Cardinality(Places(r, keep)) \in Nat
           /\ Len(Filter(r, keep)) = Cardinality(Places(r, keep))
           /\ DOMAIN Filter(r, keep) = 1..Cardinality(Places(r, keep))
           /\ \A n \in DOMAIN Filter(r, keep) :
                 /\ Place(r, keep, n) \in Places(r, keep)
                 /\ Filter(r, keep)[n] = r[Place(r, keep, n)]
           /\ \A m, n \in DOMAIN Filter(r, keep) :
                 m < n => Place(r, keep, m) < Place(r, keep, n)
           /\ \A i \in Places(r, keep) : \E n \in DOMAIN Filter(r, keep) :
                 Place(r, keep, n) = i
<1> DEFINE at == Places(r, keep)
           f  == Filter(r, keep)
<1>1. Len(r) \in Nat /\ DOMAIN r = 1..Len(r) /\ at \in SUBSET (1..Len(r))
  BY DEF Places
<1> HIDE DEF at
<1>2. IsFiniteSet(at) /\ Cardinality(at) \in Nat
  BY <1>1, SomeIndices
<1>3. f = [n \in 1..Cardinality(at) |-> r[Place(r, keep, n)]]
  BY DEF Filter, Place, Places, at
<1> HIDE DEF f
<1>4. \A n \in 1..Cardinality(at) : Place(r, keep, n) \in at
  <2> TAKE n \in 1..Cardinality(at)
  <2>1. n - 1 \in 0..(Cardinality(at) - 1)
    BY <1>2
  <2> QED BY <1>1, <2>1, NthMember DEF Place, at
<1>5. \A m, n \in 1..Cardinality(at) : m < n => Place(r, keep, m) < Place(r, keep, n)
  <2> TAKE m, n \in 1..Cardinality(at)
  <2> HAVE m < n
  <2>1. /\ m - 1 \in 0..(Cardinality(at) - 1) /\ n - 1 \in 0..(Cardinality(at) - 1)
        /\ m - 1 < n - 1
    BY <1>2
  <2> QED BY <1>1, <2>1, NthIncreases DEF Place, at
<1>6. \A i \in at : \E n \in 1..Cardinality(at) : Place(r, keep, n) = i
  <2> TAKE i \in at
  <2>1. PICK n \in 0..(Cardinality(at) - 1) : Nth(at, n) = i
    BY <1>1, EveryMemberRanked
  <2>2. n + 1 \in 1..Cardinality(at) /\ (n + 1) - 1 = n
    BY <1>2
  <2>3. Place(r, keep, n + 1) = i
    BY <2>1, <2>2 DEF Place, at
  <2> QED BY <2>2, <2>3
<1>7. \A n \in 1..Cardinality(at) : r[Place(r, keep, n)] \in A
  <2>1. \A i \in 1..Len(r) : r[i] \in A
    OBVIOUS
  <2> QED BY <1>1, <1>4, <2>1
<1>8. f \in Seq(A) /\ Len(f) = Cardinality(at) /\ DOMAIN f = 1..Cardinality(at)
  BY <1>2, <1>3, <1>7
<1> QED BY <1>2, <1>3, <1>4, <1>5, <1>6, <1>8 DEF f, at

\* The members of the result are the members of r that are in keep.
LEMMA FilterMembers ==
    ASSUME NEW A, NEW r \in Seq(A), NEW keep
    PROVE  Members(Filter(r, keep)) = Members(r) \cap keep
<1>1. \A n \in DOMAIN Filter(r, keep) :
         /\ Place(r, keep, n) \in Places(r, keep)
         /\ Filter(r, keep)[n] = r[Place(r, keep, n)]
  BY FilterKeeps
<1>2. \A i \in Places(r, keep) : \E n \in DOMAIN Filter(r, keep) : Place(r, keep, n) = i
  BY FilterKeeps
<1> QED BY <1>1, <1>2 DEF Places, Members

\* Nothing is kept exactly when no member of r is in keep.
LEMMA FilterEmpty ==
    ASSUME NEW A, NEW r \in Seq(A), NEW keep
    PROVE  Filter(r, keep) = <<>> <=> Members(r) \cap keep = {}
<1>1. Filter(r, keep) \in Seq(A)
  BY FilterKeeps
<1>2. Filter(r, keep) = <<>> <=> DOMAIN Filter(r, keep) = {}
  BY <1>1
<1>3. Members(Filter(r, keep)) = Members(r) \cap keep
  BY FilterMembers
<1> QED BY <1>2, <1>3 DEF Members

-----------------------------------------------------------------------------
(* sorted[i].                                                              *)

UpTo(s, v) == {k \in DOMAIN s : s[k] <= v}
Under(s, v) == {k \in DOMAIN s : s[k] < v}

\* Some index of a non-empty set of them has a largest value.
LEMMA LargestValue ==
    ASSUME NEW s \in Seq(Int), NEW K \in SUBSET DOMAIN s, K # {}
    PROVE  \E k \in K : \A j \in K : s[j] <= s[k]
<1> DEFINE above(k) == {j \in K : s[j] > s[k]}
           T == {Cardinality(above(k)) : k \in K}
<1>1. Len(s) \in Nat /\ DOMAIN s = 1..Len(s) /\ \A k \in DOMAIN s : s[k] \in Int
  OBVIOUS
<1>2. \A k \in K : IsFiniteSet(above(k)) /\ Cardinality(above(k)) \in Nat
  BY <1>1, SomeIndices
<1>3. PICK k \in K : \A j \in K : Cardinality(above(k)) <= Cardinality(above(j))
  <2>1. T \in SUBSET Nat /\ T # {}
    BY <1>2
  <2>2. PICK t \in T : \A u \in T : t <= u
    BY <2>1, LeastNumber
  <2> QED BY <2>2
<1>4. ASSUME NEW j \in K, ~(s[j] <= s[k]) PROVE FALSE
  <2>0. s[j] \in Int /\ s[k] \in Int /\ s[j] > s[k] /\ \A i \in K : s[i] \in Int
    BY <1>1, <1>4
  <2>1. above(j) \in SUBSET above(k)
    BY <2>0
  <2>2. j \in above(k) /\ j \notin above(j)
    BY <2>0
  <2>3. IsFiniteSet(above(k)) /\ above(j) # above(k)
    BY <1>2, <2>2
  <2> HIDE DEF above
  <2>4. Cardinality(above(j)) < Cardinality(above(k))
    BY <2>1, <2>3, Part
  <2>5. Cardinality(above(k)) <= Cardinality(above(j))
    BY <1>3
  <2>6. Cardinality(above(k)) \in Nat /\ Cardinality(above(j)) \in Nat
    BY <1>2
  <2> QED BY <2>4, <2>5, <2>6
<1> QED BY <1>4

\* Counts of indices are numbers, and what lies under v lies up to v.
LEMMA Counts ==
    ASSUME NEW s \in Seq(Int), NEW v \in Int
    PROVE  /\ IsFiniteSet(UpTo(s, v)) /\ Cardinality(UpTo(s, v)) \in 0..Len(s)
           /\ IsFiniteSet(Under(s, v)) /\ Cardinality(Under(s, v)) \in 0..Len(s)
           /\ \A w \in Int : w < v => /\ UpTo(s, w) \in SUBSET Under(s, v)
                                      /\ Cardinality(UpTo(s, w)) <= Cardinality(Under(s, v))
<1>1. Len(s) \in Nat /\ DOMAIN s = 1..Len(s) /\ \A k \in DOMAIN s : s[k] \in Int
  OBVIOUS
<1>2. UpTo(s, v) \in SUBSET (1..Len(s)) /\ Under(s, v) \in SUBSET (1..Len(s))
  BY <1>1 DEF UpTo, Under
<1>3. /\ IsFiniteSet(UpTo(s, v)) /\ Cardinality(UpTo(s, v)) \in 0..Len(s)
      /\ IsFiniteSet(Under(s, v)) /\ Cardinality(Under(s, v)) \in 0..Len(s)
  BY <1>1, <1>2, SomeIndices
<1>4. ASSUME NEW w \in Int, w < v
      PROVE  /\ UpTo(s, w) \in SUBSET Under(s, v)
             /\ Cardinality(UpTo(s, w)) <= Cardinality(Under(s, v))
  <2>1. UpTo(s, w) \in SUBSET Under(s, v)
    BY <1>1, <1>4 DEF UpTo, Under
  <2> QED BY <1>3, <2>1, Part
<1> QED BY <1>3, <1>4

\* sorted[i] is a value of s; at most i values are smaller and more than i are no
\* larger.
LEMMA SmallestRank ==
    ASSUME NEW s \in Seq(Int), NEW i \in 0..(Len(s) - 1)
    PROVE  /\ \E k \in DOMAIN s : Smallest(s, i) = s[k]
           /\ Smallest(s, i) \in Int
           /\ Cardinality(Under(s, Smallest(s, i))) <= i
           /\ Cardinality(UpTo(s, Smallest(s, i))) > i
<1> DEFINE V == {s[k] : k \in DOMAIN s}
           Good == {v \in V : Cardinality(UpTo(s, v)) > i}
           T == {Cardinality(UpTo(s, v)) : v \in Good}
<1>1. /\ Len(s) \in Nat /\ DOMAIN s = 1..Len(s) /\ \A k \in DOMAIN s : s[k] \in Int
      /\ i \in Nat /\ i < Len(s)
  OBVIOUS
<1>2. \A v \in V : v \in Int /\ Cardinality(UpTo(s, v)) \in Nat
  BY <1>1, Counts
<1>3. Good # {}
  <2>1. DOMAIN s # {}
    BY <1>1
  <2>2. PICK k \in DOMAIN s : \A j \in DOMAIN s : s[j] <= s[k]
    BY <2>1, LargestValue
  <2>3. UpTo(s, s[k]) = 1..Len(s)
    BY <1>1, <2>2 DEF UpTo
  <2>4. Cardinality(UpTo(s, s[k])) = Len(s)
    <3>1. Cardinality(1..Len(s)) = Len(s)
      BY <1>1, Interval
    <3> QED BY <2>3, <3>1
  <2> QED BY <1>1, <2>4
<1>4. PICK v \in Good : \A w \in Good : Cardinality(UpTo(s, v)) <= Cardinality(UpTo(s, w))
  <2>1. T \in SUBSET Nat /\ T # {}
    BY <1>2, <1>3
  <2>2. PICK t \in T : \A u \in T : t <= u
    BY <2>1, LeastNumber
  <2> QED BY <2>2
<1>5. v \in Int /\ v \in V /\ Cardinality(UpTo(s, v)) > i
  BY <1>2
<1>6. Cardinality(Under(s, v)) <= i
  <2>0. Cardinality(Under(s, v)) \in 0..Len(s)
    BY <1>5, Counts
  <2> SUFFICES ASSUME Cardinality(Under(s, v)) > i PROVE FALSE
    BY <1>1, <2>0
  <2>1. Under(s, v) # {}
    <3>1. Cardinality(Under(s, v)) # 0
      BY <1>1, <2>0
    <3> QED BY <3>1, FS_EmptySet
  <2>2. PICK k \in Under(s, v) : \A j \in Under(s, v) : s[j] <= s[k]
    <3>1. Under(s, v) \in SUBSET DOMAIN s
      BY DEF Under
    <3> QED BY <2>1, <3>1, LargestValue
  <2>3. k \in DOMAIN s /\ s[k] \in Int /\ s[k] < v
    BY <1>1 DEF Under
  <2>4. UpTo(s, s[k]) = Under(s, v)
    BY <1>1, <1>5, <2>2, <2>3 DEF UpTo, Under
  <2>5. s[k] \in Good
    BY <2>3, <2>4
  <2>6. Cardinality(UpTo(s, v)) <= Cardinality(Under(s, v))
    BY <1>4, <2>4, <2>5
  <2>7. Under(s, v) \in SUBSET UpTo(s, v) /\ Under(s, v) # UpTo(s, v)
    BY <1>1, <1>5 DEF UpTo, Under
  <2>8. IsFiniteSet(UpTo(s, v))
    BY <1>5, Counts
  <2>9. /\ Cardinality(Under(s, v)) < Cardinality(UpTo(s, v))
        /\ Cardinality(Under(s, v)) \in Nat /\ Cardinality(UpTo(s, v)) \in Nat
    BY <2>7, <2>8, Part
  <2> QED BY <2>6, <2>9
<1>7. \E x \in V : /\ Cardinality({k \in DOMAIN s : s[k] < x}) <= i
                   /\ Cardinality({k \in DOMAIN s : s[k] <= x}) > i
  BY <1>5, <1>6 DEF UpTo, Under
<1>8. /\ Smallest(s, i) \in V
      /\ Cardinality({k \in DOMAIN s : s[k] < Smallest(s, i)}) <= i
      /\ Cardinality({k \in DOMAIN s : s[k] <= Smallest(s, i)}) > i
  BY <1>7 DEF Smallest
<1> QED BY <1>1, <1>8 DEF UpTo, Under

\* A number with more than i values up to it is no smaller than sorted[i], one with
\* no more than i values under it no larger.
LEMMA SmallestBounds ==
    ASSUME NEW s \in Seq(Int), NEW i \in 0..(Len(s) - 1), NEW w \in Int
    PROVE  /\ Cardinality(UpTo(s, w)) > i => Smallest(s, i) <= w
           /\ Cardinality(Under(s, w)) <= i => w <= Smallest(s, i)
<1>1. /\ Smallest(s, i) \in Int
      /\ Cardinality(Under(s, Smallest(s, i))) <= i
      /\ Cardinality(UpTo(s, Smallest(s, i))) > i
  BY SmallestRank
<1>2. PICK v \in Int : v = Smallest(s, i)
  BY <1>1
<1>3. /\ Cardinality(UpTo(s, v)) \in Nat /\ Cardinality(Under(s, v)) \in Nat
      /\ Cardinality(UpTo(s, w)) \in Nat /\ Cardinality(Under(s, w)) \in Nat /\ i \in Nat
  <2>1. Cardinality(UpTo(s, v)) \in 0..Len(s) /\ Cardinality(Under(s, v)) \in 0..Len(s)
    BY Counts
  <2>2. Cardinality(UpTo(s, w)) \in 0..Len(s) /\ Cardinality(Under(s, w)) \in 0..Len(s)
    BY Counts
  <2> QED BY <2>1, <2>2
<1>4. w < v => Cardinality(UpTo(s, w)) <= Cardinality(Under(s, v))
  BY Counts
<1>5. v < w => Cardinality(UpTo(s, v)) <= Cardinality(Under(s, w))
  BY Counts
<1> QED BY <1>1, <1>2, <1>3, <1>4, <1>5

\* The values at two ranks are in order.
LEMMA SmallestIncreases ==
    ASSUME NEW s \in Seq(Int), NEW i \in 0..(Len(s) - 1), NEW j \in 0..(Len(s) - 1), i <= j
    PROVE  Smallest(s, i) <= Smallest(s, j)
<1>1. Smallest(s, j) \in Int /\ Cardinality(UpTo(s, Smallest(s, j))) > j
  BY SmallestRank
<1>2. Cardinality(UpTo(s, Smallest(s, j))) \in Int /\ i \in Int /\ j \in Int
  BY <1>1, Counts
<1>3. Cardinality(UpTo(s, Smallest(s, j))) > i
  BY <1>1, <1>2
<1> QED BY <1>1, <1>3, SmallestBounds

=============================================================================
