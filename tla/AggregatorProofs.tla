---------------------------- MODULE AggregatorProofs ----------------------------
(***************************************************************************)
(* What the ranking, the three ways of selecting from it and the fleet P99 *)
(* of the status guarantee, for fleets of any size and any measurements.   *)
(***************************************************************************)
EXTENDS Aggregator, OrderingProofs

-----------------------------------------------------------------------------
(* The fleet P99.                                                          *)

\* ComputeFleetP99 is the nearest-rank 99th percentile: fewer than one pod in a
\* hundred is slower, and at least one in a hundred is as slow.  The index of the
\* code never runs past the end of the slice, also where it moves at 100, 200, ...
THEOREM FleetP99IsThePercentile ==
    ASSUME NEW s \in Seq(Int), s # <<>>
    PROVE  LET p99 == ComputeFleetP99(s)
           IN  /\ Cardinality({k \in DOMAIN s : s[k] > p99}) * 100 < Len(s)
               /\ Cardinality({k \in DOMAIN s : s[k] >= p99}) * 100 >= Len(s)
<1> DEFINE idx == (99 * Len(s)) \div 100
           v   == Smallest(s, idx)
<1>1. Len(s) \in Nat /\ Len(s) > 0 /\ DOMAIN s = 1..Len(s)
  OBVIOUS
<1>2. /\ idx \in Nat /\ idx < Len(s)
      /\ 100 * idx <= 99 * Len(s) /\ 99 * Len(s) < 100 * (idx + 1)
  BY <1>1
<1>3. idx \in 0..(Len(s) - 1) /\ ComputeFleetP99(s) = v
  BY <1>1, <1>2 DEF ComputeFleetP99
<1> HIDE DEF idx
<1>4. /\ v \in Int /\ Cardinality(Under(s, v)) <= idx /\ Cardinality(UpTo(s, v)) > idx
  BY <1>3, SmallestRank
<1> HIDE DEF v
<1>5. /\ Cardinality(Under(s, v)) \in 0..Len(s) /\ Cardinality(UpTo(s, v)) \in 0..Len(s)
      /\ IsFiniteSet(Under(s, v)) /\ IsFiniteSet(UpTo(s, v))
  BY <1>4, Counts
<1>6. \A k \in DOMAIN s : s[k] \in Int
  OBVIOUS
<1>7. /\ {k \in DOMAIN s : s[k] > v} = (1..Len(s)) \ UpTo(s, v)
      /\ {k \in DOMAIN s : s[k] >= v} = (1..Len(s)) \ Under(s, v)
  BY <1>1, <1>4, <1>6 DEF UpTo, Under
<1>8. UpTo(s, v) \in SUBSET (1..Len(s)) /\ Under(s, v) \in SUBSET (1..Len(s))
  BY <1>1 DEF UpTo, Under
<1>9. /\ Cardinality((1..Len(s)) \ UpTo(s, v)) = Len(s) - Cardinality(UpTo(s, v))
      /\ Cardinality((1..Len(s)) \ Under(s, v)) = Len(s) - Cardinality(Under(s, v))
  BY <1>1, <1>8, Complement
<1>10. /\ (Len(s) - Cardinality(UpTo(s, v))) * 100 < Len(s)
       /\ (Len(s) - Cardinality(Under(s, v))) * 100 >= Len(s)
  <2>1. PICK up, under \in Nat : up = Cardinality(UpTo(s, v)) /\ under = Cardinality(Under(s, v))
    BY <1>5
  <2>2. (Len(s) - up) * 100 < Len(s) /\ (Len(s) - under) * 100 >= Len(s)
    BY <1>1, <1>2, <1>4, <2>1
  <2> QED BY <2>1, <2>2
<1> QED BY <1>3, <1>7, <1>9, <1>10

-----------------------------------------------------------------------------
(* Rankings.                                                               *)

\* RankPods lists every measured pod once, the fastest first.
LEMMA RankingListsAll ==
    ASSUME NEW P99, IsFiniteSet(DOMAIN P99), NEW r \in RankPods(P99)
    PROVE  /\ r \in Seq(DOMAIN P99) /\ DOMAIN r = 1..Len(r)
           /\ Len(r) = Cardinality(DOMAIN P99)
           /\ Members(r) = DOMAIN P99
           /\ \A i, j \in DOMAIN r : r[i] = r[j] => i = j
           /\ \A i, j \in DOMAIN r : i < j => P99[r[i]] <= P99[r[j]]
<1> DEFINE n == Cardinality(DOMAIN P99)
<1>1. n \in Nat
  BY FS_CardinalityType
<1>2. /\ r \in [1..n -> DOMAIN P99]
      /\ \A i, j \in DOMAIN r : r[i] = r[j] => i = j
      /\ \A i, j \in DOMAIN r : i < j => P99[r[i]] <= P99[r[j]]
  BY DEF RankPods, Orders, InOrder
<1>3. r \in Injection(1..n, DOMAIN P99)
  BY <1>2 DEF Injection, IsInjective
<1>4. Cardinality(1..n) = n
  BY <1>1, Interval
<1> HIDE DEF n
<1>5. r \in Surjection(1..n, DOMAIN P99)
  BY <1>3, <1>4, FS_Injection DEF n
<1>6. Members(r) = DOMAIN P99
  <2>1. \A x \in DOMAIN P99 : \E i \in 1..n : r[i] = x
    BY <1>5 DEF Surjection
  <2>2. \A i \in 1..n : r[i] \in DOMAIN P99
    BY <1>2
  <2>3. DOMAIN r = 1..n
    BY <1>2
  <2> QED BY <2>1, <2>2, <2>3 DEF Members
<1>7. r \in Seq(DOMAIN P99) /\ Len(r) = n /\ DOMAIN r = 1..Len(r)
  BY <1>1, <1>2
<1> QED BY <1>2, <1>6, <1>7 DEF n

\* How many pods topN and percentage keep of len.
Quota(spec, len) ==
    IF spec.Mode = "topN"
    THEN IF OrDefault(spec.TopN, 3) >= len THEN len ELSE OrDefault(spec.TopN, 3)
    ELSE LET n == (len * OrDefault(spec.Percentage, defaultPercentage)) \div 100
         IN  IF n < 1 THEN 1 ELSE n

\* The percentage of a policy and what it is of len pods.
LEMMA ShareBounds ==
    ASSUME NEW len \in Nat, NEW pct \in 1..100
    PROVE  /\ len * pct \in Nat /\ (len * pct) \div 100 \in 0..len
           /\ 100 * ((len * pct) \div 100) <= len * pct
           /\ len * pct < 100 * ((len * pct) \div 100 + 1)
<1>1. len * pct \in Nat /\ len * pct <= len * 100
  OBVIOUS
<1>2. PICK x \in Nat : x = len * pct
  BY <1>1
<1>3. /\ x \div 100 \in Nat /\ 100 * (x \div 100) <= x /\ x < 100 * (x \div 100 + 1)
  OBVIOUS
<1>4. x \div 100 <= len
  BY <1>1, <1>2, <1>3
<1> QED BY <1>2, <1>3, <1>4

\* topN and percentage keep the first of the ranking, at least one.
LEMMA SelectionIsPrefix ==
    ASSUME NEW spec \in SelectionSpec, spec.Mode # "threshold",
           NEW A, NEW r \in Seq(A), r # <<>>, NEW P99
    PROVE  /\ Quota(spec, Len(r)) \in 1..Len(r)
           /\ selectPods(spec, r, P99) = SubSeq(r, 1, Quota(spec, Len(r)))
<1>0. Len(r) \in Nat /\ Len(r) >= 1
  OBVIOUS
<1>1. CASE spec.Mode = "topN"
  <2>1. OrDefault(spec.TopN, 3) \in Nat \ {0}
    BY DEF SelectionSpec, OrDefault, Nil
  <2>2. r = SubSeq(r, 1, Len(r))
    OBVIOUS
  <2>3. /\ selectPods(spec, r, P99) = SelectTopN(r, OrDefault(spec.TopN, 3))
        /\ Quota(spec, Len(r)) = IF OrDefault(spec.TopN, 3) >= Len(r) THEN Len(r)
                                 ELSE OrDefault(spec.TopN, 3)
    BY <1>1 DEF selectPods, Quota
  <2> QED BY <1>0, <2>1, <2>2, <2>3 DEF SelectTopN
<1>2. CASE spec.Mode = "percentage"
  <2>1. PICK pct \in 1..100 : pct = OrDefault(spec.Percentage, defaultPercentage)
    BY DEF SelectionSpec, OrDefault, Nil, defaultPercentage
  <2>2. PICK n \in 0..Len(r) : n = (Len(r) * pct) \div 100
    BY <1>0, ShareBounds
  <2>3. /\ selectPods(spec, r, P99) = SelectTopPercent(r, pct)
        /\ Quota(spec, Len(r)) = IF n < 1 THEN 1 ELSE n
    BY <1>2, <2>1, <2>2 DEF selectPods, Quota
  <2>4. SelectTopPercent(r, pct) = SubSeq(r, 1, IF n < 1 THEN 1 ELSE n)
    <3>1. ~(pct <= 0) /\ ~((IF n < 1 THEN 1 ELSE n) > Len(r))
      BY <1>0
    <3> QED BY <2>2, <3>1 DEF SelectTopPercent
  <2> QED BY <1>0, <2>3, <2>4
<1> QED BY <1>1, <1>2 DEF SelectionSpec, SelectionMode

\* threshold keeps the pods within it, or the first of the ranking if there is none.
LEMMA SelectionByThreshold ==
    ASSUME NEW spec \in SelectionSpec, spec.Mode = "threshold",
           NEW P99, NEW A \in SUBSET DOMAIN P99, NEW r \in Seq(A), r # <<>>
    PROVE  LET within   == {ip \in DOMAIN P99 : P99[ip] <= spec.LatencyThreshold}
               selected == selectPods(spec, r, P99)
           IN  \/ /\ Members(r) \cap within # {} /\ selected = Filter(r, within)
                  /\ Members(selected) = Members(r) \cap within
               \/ /\ Members(r) \cap within = {} /\ selected = <<r[1]>>
                  /\ Members(selected) = {r[1]}
<1> DEFINE within   == {ip \in DOMAIN P99 : P99[ip] <= spec.LatencyThreshold}
           selected == selectPods(spec, r, P99)
<1>1. selected = IF Filter(r, within) = <<>> THEN <<r[1]>> ELSE Filter(r, within)
  BY DEF selectPods, SelectByThreshold
<1> HIDE DEF within, selected
<1>2. Members(Filter(r, within)) = Members(r) \cap within
  BY FilterMembers
<1>3. Filter(r, within) = <<>> <=> Members(r) \cap within = {}
  BY FilterEmpty
<1>4. Members(<<r[1]>>) = {r[1]}
  BY DEF Members
<1>5. CASE Filter(r, within) = <<>>
  BY <1>1, <1>3, <1>4, <1>5 DEF within, selected
<1>6. CASE Filter(r, within) # <<>>
  BY <1>1, <1>2, <1>3, <1>6 DEF within, selected
<1> QED BY <1>5, <1>6

\* selectPods keeps some of the pods it is handed, at least one if it is handed any.
LEMMA SelectionKeepsSome ==
    ASSUME NEW spec \in SelectionSpec,
           NEW P99, NEW A \in SUBSET DOMAIN P99, NEW r \in Seq(A)
    PROVE  LET selected == selectPods(spec, r, P99)
           IN  /\ selected \in Seq(A)
               /\ Members(selected) \subseteq Members(r)
               /\ Members(selected) = {} => r = <<>>
               /\ r = <<>> => selected = <<>>
<1> DEFINE selected == selectPods(spec, r, P99)
<1>0. Len(r) \in Nat /\ DOMAIN r = 1..Len(r)
  OBVIOUS
<1>1. CASE r = <<>>
  BY <1>1 DEF selectPods, Members
<1>2. CASE r # <<>> /\ spec.Mode # "threshold"
  <2>1. PICK n \in 1..Len(r) : selected = SubSeq(r, 1, n)
    BY <1>2, SelectionIsPrefix
  <2>2. /\ selected \in Seq(A) /\ Len(selected) = n /\ DOMAIN selected = 1..n
        /\ \A i \in 1..n : selected[i] = r[i]
    BY <2>1
  <2>3. 1 \in DOMAIN selected
    BY <2>2
  <2>4. \A i \in 1..n : i \in DOMAIN r
    BY <1>0
  <2> HIDE DEF selected
  <2>5. Members(selected) \subseteq Members(r) /\ Members(selected) # {}
    BY <2>2, <2>3, <2>4 DEF Members
  <2> QED BY <1>2, <2>2, <2>5 DEF selected
<1>3. CASE r # <<>> /\ spec.Mode = "threshold"
  <2> DEFINE within == {ip \in DOMAIN P99 : P99[ip] <= spec.LatencyThreshold}
  <2>1. \/ /\ Members(r) \cap within # {} /\ selected = Filter(r, within)
           /\ Members(selected) = Members(r) \cap within
        \/ selected = <<r[1]>> /\ Members(selected) = {r[1]}
    BY <1>3, SelectionByThreshold
  <2> HIDE DEF within
  <2>2. r[1] \in A /\ r[1] \in Members(r)
    BY <1>3 DEF Members
  <2>3. Filter(r, within) \in Seq(A)
    BY FilterKeeps
  <2> HIDE DEF selected
  <2>4. selected \in Seq(A)
    BY <2>1, <2>2, <2>3
  <2>5. Members(selected) \subseteq Members(r) /\ Members(selected) # {}
    BY <2>1, <2>2
  <2> QED BY <1>3, <2>4, <2>5 DEF selected
<1> QED BY <1>1, <1>2, <1>3

-----------------------------------------------------------------------------
(* What selectPods makes of a ranking.                                     *)

\* The measurements of a fleet.
Measured(P99) == IsFiniteSet(DOMAIN P99) /\ \A ip \in DOMAIN P99 : P99[ip] \in Nat

\* Selecting from a ranking never leaves out a pod in favour of a slower one.
LEMMA FastestSelected ==
    ASSUME NEW spec \in SelectionSpec, NEW P99, Measured(P99), NEW r \in RankPods(P99)
    PROVE  LET selected == selectPods(spec, r, P99)
           IN  \A kept \in Members(selected), out \in DOMAIN P99 \ Members(selected) :
                  P99[kept] <= P99[out]
<1> DEFINE selected == selectPods(spec, r, P99)
<1> SUFFICES ASSUME NEW kept \in Members(selected),
                    NEW out \in DOMAIN P99 \ Members(selected)
             PROVE  P99[kept] <= P99[out]
  OBVIOUS
<1>0. /\ r \in Seq(DOMAIN P99) /\ DOMAIN r = 1..Len(r) /\ Len(r) \in Nat
      /\ Members(r) = DOMAIN P99
      /\ \A i, j \in DOMAIN r : i < j => P99[r[i]] <= P99[r[j]]
  BY RankingListsAll DEF Measured
<1>1. CASE r = <<>>
  BY <1>1 DEF selectPods, Members
<1>2. CASE r # <<>> /\ spec.Mode # "threshold"
  <2>1. PICK n \in 1..Len(r) : selected = SubSeq(r, 1, n)
    BY <1>0, <1>2, SelectionIsPrefix
  <2>2. DOMAIN selected = 1..n /\ \A i \in 1..n : selected[i] = r[i]
    BY <1>0, <2>1
  <2> HIDE DEF selected
  <2>3. PICK i \in 1..n : kept = r[i]
    BY <2>2 DEF Members
  <2>4. PICK j \in DOMAIN r : out = r[j]
    BY <1>0 DEF Members
  <2>5. j \notin 1..n
    BY <2>2, <2>4 DEF Members
  <2>6. i \in DOMAIN r /\ i < j
    BY <1>0, <2>5
  <2> QED BY <1>0, <2>3, <2>4, <2>6
<1>3. CASE r # <<>> /\ spec.Mode = "threshold"
  <2> DEFINE within == {ip \in DOMAIN P99 : P99[ip] <= spec.LatencyThreshold}
  <2>1. \/ Members(selected) = Members(r) \cap within
        \/ Members(r) \cap within = {} /\ Members(selected) = {r[1]}
    BY <1>0, <1>3, SelectionByThreshold
  <2>2. spec.LatencyThreshold \in Nat /\ \A ip \in DOMAIN P99 : P99[ip] \in Nat
    BY DEF SelectionSpec, Measured
  <2> HIDE DEF selected
  <2>3. CASE Members(selected) = Members(r) \cap within
    BY <1>0, <2>2, <2>3
  <2>4. CASE Members(selected) = {r[1]}
    <3>1. \A j \in DOMAIN r : j = 1 \/ P99[r[1]] <= P99[r[j]]
      BY <1>0
    <3>2. PICK j \in DOMAIN r : out = r[j]
      BY <1>0 DEF Members
    <3> QED BY <2>4, <3>1, <3>2
  <2> QED BY <2>1, <2>3, <2>4
<1> QED BY <1>1, <1>2, <1>3

\* As many members of a ranking are in a set as the set has measured pods.
LEMMA PlacesCount ==
    ASSUME NEW P99, Measured(P99), NEW r \in RankPods(P99), NEW S \in SUBSET DOMAIN P99
    PROVE  Cardinality(Places(r, S)) = Cardinality(S) /\ IsFiniteSet(Places(r, S))
<1>0. /\ r \in Seq(DOMAIN P99) /\ DOMAIN r = 1..Len(r) /\ Len(r) \in Nat
      /\ Members(r) = DOMAIN P99
      /\ \A i, j \in DOMAIN r : r[i] = r[j] => i = j
  BY RankingListsAll DEF Measured
<1>1. IsFiniteSet(Places(r, S))
  BY <1>0, SomeIndices DEF Places
<1> DEFINE f == [i \in Places(r, S) |-> r[i]]
<1>2. f \in [Places(r, S) -> S] /\ \A i \in Places(r, S) : f[i] = r[i]
  BY DEF Places
<1>3. \A i, j \in Places(r, S) : f[i] = f[j] => i = j
  BY <1>0 DEF Places
<1>4. \A ip \in S : \E i \in Places(r, S) : f[i] = ip
  BY <1>0 DEF Places, Members
<1> HIDE DEF f
<1>5. f \in Bijection(Places(r, S), S)
  BY <1>2, <1>3, <1>4 DEF Bijection, Injection, IsInjective, Surjection
<1>6. ExistsBijection(Places(r, S), S)
  BY <1>5 DEF ExistsBijection
<1> QED BY <1>1, <1>6, FS_Bijection

\* How many pods are selected from a ranking.
LEMMA SelectedNumber ==
    ASSUME NEW spec \in SelectionSpec, NEW P99, Measured(P99), NEW r \in RankPods(P99),
           r # <<>>
    PROVE  LET number == Len(selectPods(spec, r, P99))
               total  == Cardinality(DOMAIN P99)
               within == Cardinality({ip \in DOMAIN P99 : P99[ip] <= spec.LatencyThreshold})
           IN  /\ total \in Nat /\ total > 0
               /\ spec.Mode # "threshold" => number = Quota(spec, total)
               /\ spec.Mode = "threshold" => number = within \/ (within = 0 /\ number = 1)
<1> DEFINE selected == selectPods(spec, r, P99)
           near == {ip \in DOMAIN P99 : P99[ip] <= spec.LatencyThreshold}
<1>0. /\ r \in Seq(DOMAIN P99) /\ Len(r) = Cardinality(DOMAIN P99)
      /\ Members(r) = DOMAIN P99 /\ Len(r) \in Nat /\ Len(r) > 0
  BY RankingListsAll DEF Measured
<1>1. CASE spec.Mode # "threshold"
  <2>1. Quota(spec, Len(r)) \in 1..Len(r) /\ selected = SubSeq(r, 1, Quota(spec, Len(r)))
    BY <1>0, <1>1, SelectionIsPrefix
  <2>2. Len(selected) = Quota(spec, Len(r))
    BY <1>0, <2>1
  <2> QED BY <1>0, <1>1, <2>2
<1>2. CASE spec.Mode = "threshold"
  <2>1. \/ selected = Filter(r, near)
        \/ Members(r) \cap near = {} /\ selected = <<r[1]>>
    BY <1>0, <1>2, SelectionByThreshold
  <2>2. Len(Filter(r, near)) = Cardinality(Places(r, near))
    BY <1>0, FilterKeeps
  <2>3. Cardinality(Places(r, near)) = Cardinality(near)
    BY PlacesCount
  <2>4. Members(r) \cap near = {} => Cardinality(near) = 0
    BY <1>0, FS_EmptySet
  <2>5. Len(<<r[1]>>) = 1
    OBVIOUS
  <2>6. Len(selected) = Cardinality(near) \/ (Cardinality(near) = 0 /\ Len(selected) = 1)
    <3> HIDE DEF near, selected
    <3> QED BY <2>1, <2>2, <2>3, <2>4, <2>5
  <2> QED BY <1>0, <1>2, <2>6
<1> QED BY <1>1, <1>2

\* Between two rankings of the same pods, a pod among the first n that gets faster
\* while the others stay as they were is among the first n again.
LEMMA ImprovedStaysAhead ==
    ASSUME NEW P, NEW Q, Measured(P), Measured(Q), DOMAIN Q = DOMAIN P,
           NEW r \in RankPods(P), NEW q \in RankPods(Q),
           NEW ip \in DOMAIN P, Q[ip] < P[ip],
           \A other \in DOMAIN P \ {ip} : Q[other] = P[other],
           NEW n \in 1..Len(r), NEW k \in 1..n, r[k] = ip
    PROVE  \E j \in 1..n : q[j] = ip
<1>1. /\ DOMAIN r = 1..Len(r) /\ Len(r) \in Nat /\ Len(r) = Cardinality(DOMAIN P)
      /\ Members(r) = DOMAIN P
      /\ \A i, j \in DOMAIN r : r[i] = r[j] => i = j
      /\ \A i, j \in DOMAIN r : i < j => P[r[i]] <= P[r[j]]
  BY RankingListsAll DEF Measured
<1>2. /\ DOMAIN q = 1..Len(q) /\ Len(q) = Len(r) /\ Members(q) = DOMAIN P
      /\ \A i, j \in DOMAIN q : q[i] = q[j] => i = j
      /\ \A i, j \in DOMAIN q : i < j => Q[q[i]] <= Q[q[j]]
  BY <1>1, RankingListsAll DEF Measured
<1>3. \A x \in DOMAIN P : P[x] \in Nat /\ Q[x] \in Nat
  BY DEF Measured
<1> SUFFICES ASSUME \A j \in 1..n : q[j] # ip PROVE FALSE
  OBVIOUS
<1>4. PICK m \in DOMAIN q : q[m] = ip
  BY <1>2 DEF Members
<1>5. \A j \in 1..n : j \in DOMAIN q /\ j < m
  BY <1>1, <1>2, <1>4
<1>6. \A j \in 1..n : q[j] \in DOMAIN P /\ P[q[j]] < P[ip]
  <2> TAKE j \in 1..n
  <2>1. q[j] \in DOMAIN P /\ q[j] # ip /\ Q[q[j]] <= Q[ip]
    BY <1>2, <1>4, <1>5 DEF Members
  <2>2. Q[q[j]] = P[q[j]]
    BY <2>1
  <2> QED BY <1>3, <2>1, <2>2
<1>7. \A j \in 1..n : \E i \in 1..(k - 1) : r[i] = q[j]
  <2> TAKE j \in 1..n
  <2>1. PICK i \in DOMAIN r : r[i] = q[j]
    BY <1>1, <1>6 DEF Members
  <2>2. P[r[i]] < P[r[k]] /\ P[r[i]] \in Nat /\ P[r[k]] \in Nat
    BY <1>3, <1>6, <2>1
  <2>3. k \in DOMAIN r
    BY <1>1
  <2>4. ~(k < i) /\ k # i
    BY <1>1, <2>2, <2>3
  <2>5. i \in 1..(k - 1)
    BY <1>1, <2>4
  <2> QED BY <2>1, <2>5
<1> DEFINE g == [j \in 1..n |-> CHOOSE i \in 1..(k - 1) : r[i] = q[j]]
<1>8. g \in [1..n -> 1..(k - 1)] /\ \A j \in 1..n : r[g[j]] = q[j]
  BY <1>7
<1> HIDE DEF g
<1>9. /\ IsFiniteSet(1..n) /\ IsFiniteSet(1..(k - 1))
      /\ Cardinality(1..(k - 1)) < Cardinality(1..n)
  <2>1. n \in Nat /\ k - 1 \in Nat /\ k - 1 < n
    BY <1>1
  <2>2. IsFiniteSet(1..n) /\ Cardinality(1..n) = n
    BY <2>1, Interval
  <2>3. IsFiniteSet(1..(k - 1)) /\ Cardinality(1..(k - 1)) = k - 1
    BY <2>1, Interval
  <2> QED BY <2>1, <2>2, <2>3
<1>10. PICK x, y \in 1..n : x # y /\ g[x] = g[y]
  <2>1. PICK A, B : A = 1..n /\ B = 1..(k - 1)
    OBVIOUS
  <2>2. /\ IsFiniteSet(A) /\ IsFiniteSet(B) /\ Cardinality(B) < Cardinality(A)
        /\ g \in [A -> B]
    BY <1>8, <1>9, <2>1
  <2>3. \E x, y \in A : x # y /\ g[x] = g[y]
    BY <2>2, FS_PigeonHole
  <2> QED BY <2>1, <2>3
<1>11. q[x] = q[y] /\ x \in DOMAIN q /\ y \in DOMAIN q
  BY <1>5, <1>8, <1>10
<1> QED BY <1>2, <1>10, <1>11

\* The same of what selectPods keeps, in every mode.
LEMMA ImprovedStaysSelected ==
    ASSUME NEW spec \in SelectionSpec,
           NEW P, NEW Q, Measured(P), Measured(Q), DOMAIN Q = DOMAIN P,
           NEW r \in RankPods(P), NEW q \in RankPods(Q),
           NEW ip \in Members(selectPods(spec, r, P)), Q[ip] < P[ip],
           \A other \in DOMAIN P \ {ip} : Q[other] = P[other]
    PROVE  ip \in Members(selectPods(spec, q, Q))
<1>1. /\ r \in Seq(DOMAIN P) /\ DOMAIN r = 1..Len(r) /\ Len(r) \in Nat
      /\ Len(r) = Cardinality(DOMAIN P) /\ Members(r) = DOMAIN P
      /\ \A i, j \in DOMAIN r : i < j => P[r[i]] <= P[r[j]]
  BY RankingListsAll DEF Measured
<1>2. /\ q \in Seq(DOMAIN Q) /\ DOMAIN q = 1..Len(q) /\ Len(q) = Len(r)
      /\ Members(q) = DOMAIN P
      /\ \A i, j \in DOMAIN q : i < j => Q[q[i]] <= Q[q[j]]
  BY <1>1, RankingListsAll DEF Measured
<1>3. \A x \in DOMAIN P : P[x] \in Nat /\ Q[x] \in Nat
  BY DEF Measured
<1>4. ip \in DOMAIN P /\ r # <<>> /\ q # <<>>
  <2>1. Members(selectPods(spec, r, P)) \subseteq Members(r)
    BY <1>1, SelectionKeepsSome
  <2>2. ip \in DOMAIN P
    BY <1>1, <2>1
  <2>3. r # <<>>
    BY <1>1, <2>2 DEF Members
  <2> QED BY <1>1, <1>2, <2>2, <2>3
<1>5. CASE spec.Mode # "threshold"
  <2>1. PICK n \in 1..Len(r) : n = Quota(spec, Len(r)) /\ selectPods(spec, r, P) = SubSeq(r, 1, n)
    BY <1>1, <1>4, <1>5, SelectionIsPrefix
  <2>2. selectPods(spec, q, Q) = SubSeq(q, 1, n)
    BY <1>2, <1>4, <1>5, <2>1, SelectionIsPrefix
  <2>3. /\ DOMAIN SubSeq(r, 1, n) = 1..n /\ \A i \in 1..n : SubSeq(r, 1, n)[i] = r[i]
        /\ DOMAIN SubSeq(q, 1, n) = 1..n /\ \A i \in 1..n : SubSeq(q, 1, n)[i] = q[i]
    BY <1>1, <1>2
  <2>4. PICK k \in 1..n : r[k] = ip
    BY <2>1, <2>3 DEF Members
  <2>5. PICK j \in 1..n : q[j] = ip
    BY <1>4, <2>4, ImprovedStaysAhead
  <2> QED BY <2>2, <2>3, <2>5 DEF Members
<1>6. CASE spec.Mode = "threshold"
  <2> DEFINE near(T) == {x \in DOMAIN T : T[x] <= spec.LatencyThreshold}
  <2>1. \/ Members(selectPods(spec, r, P)) = Members(r) \cap near(P)
        \/ Members(r) \cap near(P) = {} /\ Members(selectPods(spec, r, P)) = {r[1]}
    BY <1>1, <1>4, <1>6, SelectionByThreshold
  <2>2. \/ Members(selectPods(spec, q, Q)) = Members(q) \cap near(Q)
        \/ Members(q) \cap near(Q) = {} /\ Members(selectPods(spec, q, Q)) = {q[1]}
    BY <1>2, <1>4, <1>6, SelectionByThreshold
  <2>3. spec.LatencyThreshold \in Nat
    BY DEF SelectionSpec
  <2>4. CASE ip \in near(P)
    <3>1. ip \in near(Q)
      BY <1>3, <1>4, <2>3, <2>4
    <3> QED BY <1>2, <1>4, <2>2, <3>1
  <2>5. CASE ip \notin near(P)
    <3>1. ip = r[1]
      BY <2>1, <2>5
    <3>2. q[1] = ip
      <4>1. PICK j \in DOMAIN q : q[j] = ip
        BY <1>2, <1>4 DEF Members
      <4>2. 1 \in DOMAIN q /\ 1 \in DOMAIN r /\ q[1] \in DOMAIN P
        BY <1>1, <1>2, <1>4 DEF Members
      <4>3. Q[q[1]] <= Q[ip]
        <5>1. CASE j = 1
          BY <1>3, <1>4, <4>1, <5>1
        <5>2. CASE j # 1
          BY <1>2, <4>1, <4>2, <5>2
        <5> QED BY <5>1, <5>2
      <4>4. PICK i \in DOMAIN r : r[i] = q[1]
        BY <1>1, <4>2 DEF Members
      <4>5. P[ip] <= P[q[1]]
        <5>1. CASE i = 1
          BY <1>3, <1>4, <3>1, <4>4, <5>1
        <5>2. CASE i # 1
          BY <1>1, <3>1, <4>2, <4>4, <5>2
        <5> QED BY <5>1, <5>2
      <4> QED BY <1>3, <1>4, <4>2, <4>3, <4>5
    <3>3. CASE Members(selectPods(spec, q, Q)) = {q[1]}
      BY <3>2, <3>3
    <3>4. CASE Members(selectPods(spec, q, Q)) # {q[1]}
      <4>1. Members(selectPods(spec, q, Q)) # {}
        BY <1>2, <1>4, SelectionKeepsSome
      <4>2. PICK x \in Members(q) : x \in near(Q)
        BY <2>2, <3>4, <4>1
      <4>3. PICK i \in DOMAIN q : q[i] = x
        BY DEF Members
      <4>4. 1 \in DOMAIN q /\ (i = 1 \/ 1 < i)
        BY <1>1, <1>2, <1>4
      <4>5. Q[ip] <= Q[x]
        BY <1>2, <1>3, <1>4, <3>2, <4>3, <4>4
      <4>6. ip \in near(Q)
        BY <1>2, <1>3, <1>4, <2>3, <4>2, <4>5
      <4> QED BY <1>2, <1>4, <2>2, <3>4, <4>6
    <3> QED BY <3>3, <3>4
  <2> QED BY <2>4, <2>5
<1> QED BY <1>5, <1>6

=============================================================================
