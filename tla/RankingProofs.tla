---------------------------- MODULE RankingProofs ----------------------------
(***************************************************************************)
(* Machine-checked facts about Ranking, for any finite set and any strict  *)
(* total order of it: its arrangement is the one sequence of its members   *)
(* in that order.  The proofs about the lists of the deal board and of the *)
(* search rest on them.                                                    *)
(***************************************************************************)
EXTENDS Ranking, Functions, Sequences, FiniteSetTheorems, FunctionTheorems, TLAPS

IsOrder(S, R) ==
    /\ \A x \in S : <<x, x>> \notin R
    /\ \A x, y, z \in S : <<x, y>> \in R /\ <<y, z>> \in R => <<x, z>> \in R
    /\ \A x, y \in S : x # y => <<x, y>> \in R \/ <<y, x>> \in R

\* Fewer members come before an earlier one, and never all.
LEMMA RankGrows ==
    ASSUME NEW S, IsFiniteSet(S), NEW R, IsOrder(S, R)
    PROVE  /\ Cardinality(S) \in Nat
           /\ \A x \in S : Rank(S, R, x) \in 0..(Cardinality(S) - 1)
           /\ \A x, y \in S : <<x, y>> \in R => Rank(S, R, x) < Rank(S, R, y)
<1> DEFINE Below(x) == {y \in S : <<y, x>> \in R}
<1>0. Cardinality(S) \in Nat
    BY FS_CardinalityType
<1>1. ASSUME NEW x \in S
      PROVE  IsFiniteSet(Below(x)) /\ Cardinality(Below(x)) \in 0..(Cardinality(S) - 1)
  <2>1. Below(x) \in SUBSET S /\ Below(x) # S
      BY DEF IsOrder
  <2>2. IsFiniteSet(Below(x)) /\ Cardinality(Below(x)) <= Cardinality(S)
        /\ Cardinality(Below(x)) # Cardinality(S)
      BY <2>1, FS_Subset
  <2>3. Cardinality(Below(x)) \in Nat
      BY <2>2, FS_CardinalityType
  <2> HIDE DEF Below
  <2>4. QED
      BY <1>0, <2>2, <2>3
<1>2. ASSUME NEW x \in S, NEW y \in S, <<x, y>> \in R
      PROVE  Cardinality(Below(x)) < Cardinality(Below(y))
  <2>1. Below(x) \in SUBSET Below(y)
      BY <1>2 DEF IsOrder
  <2>2. x \in Below(y) /\ x \notin Below(x)
      BY <1>2 DEF IsOrder
  <2>3. IsFiniteSet(Below(y)) /\ Cardinality(Below(x)) \in Nat /\ Cardinality(Below(y)) \in Nat
      BY <1>0, <1>1
  <2> HIDE DEF Below
  <2>4. Cardinality(Below(x)) <= Cardinality(Below(y)) /\ Cardinality(Below(x)) # Cardinality(Below(y))
      BY <2>1, <2>2, <2>3, FS_Subset
  <2>5. QED
      BY <2>3, <2>4
<1>3. QED
    BY <1>0, <1>1, <1>2 DEF Rank

\* Every place is taken by one member.
LEMMA RankIsAPlace ==
    ASSUME NEW S, IsFiniteSet(S), NEW R, IsOrder(S, R)
    PROVE  /\ \A x, y \in S : Rank(S, R, x) = Rank(S, R, y) => x = y
           /\ \A i \in 1..Cardinality(S) : \E x \in S : Rank(S, R, x) = i - 1
<1> DEFINE n == Cardinality(S)
           f == [x \in S |-> Rank(S, R, x) + 1]
<1>1. n \in Nat /\ \A x \in S : Rank(S, R, x) \in 0..(n - 1)
    BY RankGrows
<1>2. ASSUME NEW x \in S, NEW y \in S, Rank(S, R, x) = Rank(S, R, y) PROVE x = y
  <2>1. ~ (<<x, y>> \in R) /\ ~ (<<y, x>> \in R)
      BY <1>1, <1>2, RankGrows
  <2>2. QED
      BY <2>1 DEF IsOrder
<1> HIDE DEF n
<1>3. f \in [S -> 1..n]
    BY <1>1
<1>4. f \in Injection(S, 1..n)
  <2>1. \A x, y \in S : f[x] = f[y] => x = y
      BY <1>1, <1>2
  <2>2. QED
      BY <1>3, <2>1, Fun_IsInj
<1>5. IsFiniteSet(1..n) /\ Cardinality(1..n) = n
    BY <1>1, FS_Interval
<1>6. f \in Surjection(S, 1..n)
    BY <1>4, <1>5, FS_Injection DEF n
<1>7. \A i \in 1..n : \E x \in S : f[x] = i
    BY <1>6 DEF Surjection
<1>8. \A i \in 1..n : \E x \in S : Rank(S, R, x) = i - 1
    BY <1>1, <1>7
<1>9. QED
    BY <1>2, <1>8 DEF n

\* The arrangement of a set lists it in its order, each member once: at the
\* place that its rank says.
LEMMA ArrangedInOrder ==
    ASSUME NEW S, IsFiniteSet(S), NEW R, IsOrder(S, R)
    PROVE  LET a == Arranged(S, R)
               n == Cardinality(S)
           IN  /\ n \in Nat /\ DOMAIN a = 1..n /\ a \in [1..n -> S]
               /\ a \in Seq(S) /\ Len(a) = n
               /\ \A i \in 1..n : Rank(S, R, a[i]) = i - 1
               /\ \A x \in S : \E i \in 1..n : a[i] = x
               /\ \A i, j \in 1..n : <<a[i], a[j]>> \in R <=> i < j
               /\ \A i, j \in 1..n : a[i] = a[j] => i = j
<1> DEFINE a == Arranged(S, R)
           n == Cardinality(S)
<1>1. n \in Nat /\ \A x \in S : Rank(S, R, x) \in 0..(n - 1)
    BY RankGrows
<1>2. /\ \A x, y \in S : Rank(S, R, x) = Rank(S, R, y) => x = y
      /\ \A i \in 1..n : \E x \in S : Rank(S, R, x) = i - 1
    BY RankIsAPlace
<1>3. a = [i \in 1..n |-> CHOOSE x \in S : Rank(S, R, x) = i - 1]
    BY DEF Arranged
<1> HIDE DEF a, n
<1>4. ASSUME NEW i \in 1..n PROVE a[i] \in S /\ Rank(S, R, a[i]) = i - 1
    BY <1>2, <1>3
<1>5. DOMAIN a = 1..n /\ a \in [1..n -> S]
    BY <1>3, <1>4
<1>6. a \in Seq(S) /\ Len(a) = n
    BY <1>1, <1>5
<1>7. ASSUME NEW x \in S PROVE \E i \in 1..n : a[i] = x
  <2>1. PICK i \in 1..n : Rank(S, R, x) = i - 1
    <3>1. Rank(S, R, x) + 1 \in 1..n
        BY <1>1
    <3>2. QED
        BY <1>1, <3>1
  <2>2. QED
      BY <1>2, <1>4, <2>1
<1>8. ASSUME NEW i \in 1..n, NEW j \in 1..n PROVE (<<a[i], a[j]>> \in R) <=> i < j
  <2>1. a[i] \in S /\ a[j] \in S /\ Rank(S, R, a[i]) = i - 1 /\ Rank(S, R, a[j]) = j - 1
      BY <1>4
  <2>2. CASE i < j
    <3>1. a[i] # a[j]
        BY <2>1, <2>2
    <3>2. ~ (<<a[j], a[i]>> \in R)
        BY <2>1, <2>2, RankGrows
    <3>3. QED
        BY <2>1, <2>2, <3>1, <3>2 DEF IsOrder
  <2>3. CASE ~ (i < j)
    <3>1. <<a[i], a[j]>> \in R => i - 1 < j - 1
        BY <2>1, RankGrows
    <3>2. QED
        BY <2>3, <3>1
  <2>4. QED
      BY <2>2, <2>3
<1>9. ASSUME NEW i \in 1..n, NEW j \in 1..n, a[i] = a[j] PROVE i = j
    BY <1>4, <1>9
<1>10. QED
    BY <1>1, <1>4, <1>5, <1>6, <1>7, <1>8, <1>9 DEF a, n

\* No other sequence does.
LEMMA ArrangedIsTheOne ==
    ASSUME NEW T, IsFiniteSet(T), NEW Q, IsOrder(T, Q),
           NEW s \in [1..Cardinality(T) -> T],
           \A i, j \in 1..Cardinality(T) : i < j => <<s[i], s[j]>> \in Q
    PROVE  s = Arranged(T, Q)
<1> DEFINE n == Cardinality(T)
           a == Arranged(T, Q)
<1>1. n \in Nat /\ a \in [1..n -> T] /\ \A i \in 1..n : Rank(T, Q, a[i]) = i - 1
    BY ArrangedInOrder
<1>2. \A x, y \in T : Rank(T, Q, x) = Rank(T, Q, y) => x = y
    BY RankIsAPlace
<1>3. /\ s \in [1..n -> T] /\ IsFiniteSet(T)
      /\ \A i, j \in 1..n : i < j => <<s[i], s[j]>> \in Q
    OBVIOUS
<1>4. Cardinality(T) = n
    OBVIOUS
<1> HIDE DEF n, a
<1>5. \A i, j \in 1..n : s[i] = s[j] => i = j
  <2> SUFFICES ASSUME NEW i \in 1..n, NEW j \in 1..n, s[i] = s[j], i < j PROVE FALSE
      BY <1>1
  <2>1. <<s[i], s[i]>> \in Q /\ s[i] \in T
      BY <1>3
  <2>2. QED
      BY <2>1 DEF IsOrder
<1>6. \A x \in T : \E i \in 1..n : s[i] = x
  <2>1. s \in Injection(1..n, T)
      BY <1>3, <1>5, Fun_IsInj
  <2>2. Cardinality(1..n) = n
      BY <1>1, FS_Interval
  <2>3. s \in Surjection(1..n, T)
      BY <1>3, <1>4, <2>1, <2>2, FS_Injection
  <2>4. QED
      BY <2>3 DEF Surjection
<1>7. ASSUME NEW i \in 1..n PROVE Rank(T, Q, s[i]) = i - 1
  <2> DEFINE B == {y \in T : <<y, s[i]>> \in Q}
  <2>1. \A j \in 1..n : s[j] \in B <=> j < i
    <3> SUFFICES ASSUME NEW j \in 1..n PROVE (s[j] \in B) <=> j < i
        OBVIOUS
    <3>1. s[i] \in T /\ s[j] \in T
        BY <1>3
    <3>2. j < i => <<s[j], s[i]>> \in Q
        BY <1>3
    <3>3. i < j => <<s[i], s[j]>> \in Q
        BY <1>3
    <3>4. i < j => ~ (<<s[j], s[i]>> \in Q)
        BY <3>1, <3>3 DEF IsOrder
    <3>5. i = j => ~ (<<s[j], s[i]>> \in Q)
        BY <3>1 DEF IsOrder
    <3>6. i < j \/ i = j \/ j < i
        BY <1>1
    <3>7. QED
        BY <1>1, <3>1, <3>2, <3>4, <3>5, <3>6
  <2>2. B \subseteq T
      OBVIOUS
  <2> DEFINE g == [j \in 1..(i - 1) |-> s[j]]
  <2>3. i \in Nat /\ i >= 1 /\ 1..(i - 1) \subseteq 1..n
      BY <1>1
  <2> HIDE DEF B
  <2>4. g \in [1..(i - 1) -> B]
      BY <2>1, <2>3
  <2>5. \A j, k \in 1..(i - 1) : g[j] = g[k] => j = k
      BY <1>5, <2>3
  <2>6. \A y \in B : \E j \in 1..(i - 1) : g[j] = y
    <3> SUFFICES ASSUME NEW y \in B PROVE \E j \in 1..(i - 1) : g[j] = y
        OBVIOUS
    <3>1. PICK j \in 1..n : s[j] = y
        BY <1>6, <2>2
    <3>2. j \in 1..(i - 1)
        BY <2>1, <2>3, <3>1
    <3>3. QED
        BY <3>1, <3>2
  <2>7. g \in Bijection(1..(i - 1), B)
      BY <2>4, <2>5, <2>6, Fun_IsBij
  <2>8. IsFiniteSet(1..(i - 1)) /\ Cardinality(1..(i - 1)) = i - 1
      BY <2>3, FS_Interval
  <2>9. Cardinality(B) = i - 1
      BY <2>7, <2>8, FS_Bijection DEF ExistsBijection
  <2>10. QED
      BY <2>9 DEF Rank, B
<1>8. \A i \in 1..n : s[i] = a[i]
    BY <1>1, <1>2, <1>3, <1>7
<1>9. s = a
  <2>1. s = [i \in 1..n |-> s[i]] /\ a = [i \in 1..n |-> a[i]]
      BY <1>1, <1>3
  <2>2. QED
      BY ONLY <1>8, <2>1
<1>10. QED
    BY <1>9 DEF a

\* Numbers ascend.
LEMMA AscendingIsAnOrder ==
    ASSUME NEW S \in SUBSET Int PROVE IsOrder(S, Ascending(S))
<1>1. \A x, y \in S : <<x, y>> \in Ascending(S) <=> x < y
    BY DEF Ascending
<1>2. \A x \in S : x \in Int
    OBVIOUS
<1> HIDE DEF Ascending
<1>3. \A x \in S : <<x, x>> \notin Ascending(S)
    BY <1>1, <1>2
<1>4. \A x, y, z \in S : <<x, y>> \in Ascending(S) /\ <<y, z>> \in Ascending(S)
                         => <<x, z>> \in Ascending(S)
    BY <1>1, <1>2
<1>5. \A x, y \in S : x # y => <<x, y>> \in Ascending(S) \/ <<y, x>> \in Ascending(S)
    BY <1>1, <1>2
<1>6. QED
    BY <1>3, <1>4, <1>5 DEF IsOrder

\* What is picked is of the list, and all of it.
LEMMA PickedOfTheList ==
    ASSUME NEW V, NEW l \in Seq(V), NEW S \in SUBSET (DOMAIN l), NEW R, IsOrder(S, R)
    PROVE  /\ IsFiniteSet(S) /\ Cardinality(S) \in Nat /\ Cardinality(S) <= Len(l)
           /\ Picked(l, S, R) \in Seq(V) /\ Len(Picked(l, S, R)) = Cardinality(S)
           /\ DOMAIN Picked(l, S, R) = 1..Cardinality(S)
           /\ \A i \in 1..Cardinality(S) : \E p \in S : Picked(l, S, R)[i] = l[p]
           /\ \A p \in S : \E i \in 1..Cardinality(S) : Picked(l, S, R)[i] = l[p]
<1>1. Len(l) \in Nat /\ DOMAIN l = 1..Len(l) /\ \A p \in DOMAIN l : l[p] \in V
    OBVIOUS
<1>2. IsFiniteSet(1..Len(l)) /\ Cardinality(1..Len(l)) = Len(l)
  <2>1. PICK k : k = Len(l)
      OBVIOUS
  <2>2. IsFiniteSet(1..k) /\ Cardinality(1..k) = k
    <3>1. k \in Int /\ 1 \in Int /\ (IF 1 > k THEN 0 ELSE k - 1 + 1) = k
        BY ONLY <1>1, <2>1
    <3>2. QED
        BY ONLY <3>1, FS_Interval
  <2>3. QED
      BY <2>1, <2>2
<1>3. IsFiniteSet(S) /\ Cardinality(S) <= Len(l)
    BY <1>1, <1>2, FS_Subset
<1> DEFINE n == Cardinality(S)
           a == Arranged(S, R)
           q == Picked(l, S, R)
<1>4. /\ n \in Nat /\ DOMAIN a = 1..n
      /\ \A i \in 1..n : a[i] \in S
      /\ \A x \in S : \E i \in 1..n : a[i] = x
    BY <1>3, ArrangedInOrder
<1>5. q = [i \in DOMAIN a |-> l[a[i]]]
    BY DEF Picked
<1>6. S \subseteq DOMAIN l
    OBVIOUS
<1> HIDE DEF n, a, q
<1>7. \A i \in 1..n : q[i] = l[a[i]] /\ q[i] \in V
    BY <1>1, <1>4, <1>5, <1>6
<1>8. DOMAIN q = 1..n /\ q \in Seq(V) /\ Len(q) = n
  <2>1. q \in [1..n -> V]
      BY <1>4, <1>5, <1>7
  <2>2. QED
      BY <1>4, <2>1
<1>9. QED
    BY <1>3, <1>4, <1>7, <1>8 DEF n, q

\* A set of numbers has a least and a greatest, which Min and Max choose.
LEMMA Extremes ==
    ASSUME NEW S \in SUBSET Int, IsFiniteSet(S), S # {}
    PROVE  /\ \E x \in S : \A y \in S : x <= y
           /\ \E x \in S : \A y \in S : y <= x
<1>1. PICK R : R = Ascending(S)
    OBVIOUS
<1>2. IsOrder(S, R)
    BY <1>1, AscendingIsAnOrder
<1> DEFINE a == Arranged(S, R)
           n == Cardinality(S)
<1>3. /\ n \in Nat /\ a \in [1..n -> S]
      /\ \A x \in S : \E i \in 1..n : a[i] = x
      /\ \A i, j \in 1..n : <<a[i], a[j]>> \in R <=> i < j
    BY <1>2, ArrangedInOrder
<1> HIDE DEF a, n
<1>4. n >= 1 /\ 1 \in 1..n /\ n \in 1..n
  <2>1. PICK x : x \in S
      OBVIOUS
  <2>2. PICK i : i \in 1..n /\ a[i] = x
      BY <1>3, <2>1
  <2>3. QED
      BY ONLY <1>3, <2>2
<1>5. \A i, j \in 1..n : i < j => a[i] < a[j]
    BY <1>1, <1>3 DEF Ascending
<1>6. \A i \in 1..n : a[i] \in S /\ a[i] \in Int
    BY <1>3
<1>7. ASSUME NEW y \in S PROVE a[1] <= y /\ y <= a[n]
  <2>1. PICK i \in 1..n : a[i] = y
      BY <1>3
  <2>2. a[1] <= a[i]
    <3>1. i = 1 \/ 1 < i
        BY <1>3
    <3>2. QED
        BY <1>4, <1>5, <1>6, <3>1
  <2>3. a[i] <= a[n]
    <3>1. i = n \/ i < n
        BY <1>3
    <3>2. QED
        BY <1>4, <1>5, <1>6, <3>1
  <2>4. QED
      BY <2>1, <2>2, <2>3
<1>8. QED
    BY <1>4, <1>6, <1>7
=============================================================================
