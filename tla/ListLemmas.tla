------------------------------ MODULE ListLemmas ------------------------------
(***************************************************************************)
(* What the proofs need of numbers and lists: a set of naturals has a      *)
(* least member, every list can be sorted and what a sorted list is, and   *)
(* what is defined by recursion over a list exists.                        *)
(***************************************************************************)
EXTENDS StableSort, FiniteSetsExt, FiniteSetTheorems, TLAPS

(* Every set of naturals has a least member.                               *)
LEMMA LeastNumber ==
    ASSUME NEW T \in SUBSET Nat, T # {}
    PROVE  \E x \in T : \A y \in T : x <= y
<1> DEFINE below == {0 .. n : n \in T}
<1>1. below \subseteq FiniteSubsetsOf(Nat)
  <2> SUFFICES ASSUME NEW n \in T PROVE 0 .. n \in FiniteSubsetsOf(Nat)
    OBVIOUS
  <2>1. IsFiniteSet(0 .. n)
    BY FS_Interval
  <2>2. 0 .. n \in SUBSET Nat
    OBVIOUS
  <2> QED
    BY <2>1, <2>2 DEF FiniteSubsetsOf
<1>2. PICK S \in below : \A R \in below : <<R, S>> \notin StrictSubsetOrdering(Nat)
  <2>1. below # {}
    OBVIOUS
  <2> HIDE DEF below
  <2> QED
    BY <1>1, <2>1, FS_StrictSubsetOrderingWellFounded, WFMin
<1>3. PICK x \in T : S = 0 .. x
  BY <1>2
<1>4. ASSUME NEW y \in T, y < x PROVE FALSE
  <2>1. 0 .. y \in below
    OBVIOUS
  <2>2. /\ 0 .. y \subseteq 0 .. x /\ x \in 0 .. x /\ x \notin 0 .. y
    BY <1>4
  <2>3. <<0 .. y, 0 .. x>> \in StrictSubsetOrdering(Nat)
    <3>1. 0 .. y \in SUBSET Nat /\ 0 .. x \in SUBSET Nat /\ 0 .. y # 0 .. x
      BY <2>2
    <3> QED
      BY <3>1, <2>2 DEF StrictSubsetOrdering
  <2> QED
    BY <1>2, <1>3, <2>1, <2>3
<1> QED
  BY <1>3, <1>4

(* A list of m + 1 keys is sorted by putting the last one behind those     *)
(* that are not greater.                                                   *)
LEMMA InsertLast ==
    ASSUME NEW m \in Nat, NEW key \in [1..(m + 1) -> Int],
           NEW q \in Bijection(1..m, 1..m), InOrder(q, [i \in 1..m |-> key[i]])
    PROVE  \E p \in Bijection(1..(m + 1), 1..(m + 1)) : InOrder(p, key)
<1> DEFINE later == {i \in 1..m : key[q[i]] > key[m + 1]} \cup {m + 1}
<1>1. PICK k \in later : \A i \in later : k <= i
  <2>1. later \in SUBSET Nat /\ later # {}
    OBVIOUS
  <2> HIDE DEF later
  <2> QED
    BY <2>1, LeastNumber
<1>2. /\ q \in [1..m -> 1..m]
      /\ \A i, j \in 1..m : q[i] = q[j] => i = j
      /\ \A v \in 1..m : \E i \in 1..m : q[i] = v
  BY DEF Bijection, Injection, Surjection, IsInjective
<1>3. \A i, j \in 1..m : i < j => \/ key[q[i]] < key[q[j]]
                                  \/ key[q[i]] = key[q[j]] /\ q[i] < q[j]
  <2> DEFINE first == [i \in 1..m |-> key[i]]
  <2>1. DOMAIN first = 1..m /\ \A i \in 1..m : first[q[i]] = key[q[i]]
    BY <1>2
  <2>2. InOrder(q, first)
    OBVIOUS
  <2> HIDE DEF first
  <2>3. \A i, j \in 1..m : i < j => \/ first[q[i]] < first[q[j]]
                                    \/ first[q[i]] = first[q[j]] /\ q[i] < q[j]
    BY <2>1, <2>2, Zenon DEF InOrder
  <2> QED
    BY <2>1, <2>3
<1>4. k \in 1..(m + 1)
  OBVIOUS
<1>5. \A i \in 1..m : i < k => key[q[i]] <= key[m + 1]
  <2> SUFFICES ASSUME NEW i \in 1..m, i < k PROVE key[q[i]] <= key[m + 1]
    OBVIOUS
  <2>1. i \notin later
    BY <1>1, <1>4
  <2>2. key[q[i]] \in Int /\ key[m + 1] \in Int
    BY <1>2
  <2> QED
    BY <2>1, <2>2
<1>6. \A i \in 1..m : i >= k => key[q[i]] > key[m + 1]
  <2> SUFFICES ASSUME NEW i \in 1..m, i >= k PROVE key[q[i]] > key[m + 1]
    OBVIOUS
  <2>1. k \in 1..m /\ key[q[k]] > key[m + 1]
    BY <1>1
  <2>2. \A j \in 1..m : q[j] \in 1..m /\ key[q[j]] \in Int
    <3>1. \A v \in 1..m : key[v] \in Int
      OBVIOUS
    <3> QED
      BY <1>2, <3>1
  <2>3. key[m + 1] \in Int
    OBVIOUS
  <2> HIDE DEF later
  <2>4. i = k \/ k < i
    BY <2>1
  <2>5. i = k \/ key[q[k]] <= key[q[i]]
    BY <1>3, <2>1, <2>2, <2>4
  <2> QED
    BY <2>1, <2>2, <2>3, <2>5
<1> DEFINE p == [i \in 1..(m + 1) |-> IF i < k THEN q[i] ELSE IF i = k THEN m + 1 ELSE q[i - 1]]
<1>7. /\ \A i \in 1..(m + 1) : i < k => i \in 1..m /\ p[i] = q[i] /\ p[i] \in 1..m
      /\ p[k] = m + 1
      /\ \A i \in 1..(m + 1) : i > k => i - 1 \in 1..m /\ p[i] = q[i - 1] /\ p[i] \in 1..m
      /\ p \in [1..(m + 1) -> 1..(m + 1)]
  <2> HIDE DEF later
  <2>1. \A i \in 1..(m + 1) : i < k => i \in 1..m /\ p[i] = q[i] /\ p[i] \in 1..m
    <3>1. \A i \in 1..(m + 1) : i < k => i \in 1..m
      BY <1>4
    <3> QED
      BY <1>2, <3>1
  <2>2. p[k] = m + 1
    BY <1>4
  <2>3. \A i \in 1..(m + 1) : i > k => i - 1 \in 1..m /\ p[i] = q[i - 1] /\ p[i] \in 1..m
    <3>1. \A i \in 1..(m + 1) : i > k => i - 1 \in 1..m /\ ~(i < k) /\ i # k
      BY <1>4
    <3> QED
      BY <1>2, <3>1
  <2>4. \A i \in 1..(m + 1) : p[i] \in 1..(m + 1)
    <3>1. \A i \in 1..(m + 1) : i < k \/ i = k \/ i > k
      BY <1>4
    <3>2. p = p /\ \A v \in 1..m : v \in 1..(m + 1)
      OBVIOUS
    <3>3. m + 1 \in 1..(m + 1)
      OBVIOUS
    <3> HIDE DEF p
    <3> QED
      BY <2>1, <2>2, <2>3, <3>1, <3>2, <3>3
  <2> QED
    BY <2>1, <2>2, <2>3, <2>4
<1> HIDE DEF p, later
<1>8. \A i, j \in 1..(m + 1) : p[i] = p[j] => i = j
  <2> SUFFICES ASSUME NEW i \in 1..(m + 1), NEW j \in 1..(m + 1), p[i] = p[j] PROVE i = j
    OBVIOUS
  <2>1. (i < k \/ i = k \/ i > k) /\ (j < k \/ j = k \/ j > k) /\ m + 1 \notin 1..m
    BY <1>4
  <2>2. CASE i = k \/ j = k
    BY <1>4, <1>7, <2>1, <2>2
  <2>3. CASE i < k /\ j < k
    BY <1>2, <1>7, <2>3
  <2>4. CASE i > k /\ j > k
    <3>1. i - 1 \in 1..m /\ j - 1 \in 1..m /\ q[i - 1] = q[j - 1]
      BY <1>7, <2>4
    <3>2. i - 1 = j - 1
      BY <1>2, <3>1
    <3> QED
      BY <3>2
  <2>5. ASSUME NEW a \in 1..(m + 1), NEW b \in 1..(m + 1), a < k, b > k, p[a] = p[b]
        PROVE  FALSE
    <3>1. a \in 1..m /\ b - 1 \in 1..m /\ q[a] = q[b - 1]
      BY <1>7, <2>5
    <3>2. a = b - 1
      BY <1>2, <3>1
    <3> QED
      BY <1>4, <2>5, <3>2
  <2> QED
    BY <2>1, <2>2, <2>3, <2>4, <2>5
<1>9. \A v \in 1..(m + 1) : \E i \in 1..(m + 1) : p[i] = v
  <2> SUFFICES ASSUME NEW v \in 1..(m + 1) PROVE \E i \in 1..(m + 1) : p[i] = v
    OBVIOUS
  <2>1. CASE v = m + 1
    BY <1>4, <1>7, <2>1
  <2>2. CASE v # m + 1
    <3>1. PICK i \in 1..m : q[i] = v
      BY <1>2, <2>2
    <3>2. CASE i < k
      <4>1. i \in 1..(m + 1)
        OBVIOUS
      <4> QED
        BY <1>7, <3>1, <3>2, <4>1
    <3>3. CASE i >= k
      <4>1. i + 1 \in 1..(m + 1) /\ i + 1 > k /\ (i + 1) - 1 = i
        BY <1>4, <3>3
      <4>2. p[i + 1] = q[i]
        BY <1>7, <4>1
      <4> QED
        BY <3>1, <4>1, <4>2
    <3> QED
      BY <1>4, <3>2, <3>3
  <2> QED
    BY <2>1, <2>2
<1>10. p \in Bijection(1..(m + 1), 1..(m + 1))
  BY <1>7, <1>8, <1>9 DEF Bijection, Injection, Surjection, IsInjective
<1>11. InOrder(p, key)
  <2> SUFFICES ASSUME NEW i \in 1..(m + 1), NEW j \in 1..(m + 1), i < j
               PROVE  \/ key[p[i]] < key[p[j]]
                      \/ key[p[i]] = key[p[j]] /\ p[i] < p[j]
    BY DEF InOrder
  <2>1. key[m + 1] \in Int /\ \A v \in 1..m : key[v] \in Int
    OBVIOUS
  <2>2. CASE j < k
    <3>1. i < k
      BY <1>4, <2>2
    <3>2. i \in 1..m /\ p[i] = q[i] /\ j \in 1..m /\ p[j] = q[j]
      BY <1>7, <2>2, <3>1
    <3> QED
      BY <1>3, <3>2
  <2>3. CASE j = k
    <3>1. i \in 1..m /\ p[i] = q[i] /\ p[i] \in 1..m /\ p[j] = m + 1
      BY <1>4, <1>7, <2>3
    <3>2. key[q[i]] <= key[m + 1]
      BY <1>5, <2>3, <3>1
    <3> QED
      BY <2>1, <3>1, <3>2
  <2>4. CASE j > k
    <3>1. j - 1 \in 1..m /\ p[j] = q[j - 1] /\ p[j] \in 1..m
      BY <1>7, <2>4
    <3>2. CASE i < k
      <4>1. i \in 1..m /\ p[i] = q[i] /\ i < j - 1
        BY <1>4, <1>7, <2>4, <3>2
      <4> QED
        BY <1>3, <3>1, <4>1
    <3>3. CASE i = k
      <4>1. p[i] = m + 1 /\ j - 1 >= k
        BY <1>4, <1>7, <2>4, <3>3
      <4>2. key[m + 1] < key[q[j - 1]]
        BY <1>6, <2>1, <3>1, <4>1
      <4> QED
        BY <3>1, <4>1, <4>2
    <3>4. CASE i > k
      <4>1. i - 1 \in 1..m /\ p[i] = q[i - 1] /\ i - 1 < j - 1
        <5>1. i - 1 < j - 1
          OBVIOUS
        <5> QED
          BY <1>7, <3>4, <5>1
      <4> QED
        BY <1>3, <3>1, <4>1
    <3> QED
      BY <1>4, <3>2, <3>3, <3>4
  <2> QED
    BY <1>4, <2>2, <2>3, <2>4
<1> QED
  BY <1>10, <1>11

(* Every list has a sorted order.                                          *)
LEMMA SortExists ==
    ASSUME NEW n \in Nat, NEW key \in [1..n -> Int]
    PROVE  \E p \in Bijection(1..n, 1..n) : InOrder(p, key)
<1> DEFINE Sortable(m) == \A k \in [1..m -> Int] : \E p \in Bijection(1..m, 1..m) : InOrder(p, k)
           failing == {m \in Nat : ~Sortable(m)}
<1>1. Sortable(0)
  <2> SUFFICES ASSUME NEW k \in [1..0 -> Int]
               PROVE  \E p \in Bijection(1..0, 1..0) : InOrder(p, k)
    OBVIOUS
  <2>1. [i \in 1..0 |-> i] \in Bijection(1..0, 1..0)
    BY DEF Bijection, Injection, Surjection, IsInjective
  <2>2. InOrder([i \in 1..0 |-> i], k)
    BY DEF InOrder
  <2> QED
    BY <2>1, <2>2
<1>2. ASSUME NEW m \in Nat, Sortable(m) PROVE Sortable(m + 1)
  <2> SUFFICES ASSUME NEW k \in [1..(m + 1) -> Int]
               PROVE  \E p \in Bijection(1..(m + 1), 1..(m + 1)) : InOrder(p, k)
    OBVIOUS
  <2>1. [i \in 1..m |-> k[i]] \in [1..m -> Int]
    OBVIOUS
  <2>2. PICK q \in Bijection(1..m, 1..m) : InOrder(q, [i \in 1..m |-> k[i]])
    BY <1>2, <2>1
  <2> QED
    BY <2>2, InsertLast
<1> HIDE DEF Sortable
<1>3. failing = {}
  <2> SUFFICES ASSUME failing # {} PROVE FALSE
    OBVIOUS
  <2>1. failing \in SUBSET Nat
    OBVIOUS
  <2>2. PICK m \in failing : \A l \in failing : m <= l
    <3> HIDE DEF failing
    <3> QED
      BY <2>1, LeastNumber
  <2>3. m \in Nat /\ m # 0 /\ m - 1 \in Nat /\ (m - 1) + 1 = m
    BY <1>1, <2>2
  <2>4. m - 1 \notin failing
    BY <2>2, <2>3
  <2> QED
    BY <1>2, <2>2, <2>3, <2>4
<1> QED
  BY <1>3 DEF Sortable

(* What sorting makes of a list.                                           *)
LEMMA SortedIsOrdered ==
    ASSUME NEW S, NEW s \in Seq(S), NEW key \in [1..Len(s) -> Int]
    PROVE  /\ SortedBy(s, key) \in Seq(S) /\ Len(SortedBy(s, key)) = Len(s)
           /\ Order(key) \in Bijection(1..Len(s), 1..Len(s)) /\ InOrder(Order(key), key)
           /\ \A i \in 1..Len(s) : SortedBy(s, key)[i] = s[Order(key)[i]]
<1> DEFINE n == Len(s)
<1>1. n \in Nat /\ DOMAIN s = 1..n /\ \A i \in 1..n : s[i] \in S
  OBVIOUS
<1>2. key \in [1..n -> Int] /\ DOMAIN key = 1..n
  OBVIOUS
<1>3. SortedBy(s, key) = [i \in 1..n |-> s[Order(key)[i]]]
  BY <1>1 DEF SortedBy
<1> HIDE DEF n
<1>4. \E p \in Bijection(1..n, 1..n) : InOrder(p, key)
  BY <1>1, <1>2, SortExists
<1>5. Order(key) \in Bijection(1..n, 1..n) /\ InOrder(Order(key), key)
  BY <1>2, <1>4 DEF Order
<1>6. Order(key) \in [1..n -> 1..n]
  BY <1>5 DEF Bijection, Injection
<1>7. SortedBy(s, key) \in Seq(S) /\ Len(SortedBy(s, key)) = n
  BY <1>1, <1>3, <1>6
<1> QED
  BY <1>3, <1>5, <1>7 DEF n

(* A strict total order on a set: its pairs.                               *)
Orders(before, S) ==
  /\ \A x \in S : <<x, x>> \notin before
  /\ \A x, y, z \in S : <<x, y>> \in before /\ <<y, z>> \in before => <<x, z>> \in before
  /\ \A x, y \in S : x # y => <<x, y>> \in before \/ <<y, x>> \in before

(* The members of a finite set can be listed in a strict total order.      *)
LEMMA RankedIs ==
    ASSUME NEW S, IsFiniteSet(S), NEW before, Orders(before, S)
    PROVE  LET s == Ranked(S, before)
           IN  /\ Cardinality(S) \in Nat /\ s \in [1..Cardinality(S) -> S] /\ Range(s) = S
               /\ \A i, j \in 1..Cardinality(S) : i < j => <<s[i], s[j]>> \in before
<1> DEFINE n == Cardinality(S)
           Below(x) == {y \in S : <<y, x>> \in before}
<1>1. n \in Nat /\ \E f : f \in Bijection(1..n, S)
  BY FS_CardinalityType DEF ExistsBijection
<1>2. PICK f : f \in Bijection(1..n, S)
  BY <1>1
<1>3. /\ f \in [1..n -> S]
      /\ \A i, j \in 1..n : f[i] = f[j] => i = j
      /\ \A x \in S : \E i \in 1..n : f[i] = x
  BY <1>2 DEF Bijection, Injection, Surjection, IsInjective
<1>4. \A x \in S : IsFiniteSet(Below(x)) /\ Cardinality(Below(x)) \in Nat
  <2> SUFFICES ASSUME NEW x \in S PROVE IsFiniteSet(Below(x)) /\ Cardinality(Below(x)) \in Nat
    OBVIOUS
  <2>1. Below(x) \in SUBSET S
    OBVIOUS
  <2> HIDE DEF Below
  <2> QED
    BY <2>1, FS_Subset, FS_CardinalityType
<1> DEFINE key == [i \in 1..n |-> Cardinality(Below(f[i]))]
<1>5. key \in [1..n -> Int]
  <2> HIDE DEF Below, n
  <2> QED
    BY <1>3, <1>4
<1>6. PICK p \in Bijection(1..n, 1..n) : InOrder(p, key)
  <2> HIDE DEF key, n
  <2> QED
    BY <1>1, <1>5, SortExists
<1>7. /\ p \in [1..n -> 1..n]
      /\ \A i, j \in 1..n : p[i] = p[j] => i = j
      /\ \A k \in 1..n : \E i \in 1..n : p[i] = k
  BY <1>6 DEF Bijection, Injection, Surjection, IsInjective
<1> DEFINE s == [i \in 1..n |-> f[p[i]]]
<1> HIDE DEF n
<1>8. s \in [1..n -> S] /\ Range(s) = S
  <2>1. s \in [1..n -> S] /\ \A i \in 1..n : s[i] = f[p[i]]
    BY <1>3, <1>7
  <2>2. \A x \in S : \E i \in 1..n : s[i] = x
    BY <1>3, <1>7, <2>1
  <2> HIDE DEF s
  <2> QED
    BY <2>1, <2>2 DEF Range
<1>9. \A i, j \in 1..n : i < j => <<s[i], s[j]>> \in before
  <2> SUFFICES ASSUME NEW i \in 1..n, NEW j \in 1..n, i < j, <<s[i], s[j]>> \notin before
               PROVE  FALSE
    OBVIOUS
  <2> DEFINE x == f[p[i]]
             y == f[p[j]]
  <2>1. x \in S /\ y \in S /\ x # y /\ s[i] = x /\ s[j] = y
    <3>1. i \in Nat /\ j \in Nat /\ i # j
      BY <1>1
    <3>2. p[i] \in 1..n /\ p[j] \in 1..n /\ p[i] # p[j]
      BY <1>7, <3>1
    <3> QED
      BY <1>3, <3>2
  <2>2. <<y, x>> \in before
    BY <2>1 DEF Orders
  <2>3. Cardinality(Below(x)) <= Cardinality(Below(y))
    <3>1. key[p[i]] <= key[p[j]]
      <4>1. DOMAIN key = 1..n
        OBVIOUS
      <4> HIDE DEF key
      <4>2. key[p[i]] \in Int /\ key[p[j]] \in Int
        BY <1>5, <1>7
      <4>3. key[p[i]] < key[p[j]] \/ key[p[i]] = key[p[j]]
        BY <1>6, <4>1 DEF InOrder
      <4> QED
        BY <4>2, <4>3
    <3>2. key[p[i]] = Cardinality(Below(x)) /\ key[p[j]] = Cardinality(Below(y))
      BY <1>7
    <3> QED
      BY <3>1, <3>2
  <2>4. Below(y) \in SUBSET Below(x) /\ y \in Below(x) /\ y \notin Below(y)
    <3> HIDE DEF x, y
    <3> QED
      BY <2>1, <2>2 DEF Orders
  <2> HIDE DEF Below
  <2>5. IsFiniteSet(Below(x)) /\ Cardinality(Below(x)) \in Nat /\ Cardinality(Below(y)) \in Nat
    <3> HIDE DEF x, y
    <3> QED
      BY <1>4, <2>1
  <2>6. Cardinality(Below(y)) <= Cardinality(Below(x))
    BY <2>4, <2>5, FS_Subset
  <2>7. Below(x) = Below(y)
    <3>1. Cardinality(Below(x)) = Cardinality(Below(y))
      BY <2>3, <2>5, <2>6
    <3> QED
      BY <2>4, <2>5, <3>1, FS_Subset
  <2> QED
    BY <2>4, <2>7
<1>10. \E t \in [1..n -> S] : /\ Range(t) = S
                              /\ \A i, j \in DOMAIN t : i < j => <<t[i], t[j]>> \in before
  <2>1. DOMAIN s = 1..n
    OBVIOUS
  <2> HIDE DEF s
  <2> QED
    BY <1>8, <1>9, <2>1
<1>11. LET t == Ranked(S, before)
       IN  t \in [1..n -> S] /\ Range(t) = S /\ \A i, j \in DOMAIN t : i < j => <<t[i], t[j]>> \in before
  BY <1>10 DEF Ranked, n
<1> QED
  BY <1>1, <1>11 DEF n

-------------------------------------------------------------------------------
(* What is computed from its predecessor, from d on, exists: the recursive *)
(* functions of the modules are of this form.                              *)
Iterated(f, d, N, next) == f[0] = d /\ \A n \in 1 .. N : f[n] = next[<<n, f[n - 1]>>]

LEMMA Iterates ==
    ASSUME NEW D, NEW d \in D, NEW N \in Nat, NEW next \in [(1 .. N) \X D -> D]
    PROVE  \E f \in [0 .. N -> D] : Iterated(f, d, N, next)
<1> USE DEF Iterated
<1> DEFINE failing == {m \in 0 .. N : ~\E f \in [0 .. m -> D] : Iterated(f, d, m, next)}
<1>1. SUFFICES ASSUME failing # {} PROVE FALSE
    OBVIOUS
<1>2. PICK m \in failing : \A k \in failing : m <= k
    <2>1. failing \in SUBSET Nat
        OBVIOUS
    <2> HIDE DEF failing
    <2> QED
        BY <1>1, <2>1, LeastNumber
<1>3. m \in 0 .. N /\ ~\E f \in [0 .. m -> D] : Iterated(f, d, m, next)
    OBVIOUS
<1>4. m # 0
    <2>1. [n \in 0 .. 0 |-> d] \in [0 .. 0 -> D] /\ Iterated([n \in 0 .. 0 |-> d], d, 0, next)
        OBVIOUS
    <2> QED
        BY <1>3, <2>1
<1>5. PICK f \in [0 .. m - 1 -> D] : Iterated(f, d, m - 1, next)
    BY <1>2, <1>3, <1>4
<1> DEFINE g == [n \in 0 .. m |-> IF n = m THEN next[<<m, f[m - 1]>>] ELSE f[n]]
<1>6. g \in [0 .. m -> D]
    BY <1>3, <1>4
<1>7. Iterated(g, d, m, next)
    <2>1. g[0] = d
        BY <1>3, <1>4, <1>5
    <2>2. ASSUME NEW n \in 1 .. m PROVE g[n] = next[<<n, g[n - 1]>>]
        <3>1. CASE n = m
            <4>1. g[m] = next[<<m, f[m - 1]>>] /\ g[m - 1] = f[m - 1]
                BY <1>3, <1>4
            <4> QED
                BY <3>1, <4>1
        <3>2. CASE n # m
            BY <3>2, <1>3, <1>4, <1>5
        <3> QED
            BY <3>1, <3>2
    <2> QED
        BY <2>1, <2>2
<1> QED
    BY <1>3, <1>6, <1>7

(* Quotient and remainder.                                                 *)
LEMMA DivMod ==
    ASSUME NEW a \in Nat, NEW b \in Nat \ {0}
    PROVE  /\ a \div b \in Nat /\ a % b \in 0..(b - 1)
           /\ a = b * (a \div b) + (a % b)
<1>1. a % b \in 0..(b - 1)
  OBVIOUS
<1>2. a = b * (a \div b) + (a % b)
  OBVIOUS
<1>3. a \div b \in Nat
  OBVIOUS
<1> QED
  BY <1>1, <1>2, <1>3

\* Quotient and remainder are determined by their equation.
LEMMA DivUnique ==
    ASSUME NEW b \in Nat \ {0}, NEW q \in Nat, NEW r \in 0..(b - 1)
    PROVE  /\ (b * q + r) \div b = q
           /\ (b * q + r) % b = r
<1> DEFINE a == b * q + r
           p == a \div b
           s == a % b
<1>1. a \in Nat
  OBVIOUS
<1>2. p \in Nat /\ s \in 0..(b - 1) /\ a = b * p + s
  <2> HIDE DEF a
  <2> QED
    BY <1>1, DivMod
<1>3. b * q + r = b * p + s
  BY <1>2
<1> HIDE DEF a, p, s
<1>4. CASE q < p
  <2>1. b * p >= b * (q + 1)
    <3>1. p >= q + 1
      BY <1>2, <1>4
    <3> QED
      BY <1>2, <3>1
  <2>2. b * (q + 1) = b * q + b
    OBVIOUS
  <2> DEFINE x == b * q
             y == b * p
  <2>3. x \in Nat /\ y \in Nat /\ x + r = y + s /\ y >= x + b
    BY <1>2, <1>3, <2>1, <2>2
  <2> HIDE DEF x, y
  <2> QED
    BY <1>2, <2>3
<1>5. CASE p < q
  <2>1. b * q >= b * (p + 1)
    <3>1. q >= p + 1
      BY <1>2, <1>5
    <3> QED
      BY <1>2, <3>1
  <2>2. b * (p + 1) = b * p + b
    BY <1>2
  <2> DEFINE x == b * q
             y == b * p
  <2>3. x \in Nat /\ y \in Nat /\ x + r = y + s /\ x >= y + b
    BY <1>2, <1>3, <2>1, <2>2
  <2> HIDE DEF x, y
  <2> QED
    BY <1>2, <2>3
<1>6. CASE p = q
  <2> DEFINE x == b * q
  <2>1. x \in Nat /\ x + r = x + s
    BY <1>2, <1>3, <1>6
  <2> HIDE DEF x
  <2>2. r = s
    BY <1>2, <2>1
  <2> QED
    BY <1>6, <2>2 DEF a, p, s
<1>7. p < q \/ p = q \/ q < p
  BY <1>2
<1> QED
  BY <1>4, <1>5, <1>6, <1>7

\* Products grow with a factor.
LEMMA ProductGrows ==
    ASSUME NEW a \in Nat, NEW b \in Nat, NEW c \in Nat, b >= c
    PROVE  a * b >= a * c
OBVIOUS

(* Rows and offsets.                                                       *)
LEMMA RowOf ==
    ASSUME NEW s \in Nat \ {0}, NEW R \in Nat, NEW row \in 0..(R - 1), NEW x \in 0..(s - 1)
    PROVE  /\ row * s + x \in 0..(R * s - 1)
           /\ (row * s + x) \div s = row /\ (row * s + x) % s = x
<1>1. row * s = s * row /\ row * s \in Nat
  OBVIOUS
<1>2. (s * row + x) \div s = row /\ (s * row + x) % s = x
  BY DivUnique
<1>3. s * R >= s * (row + 1)
  <2>1. row + 1 \in Nat /\ R >= row + 1
    OBVIOUS
  <2> QED
    BY <2>1, ProductGrows
<1>4. s * (row + 1) = row * s + s /\ s * R = R * s
  OBVIOUS
<1>5. row * s + x \in 0..(R * s - 1)
  <2> DEFINE y == row * s
             z == R * s
  <2>1. y \in Nat /\ z \in Nat /\ z >= y + s
    BY <1>1, <1>3, <1>4
  <2> HIDE DEF y, z
  <2>2. y + x \in 0..(z - 1)
    BY <2>1
  <2> QED
    BY <2>2 DEF y, z
<1> QED
  BY <1>1, <1>2, <1>5

\* What is given for 1..n is a list.
LEMMA ListMade ==
    ASSUME NEW S, NEW n \in Nat, NEW f \in [1..n -> S]
    PROVE  f \in Seq(S) /\ Len(f) = n
OBVIOUS

\* The least of two numbers.
LEMMA MinOfTwo ==
    ASSUME NEW a \in Int, NEW b \in Int
    PROVE  Min({a, b}) = IF a <= b THEN a ELSE b
BY DEF Min

(* The two parts of a list.                                                *)
LEMMA FrontIs ==
    ASSUME NEW S, NEW a \in Seq(S), NEW b \in Seq(S)
    PROVE  /\ Len(a \o b) = Len(a) + Len(b)
           /\ \A i \in 1..Len(a) : (a \o b)[i] = a[i]
           /\ \A i \in 1..Len(b) : (a \o b)[Len(a) + i] = b[i]
OBVIOUS
===============================================================================
