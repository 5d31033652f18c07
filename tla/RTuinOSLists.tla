---------------------------- MODULE RTuinOSLists ----------------------------
(***************************************************************************)
(* Lemmas about the lists of tasks that the kernel of RTuinOS keeps: what  *)
(* is in them, that nothing is in them twice, and in which order.          *)
(***************************************************************************)
EXTENDS RTuinOS, SequenceTheorems, WellFoundedInduction, TLAPS

-----------------------------------------------------------------------------
(* Sets of natural numbers. *)

LEMMA NatLessWellFounded ==
  IsWellFoundedOn({ss \in Nat \X Nat : ss[1] < ss[2]}, Nat)
BY NatLessThanWellFounded, Zenon DEF OpToRel

LEMMA LeastProperties ==
  ASSUME NEW S \in SUBSET Nat, S # {}
  PROVE  Least(S) \in S /\ \A y \in S : Least(S) <= y
<1> DEFINE R == {ss \in Nat \X Nat : ss[1] < ss[2]}
<1>1. IsWellFoundedOn(R, Nat)
  BY NatLessWellFounded
<1> HIDE DEF R
<1>2. PICK x \in S : \A y \in S : ~(<<y, x>> \in R)
  BY <1>1, WFMin
<1>3. \A y \in S : x <= y
  <2> TAKE y \in S
  <2>1. ~(y < x)
    BY <1>2 DEF R
  <2> QED BY <2>1
<1> QED BY <1>3 DEF Least

LEMMA GreatestProperties ==
  ASSUME NEW n \in Nat, NEW S \in SUBSET (1..n), S # {}
  PROVE  Greatest(S) \in S /\ \A y \in S : Greatest(S) >= y
<1> DEFINE D == {d \in Nat : n - d \in S}
<1>1. \A x \in S : n - x \in D
  OBVIOUS
<1>2. D \in SUBSET Nat /\ D # {}
  BY <1>1
<1> HIDE DEF D
<1>3. Least(D) \in D /\ \A y \in D : Least(D) <= y
  BY <1>2, LeastProperties
<1>4. n - Least(D) \in S /\ Least(D) \in Nat
  BY <1>3 DEF D
<1>5. \A x \in S : n - Least(D) >= x
  BY <1>1, <1>3, <1>4
<1> QED BY <1>4, <1>5 DEF Greatest

(* Induction up to n, for the numbers in a set.                            *)
LEMMA InductionUpTo ==
  ASSUME NEW n \in Nat, NEW T, 0 \in T,
         \A i \in 1..n : i - 1 \in T => i \in T
  PROVE  \A i \in 0..n : i \in T
<1> DEFINE F == {i \in 0..n : i \notin T}
<1> SUFFICES ASSUME F # {} PROVE FALSE
  OBVIOUS
<1>1. F \in SUBSET Nat
  OBVIOUS
<1> HIDE DEF F
<1>2. Least(F) \in F /\ \A y \in F : Least(F) <= y
  BY <1>1, LeastProperties
<1>3. Least(F) \in 1..n /\ Least(F) \notin T
  BY <1>2 DEF F
<1>4. Least(F) - 1 \notin F
  BY <1>2, <1>3
<1>5. Least(F) - 1 \in T
  BY <1>3, <1>4 DEF F
<1> QED BY <1>3, <1>5

-----------------------------------------------------------------------------
(* The elements of a list that are in a set. *)

(* The partial results that Those(s, S) is computed from.                  *)
ThoseUpTo(f, s, S, n) ==
  f = [i \in 0..n |-> IF i = 0 THEN <<>>
                      ELSE IF s[i] \in S THEN Append(f[i - 1], s[i]) ELSE f[i - 1]]

LEMMA ThoseRecursion ==
  ASSUME NEW s, Len(s) \in Nat, NEW S
  PROVE  \E f : ThoseUpTo(f, s, S, Len(s)) /\ Those(s, S) = f[Len(s)]
<1> DEFINE T == {n \in Nat : \E f : ThoseUpTo(f, s, S, n)}
<1>1. 0 \in T
  <2>1. ThoseUpTo([i \in 0..0 |-> <<>>], s, S, 0)
    BY DEF ThoseUpTo
  <2> QED BY <2>1
<1>2. ASSUME NEW n \in 1..Len(s), n - 1 \in T
      PROVE  n \in T
  <2>1. PICK g : ThoseUpTo(g, s, S, n - 1)
    BY <1>2
  <2> DEFINE last == IF s[n] \in S THEN Append(g[n - 1], s[n]) ELSE g[n - 1]
             f == [i \in 0..n |-> IF i = n THEN last ELSE g[i]]
  <2>2. \A i \in 0..(n - 1) : g[i] = IF i = 0 THEN <<>>
                      ELSE IF s[i] \in S THEN Append(g[i - 1], s[i]) ELSE g[i - 1]
    BY <2>1, Zenon DEF ThoseUpTo
  <2>3. \A i \in 0..n : f[i] = IF i = 0 THEN <<>>
                      ELSE IF s[i] \in S THEN Append(f[i - 1], s[i]) ELSE f[i - 1]
    <3> SUFFICES ASSUME NEW i \in 0..n
                 PROVE  f[i] = IF i = 0 THEN <<>>
                        ELSE IF s[i] \in S THEN Append(f[i - 1], s[i]) ELSE f[i - 1]
      OBVIOUS
    <3>1. CASE i = n
      <4>1. n - 1 \in 0..n /\ n - 1 # n /\ n # 0
        OBVIOUS
      <4>2. f[n - 1] = g[n - 1] /\ f[n] = last
        BY <4>1
      <4> QED BY <3>1, <4>1, <4>2
    <3>2. CASE i # n /\ i # 0
      <4>1. i \in 0..(n - 1) /\ i - 1 \in 0..n /\ i - 1 # n
        BY <3>2
      <4>2. f[i] = g[i] /\ f[i - 1] = g[i - 1]
        BY <3>2, <4>1
      <4> QED BY <2>2, <3>2, <4>1, <4>2
    <3>3. CASE i # n /\ i = 0
      <4>1. i \in 0..(n - 1) /\ f[i] = g[i]
        BY <3>3
      <4> QED BY <2>2, <3>3, <4>1
    <3> QED BY <3>1, <3>2, <3>3
  <2>4. ThoseUpTo(f, s, S, n)
    <3>1. f = [i \in 0..n |-> f[i]]
      OBVIOUS
    <3> HIDE DEF f
    <3> QED BY <2>3, <3>1 DEF ThoseUpTo
  <2> HIDE DEF f
  <2> QED BY <2>4
<1>3. Len(s) \in T
  <2> HIDE DEF T
  <2>1. \A n \in 0..Len(s) : n \in T
    BY <1>1, <1>2, InductionUpTo
  <2> QED BY <2>1
<1> DEFINE f == CHOOSE f : ThoseUpTo(f, s, S, Len(s))
<1>4. ThoseUpTo(f, s, S, Len(s))
  BY <1>3
<1>5. Those(s, S) = f[Len(s)]
  BY Zenon DEF Those, ThoseUpTo
<1> QED BY <1>4, <1>5
(* r lists the elements of s up to index n that are in S, m says where in s*)
(* they have been.                                                         *)
IndexMap(m, r, s, S, n) ==
  /\ m \in [1..Len(r) -> 1..n]
  /\ \A k \in 1..Len(r) : r[k] = s[m[k]] /\ s[m[k]] \in S
  /\ \A k, l \in 1..Len(r) : k < l => m[k] < m[l]
  /\ \A i \in 1..n : s[i] \in S => \E k \in 1..Len(r) : m[k] = i

LEMMA ThoseIndexed ==
  ASSUME NEW A, NEW s \in Seq(A), NEW S
  PROVE  Those(s, S) \in Seq(A) /\ \E m : IndexMap(m, Those(s, S), s, S, Len(s))
<1>1. PICK f : ThoseUpTo(f, s, S, Len(s)) /\ Those(s, S) = f[Len(s)]
  BY ThoseRecursion
<1>2. /\ f[0] = <<>>
      /\ \A i \in 1..Len(s) :
           f[i] = IF s[i] \in S THEN Append(f[i - 1], s[i]) ELSE f[i - 1]
  <2>1. \A i \in 0..Len(s) : f[i] = IF i = 0 THEN <<>>
                      ELSE IF s[i] \in S THEN Append(f[i - 1], s[i]) ELSE f[i - 1]
    BY <1>1, Zenon DEF ThoseUpTo
  <2> QED BY <2>1
<1> DEFINE Good(n) == f[n] \in Seq(A) /\ \E m : IndexMap(m, f[n], s, S, n)
           T == {n \in Nat : Good(n)}
<1>3. 0 \in T
  <2>1. IndexMap([k \in 1..0 |-> 0], <<>>, s, S, 0)
    BY DEF IndexMap
  <2>2. <<>> \in Seq(A)
    OBVIOUS
  <2> QED BY <1>2, <2>1, <2>2
<1>4. ASSUME NEW n \in 1..Len(s), n - 1 \in T
      PROVE  n \in T
  <2> DEFINE r == f[n - 1]
  <2>1. r \in Seq(A) /\ s[n] \in A /\ n \in Nat \ {0} /\ n - 1 \in Nat
    BY <1>4
  <2>2. PICK m : IndexMap(m, r, s, S, n - 1)
    BY <1>4
  <2> HIDE DEF r
  <2>3. CASE s[n] \in S
    <3> DEFINE q == Append(r, s[n])
               l == Len(r)
               h == [k \in 1..(l + 1) |-> IF k = l + 1 THEN n ELSE m[k]]
    <3>1. /\ q \in Seq(A) /\ Len(q) = l + 1 /\ l \in Nat /\ q[l + 1] = s[n]
          /\ \A k \in 1..l : q[k] = r[k]
      BY <2>1
    <3>2. f[n] = q
      BY <1>2, <2>3 DEF r
    <3>3. /\ h[l + 1] = n
          /\ \A k \in 1..l : h[k] = m[k] /\ m[k] \in 1..(n - 1)
      BY <2>2, <3>1 DEF IndexMap
    <3>4. h \in [1..(l + 1) -> 1..n]
      <4>1. \A k \in 1..(l + 1) : k = l + 1 \/ k \in 1..l
        BY <3>1
      <4>2. n \in 1..n /\ 1..(n - 1) \subseteq 1..n
        BY <2>1
      <4>3. \A k \in 1..(l + 1) : (IF k = l + 1 THEN n ELSE m[k]) \in 1..n
        BY <3>3, <4>1, <4>2
      <4> QED BY <4>3 DEF h
    <3> HIDE DEF q, h, l
    <3>5. \A k \in 1..(l + 1) : q[k] = s[h[k]] /\ s[h[k]] \in S
      <4> TAKE k \in 1..(l + 1)
      <4>1. CASE k = l + 1
        BY <2>3, <3>1, <3>3, <4>1
      <4>2. CASE k \in 1..l
        BY <2>2, <3>1, <3>3, <4>2 DEF IndexMap, l
      <4> QED BY <3>1, <4>1, <4>2
    <3>6. \A j, k \in 1..(l + 1) : j < k => h[j] < h[k]
      <4> SUFFICES ASSUME NEW j \in 1..(l + 1), NEW k \in 1..(l + 1), j < k
                   PROVE  h[j] < h[k]
        OBVIOUS
      <4>1. j \in 1..l
        BY <3>1
      <4>2. CASE k = l + 1
        BY <2>1, <3>3, <4>1, <4>2
      <4>3. CASE k \in 1..l
        BY <2>2, <3>3, <4>1, <4>3 DEF IndexMap, l
      <4> QED BY <3>1, <4>2, <4>3
    <3>7. \A i \in 1..n : s[i] \in S => \E k \in 1..(l + 1) : h[k] = i
      <4> SUFFICES ASSUME NEW i \in 1..n, s[i] \in S
                   PROVE  \E k \in 1..(l + 1) : h[k] = i
        OBVIOUS
      <4>1. CASE i = n
        <5>1. l + 1 \in 1..(l + 1)
          BY <3>1
        <5> QED BY <3>3, <4>1, <5>1
      <4>2. CASE i \in 1..(n - 1)
        <5>1. PICK k \in 1..l : m[k] = i
          BY <2>2, <4>2 DEF IndexMap, l
        <5>2. k \in 1..(l + 1)
          BY <3>1
        <5> QED BY <3>3, <5>1, <5>2
      <4> QED BY <2>1, <4>1, <4>2
    <3>8. IndexMap(h, q, s, S, n)
      BY <3>1, <3>4, <3>5, <3>6, <3>7 DEF IndexMap
    <3> QED BY <2>1, <3>1, <3>2, <3>8
  <2>4. CASE s[n] \notin S
    <3>1. f[n] = r
      BY <1>2, <2>4 DEF r
    <3>2. m \in [1..Len(r) -> 1..n]
      BY <2>1, <2>2 DEF IndexMap
    <3>3. \A i \in 1..n : s[i] \in S => \E k \in 1..Len(r) : m[k] = i
      <4> SUFFICES ASSUME NEW i \in 1..n, s[i] \in S
                   PROVE  \E k \in 1..Len(r) : m[k] = i
        OBVIOUS
      <4>1. i \in 1..(n - 1)
        BY <2>1, <2>4
      <4> QED BY <2>2, <4>1 DEF IndexMap
    <3>4. IndexMap(m, r, s, S, n)
      BY <2>2, <3>2, <3>3 DEF IndexMap
    <3> QED BY <2>1, <3>1, <3>4
  <2> QED BY <2>3, <2>4
<1>5. Len(s) \in Nat
  OBVIOUS
<1> HIDE DEF T
<1>6. \A n \in 0..Len(s) : n \in T
  BY <1>3, <1>4, <1>5, InductionUpTo
<1>7. Len(s) \in T
  BY <1>5, <1>6
<1> QED BY <1>1, <1>7 DEF T

LEMMA ThoseElements ==
  ASSUME NEW A, NEW s \in Seq(A), NEW S
  PROVE  Those(s, S) \in Seq(A) /\ Elements(Those(s, S)) = Elements(s) \cap S
<1> DEFINE r == Those(s, S)
<1>1. r \in Seq(A) /\ \E m : IndexMap(m, r, s, S, Len(s))
  BY ThoseIndexed
<1> HIDE DEF r
<1>2. PICK m : IndexMap(m, r, s, S, Len(s))
  BY <1>1
<1>3. Elements(r) \subseteq Elements(s) \cap S
  BY <1>2 DEF IndexMap, Elements
<1>4. Elements(s) \cap S \subseteq Elements(r)
  <2> SUFFICES ASSUME NEW i \in 1..Len(s), s[i] \in S PROVE s[i] \in Elements(r)
    BY DEF Elements
  <2>1. PICK k \in 1..Len(r) : m[k] = i
    BY <1>2 DEF IndexMap
  <2>2. r[k] = s[i]
    BY <1>2, <2>1 DEF IndexMap
  <2> QED BY <2>2 DEF Elements
<1> QED BY <1>1, <1>3, <1>4 DEF r

(* The order remains.                                                      *)
LEMMA ThoseOrder ==
  ASSUME NEW A, NEW s \in Seq(A), NEW S, Injective(s)
  PROVE  /\ Injective(Those(s, S))
         /\ \A x, y \in S : Precedes(Those(s, S), x, y) <=> Precedes(s, x, y)
<1> DEFINE r == Those(s, S)
<1>1. r \in Seq(A) /\ \E m : IndexMap(m, r, s, S, Len(s))
  BY ThoseIndexed
<1> HIDE DEF r
<1>2. PICK m : IndexMap(m, r, s, S, Len(s))
  BY <1>1
<1>3. /\ \A k \in 1..Len(r) : m[k] \in 1..Len(s) /\ r[k] = s[m[k]]
      /\ Len(r) \in Nat /\ Len(s) \in Nat
  BY <1>1, <1>2 DEF IndexMap
<1>4. Injective(r)
  <2> SUFFICES ASSUME NEW k \in 1..Len(r), NEW l \in 1..Len(r), r[k] = r[l]
               PROVE  k = l
    BY DEF Injective
  <2>1. m[k] = m[l]
    BY <1>3 DEF Injective
  <2>2. ~(k < l) /\ ~(l < k)
    BY <1>2, <1>3, <2>1 DEF IndexMap
  <2> QED BY <1>3, <2>2
<1>5. ASSUME NEW x, NEW y, Precedes(r, x, y)
      PROVE  Precedes(s, x, y)
  BY <1>2, <1>3, <1>5 DEF IndexMap, Precedes
<1>6. ASSUME NEW x \in S, NEW y \in S, Precedes(s, x, y)
      PROVE  Precedes(r, x, y)
  <2>1. PICK i, j \in 1..Len(s) : i < j /\ s[i] = x /\ s[j] = y
    BY <1>6 DEF Precedes
  <2>2. PICK k \in 1..Len(r) : m[k] = i
    BY <1>2, <2>1 DEF IndexMap
  <2>3. PICK l \in 1..Len(r) : m[l] = j
    BY <1>2, <2>1 DEF IndexMap
  <2>4. ~(l < k) /\ l # k
    BY <1>2, <1>3, <2>1, <2>2, <2>3 DEF IndexMap
  <2>5. k < l
    BY <1>3, <2>4
  <2>6. r[k] = x /\ r[l] = y
    BY <1>3, <2>1, <2>2, <2>3
  <2> QED BY <2>5, <2>6 DEF Precedes
<1> QED BY <1>4, <1>5, <1>6 DEF r
-----------------------------------------------------------------------------
(* Joining lists, adding to a list and taking its head. *)

LEMMA ConcatOrder ==
  ASSUME NEW A, NEW a \in Seq(A), NEW b \in Seq(A),
         Injective(a), Injective(b), Elements(a) \cap Elements(b) = {}
  PROVE  /\ a \o b \in Seq(A) /\ Injective(a \o b)
         /\ Elements(a \o b) = Elements(a) \cup Elements(b)
         /\ \A x, y : Precedes(a \o b, x, y) <=>
              \/ Precedes(a, x, y)
              \/ Precedes(b, x, y)
              \/ x \in Elements(a) /\ y \in Elements(b)
<1> DEFINE r == a \o b
           m == Len(a)
           n == Len(b)
<1>1. /\ r \in Seq(A) /\ Len(r) = m + n /\ m \in Nat /\ n \in Nat
      /\ \A i \in 1..m : r[i] = a[i]
      /\ \A i \in 1..n : r[m + i] = b[i]
  <2>1. /\ r \in Seq(A) /\ Len(r) = m + n /\ m \in Nat /\ n \in Nat
        /\ \A i \in 1..(m + n) : r[i] = IF i <= m THEN a[i] ELSE b[i - m]
    BY ConcatProperties
  <2>2. \A i \in 1..n : m + i \in 1..(m + n) /\ ~(m + i <= m) /\ (m + i) - m = i
    BY <2>1
  <2>3. \A i \in 1..m : i \in 1..(m + n) /\ i <= m
    BY <2>1
  <2> HIDE DEF r, m, n
  <2> QED BY <2>1, <2>2, <2>3
<1>2. \A k \in 1..Len(r) : k \in 1..m \/ \E i \in 1..n : k = m + i
  <2> SUFFICES ASSUME NEW k \in 1..Len(r), ~(k \in 1..m)
               PROVE  \E i \in 1..n : k = m + i
    OBVIOUS
  <2>1. k - m \in 1..n /\ k = m + (k - m)
    BY <1>1
  <2> QED BY <2>1
<1>3. (\A i \in 1..m : i \in 1..Len(r)) /\ (\A i \in 1..n : m + i \in 1..Len(r))
  BY <1>1
<1> HIDE DEF r
<1>4. Elements(r) = Elements(a) \cup Elements(b)
  <2>1. \A k \in 1..Len(r) : r[k] \in Elements(a) \cup Elements(b)
    BY <1>1, <1>2 DEF Elements
  <2>2. \A i \in 1..m : a[i] \in Elements(r)
    BY <1>1, <1>3, Zenon DEF Elements
  <2>3. \A i \in 1..n : b[i] \in Elements(r)
    BY <1>1, <1>3, Zenon DEF Elements
  <2> QED BY <2>1, <2>2, <2>3 DEF Elements
<1>5. \A i \in 1..m : \A j \in 1..n : a[i] # b[j]
  BY DEF Elements
<1>6. Injective(r)
  <2> SUFFICES ASSUME NEW k \in 1..Len(r), NEW l \in 1..Len(r), r[k] = r[l]
               PROVE  k = l
    BY DEF Injective
  <2>1. CASE k \in 1..m /\ l \in 1..m
    BY <1>1, <2>1 DEF Injective
  <2>2. CASE k \in 1..m /\ \E j \in 1..n : l = m + j
    BY <1>1, <1>5, <2>2
  <2>3. CASE l \in 1..m /\ \E j \in 1..n : k = m + j
    BY <1>1, <1>5, <2>3
  <2>4. ASSUME NEW i \in 1..n, k = m + i, NEW j \in 1..n, l = m + j
        PROVE  k = l
    <3>1. b[i] = b[j]
      BY <1>1, <2>4
    <3> QED BY <2>4, <3>1 DEF Injective
  <2> QED BY <1>2, <2>1, <2>2, <2>3, <2>4
<1>7. ASSUME NEW x, NEW y, Precedes(r, x, y)
      PROVE  Precedes(a, x, y) \/ Precedes(b, x, y) \/ (x \in Elements(a) /\ y \in Elements(b))
  <2>1. PICK k, l \in 1..Len(r) : k < l /\ r[k] = x /\ r[l] = y
    BY <1>7 DEF Precedes
  <2>2. CASE k \in 1..m /\ l \in 1..m
    BY <1>1, <2>1, <2>2 DEF Precedes
  <2>3. CASE k \in 1..m /\ \E j \in 1..n : l = m + j
    BY <1>1, <2>1, <2>3 DEF Elements
  <2>4. CASE l \in 1..m /\ \E j \in 1..n : k = m + j
    BY <1>1, <2>1, <2>4
  <2>5. ASSUME NEW i \in 1..n, k = m + i, NEW j \in 1..n, l = m + j
        PROVE  Precedes(b, x, y)
    <3>1. i < j /\ b[i] = x /\ b[j] = y
      BY <1>1, <2>1, <2>5
    <3> QED BY <3>1 DEF Precedes
  <2> QED BY <1>2, <2>1, <2>2, <2>3, <2>4, <2>5
<1>8. ASSUME NEW x, NEW y, Precedes(a, x, y) PROVE Precedes(r, x, y)
  <2>1. PICK i, j \in 1..m : i < j /\ a[i] = x /\ a[j] = y
    BY <1>8 DEF Precedes
  <2> QED BY <1>1, <1>3, <2>1 DEF Precedes
<1>9. ASSUME NEW x, NEW y, Precedes(b, x, y) PROVE Precedes(r, x, y)
  <2>1. PICK i, j \in 1..n : i < j /\ b[i] = x /\ b[j] = y
    BY <1>9 DEF Precedes
  <2>2. m + i < m + j /\ r[m + i] = x /\ r[m + j] = y
    BY <1>1, <2>1
  <2> QED BY <1>3, <2>1, <2>2 DEF Precedes
<1>10. ASSUME NEW x \in Elements(a), NEW y \in Elements(b) PROVE Precedes(r, x, y)
  <2>1. PICK i \in 1..m : a[i] = x
    BY DEF Elements
  <2>2. PICK j \in 1..n : b[j] = y
    BY DEF Elements
  <2>3. i < m + j /\ r[i] = x /\ r[m + j] = y
    BY <1>1, <2>1, <2>2
  <2> QED BY <1>3, <2>1, <2>2, <2>3 DEF Precedes
<1> QED BY <1>1, <1>4, <1>6, <1>7, <1>8, <1>9, <1>10 DEF r

LEMMA SingletonOrder ==
  ASSUME NEW A, NEW t \in A
  PROVE  /\ <<t>> \in Seq(A) /\ Injective(<<t>>) /\ Elements(<<t>>) = {t}
         /\ \A x, y : ~Precedes(<<t>>, x, y)
<1>1. <<t>> \in Seq(A) /\ Len(<<t>>) = 1 /\ <<t>>[1] = t
  OBVIOUS
<1> QED BY <1>1 DEF Injective, Elements, Precedes

LEMMA PrecedesElements ==
  ASSUME NEW s, NEW x, NEW y, Precedes(s, x, y)
  PROVE  x \in Elements(s) /\ y \in Elements(s)
BY DEF Precedes, Elements

LEMMA AppendOrder ==
  ASSUME NEW A, NEW s \in Seq(A), NEW t \in A, Injective(s), t \notin Elements(s)
  PROVE  /\ Append(s, t) \in Seq(A) /\ Injective(Append(s, t))
         /\ Elements(Append(s, t)) = Elements(s) \cup {t}
         /\ \A x, y : Precedes(Append(s, t), x, y) <=>
              Precedes(s, x, y) \/ (x \in Elements(s) /\ y = t)
<1>1. Append(s, t) = s \o <<t>>
  BY AppendIsConcat
<1> DEFINE q == <<t>>
<1>2. /\ q \in Seq(A) /\ Injective(q) /\ Elements(q) = {t}
      /\ \A x, y : ~Precedes(q, x, y)
  BY SingletonOrder
<1> HIDE DEF q
<1>3. /\ s \o q \in Seq(A) /\ Injective(s \o q)
      /\ Elements(s \o q) = Elements(s) \cup Elements(q)
      /\ \A x, y : Precedes(s \o q, x, y) <=>
           Precedes(s, x, y) \/ Precedes(q, x, y) \/ (x \in Elements(s) /\ y \in Elements(q))
  <2>1. Elements(s) \cap Elements(q) = {}
    BY <1>2
  <2> QED BY <1>2, <2>1, ConcatOrder
<1>4. Append(s, t) = s \o q
  BY <1>1 DEF q
<1> QED BY <1>2, <1>3, <1>4

LEMMA TailElements ==
  ASSUME NEW A, NEW s \in Seq(A), s # <<>>, Injective(s)
  PROVE  /\ s[1] \in Elements(s) /\ Tail(s) \in Seq(A) /\ Injective(Tail(s))
         /\ Elements(Tail(s)) = Elements(s) \ {s[1]}
<1>1. /\ Tail(s) \in Seq(A) /\ Len(Tail(s)) = Len(s) - 1 /\ Len(s) \in Nat \ {0}
      /\ \A i \in 1..Len(Tail(s)) : Tail(s)[i] = s[i + 1]
  BY HeadTailProperties
<1>2. 1 \in 1..Len(s) /\ \A i \in 1..Len(Tail(s)) : i + 1 \in 1..Len(s) /\ i + 1 # 1
  BY <1>1
<1>3. s[1] \in Elements(s)
  BY <1>2 DEF Elements
<1>4. Injective(Tail(s))
  BY <1>1, <1>2 DEF Injective
<1>5. Elements(Tail(s)) \subseteq Elements(s) \ {s[1]}
  BY <1>1, <1>2 DEF Elements, Injective
<1>6. ASSUME NEW i \in 1..Len(s), s[i] # s[1] PROVE s[i] \in Elements(Tail(s))
  <2>1. i - 1 \in 1..Len(Tail(s)) /\ (i - 1) + 1 = i
    BY <1>1, <1>6
  <2>2. Tail(s)[i - 1] = s[i]
    BY <1>1, <2>1
  <2> QED BY <2>1, <2>2 DEF Elements
<1>7. Elements(s) \ {s[1]} \subseteq Elements(Tail(s))
  BY <1>6 DEF Elements
<1> QED BY <1>1, <1>3, <1>4, <1>5, <1>7

-----------------------------------------------------------------------------
(* The list of suspended tasks. *)

(* Sorted by falling class.                                                *)
Sorted(s) ==
  \A x, y \in Elements(s) : /\ Precedes(s, x, y) => Class[x] >= Class[y]
                            /\ Class[x] > Class[y] => Precedes(s, x, y)

LEMMA ClassType == \A t \in Task : Class[t] \in 1..NoClasses /\ Class[t] \in Int
BY RTuinOSAssumption

(* A task gets its place behind those of its class and above, and the list *)
(* remains as it is otherwise.                                             *)
LEMMA EnqueueOrder ==
  ASSUME NEW s \in Seq(Task), Injective(s), Sorted(s), NEW t \in Task, t \notin Elements(s)
  PROVE  /\ Enqueue(s, t) \in Seq(Task) /\ Injective(Enqueue(s, t))
         /\ Elements(Enqueue(s, t)) = Elements(s) \cup {t}
         /\ \A x, y \in Elements(s) : Precedes(Enqueue(s, t), x, y) <=> Precedes(s, x, y)
         /\ \A x \in Elements(s) :
              /\ Precedes(Enqueue(s, t), x, t) <=> Class[x] >= Class[t]
              /\ Precedes(Enqueue(s, t), t, x) <=> Class[x] < Class[t]
         /\ ~Precedes(Enqueue(s, t), t, t)
<1> DEFINE U == {u \in Task : Class[u] >= Class[t]}
           L == {u \in Task : Class[u] < Class[t]}
           h == Those(s, U)
           l == Those(s, L)
           r == Enqueue(s, t)
<1>1. r = (h \o <<t>>) \o l
  BY DEF Enqueue
<1>2. /\ h \in Seq(Task) /\ Elements(h) = Elements(s) \cap U /\ Injective(h)
      /\ \A x, y \in U : Precedes(h, x, y) <=> Precedes(s, x, y)
  BY ThoseElements, ThoseOrder
<1>3. /\ l \in Seq(Task) /\ Elements(l) = Elements(s) \cap L /\ Injective(l)
      /\ \A x, y \in L : Precedes(l, x, y) <=> Precedes(s, x, y)
  BY ThoseElements, ThoseOrder
<1>4. /\ U \cap L = {} /\ U \cup L = Task /\ Elements(s) \subseteq Task
      /\ t \notin Elements(h) /\ t \notin Elements(l)
  <2>1. \A u \in Task : Class[u] >= Class[t] <=> ~(Class[u] < Class[t])
    BY ClassType
  <2>2. U \cap L = {} /\ U \cup L = Task
    BY <2>1
  <2>3. Elements(s) \subseteq Task
    BY DEF Elements
  <2>4. t \notin Elements(h) /\ t \notin Elements(l)
    BY <1>2, <1>3
  <2> QED BY <2>2, <2>3, <2>4
<1> HIDE DEF h, l, r
<1> DEFINE q == h \o <<t>>
<1>5. /\ q \in Seq(Task) /\ Injective(q) /\ Elements(q) = Elements(h) \cup {t}
      /\ \A x, y : Precedes(q, x, y) <=> Precedes(h, x, y) \/ (x \in Elements(h) /\ y = t)
  <2>1. q = Append(h, t)
    BY <1>2, AppendIsConcat
  <2> HIDE DEF q
  <2> QED BY <1>2, <1>4, <2>1, AppendOrder
<1> HIDE DEF q
<1>6. /\ r \in Seq(Task) /\ Injective(r) /\ Elements(r) = Elements(q) \cup Elements(l)
      /\ \A x, y : Precedes(r, x, y) <=>
           Precedes(q, x, y) \/ Precedes(l, x, y) \/ (x \in Elements(q) /\ y \in Elements(l))
  <2>1. Elements(q) \cap Elements(l) = {}
    BY <1>2, <1>3, <1>4, <1>5
  <2>2. r = q \o l
    BY <1>1 DEF q
  <2> QED BY <1>3, <1>5, <2>1, <2>2, ConcatOrder
<1>7. Elements(r) = Elements(s) \cup {t}
  BY <1>2, <1>3, <1>4, <1>5, <1>6
<1>8. \A x, y : Precedes(r, x, y) <=>
        \/ Precedes(h, x, y)
        \/ x \in Elements(h) /\ y = t
        \/ Precedes(l, x, y)
        \/ (x \in Elements(h) \/ x = t) /\ y \in Elements(l)
  BY <1>5, <1>6
<1>9. \A x \in Elements(s) : /\ x # t
                             /\ x \in Elements(h) <=> Class[x] >= Class[t]
                             /\ x \in Elements(l) <=> Class[x] < Class[t]
  BY <1>2, <1>3, <1>4
<1>10. \A x \in Elements(s) :
         /\ Precedes(r, x, t) <=> Class[x] >= Class[t]
         /\ Precedes(r, t, x) <=> Class[x] < Class[t]
  BY <1>4, <1>8, <1>9, PrecedesElements
<1>11. ~Precedes(r, t, t)
  BY <1>4, <1>8, PrecedesElements
<1>12. ASSUME NEW x \in Elements(s), NEW y \in Elements(s)
       PROVE  Precedes(r, x, y) <=> Precedes(s, x, y)
  <2>1. /\ Class[x] \in Int /\ Class[y] \in Int /\ Class[t] \in Int
        /\ x \in Task /\ y \in Task
    BY <1>4, ClassType
  <2>2. CASE x \in U /\ y \in U
    <3>1. x \notin Elements(l) /\ y \notin Elements(l) /\ y # t /\ x # t
      BY <1>3, <1>4, <2>2
    <3> QED BY <1>2, <1>8, <2>2, <3>1, PrecedesElements
  <2>3. CASE x \in L /\ y \in L
    <3>1. x \notin Elements(h) /\ y \notin Elements(h) /\ y # t /\ x # t
      BY <1>2, <1>4, <2>3
    <3> QED BY <1>3, <1>8, <2>3, <3>1, PrecedesElements
  <2>4. CASE x \in U /\ y \in L
    <3>1. x \in Elements(h) /\ y \in Elements(l)
      BY <1>2, <1>3, <2>4
    <3>2. Class[x] > Class[y]
      BY <2>1, <2>4
    <3> QED BY <1>8, <3>1, <3>2 DEF Sorted
  <2>5. CASE x \in L /\ y \in U
    <3>1. /\ x \notin Elements(h) /\ y \notin Elements(l) /\ x # t /\ y # t
      BY <1>2, <1>3, <1>4, <2>5
    <3>2. ~(Class[x] >= Class[y])
      BY <2>1, <2>5
    <3>3. ~Precedes(s, x, y)
      BY <3>2 DEF Sorted
    <3> QED BY <1>8, <3>1, <3>3, PrecedesElements
  <2> QED BY <1>4, <2>1, <2>2, <2>3, <2>4, <2>5
<1> QED BY <1>6, <1>7, <1>10, <1>11, <1>12 DEF r

LEMMA EnqueueSorted ==
  ASSUME NEW s \in Seq(Task), Injective(s), Sorted(s), NEW t \in Task, t \notin Elements(s)
  PROVE  Sorted(Enqueue(s, t))
<1> DEFINE r == Enqueue(s, t)
<1>1. /\ Elements(r) = Elements(s) \cup {t}
      /\ \A x, y \in Elements(s) : Precedes(r, x, y) <=> Precedes(s, x, y)
      /\ \A x \in Elements(s) : /\ Precedes(r, x, t) <=> Class[x] >= Class[t]
                                /\ Precedes(r, t, x) <=> Class[x] < Class[t]
      /\ ~Precedes(r, t, t)
  BY EnqueueOrder
<1>2. \A x \in Elements(r) : x \in Task /\ Class[x] \in Int
  <2>1. Elements(s) \subseteq Task
    BY DEF Elements
  <2> HIDE DEF r
  <2> QED BY <1>1, <2>1, ClassType
<1> HIDE DEF r
<1>3. ASSUME NEW x \in Elements(r), NEW y \in Elements(r)
      PROVE  /\ Precedes(r, x, y) => Class[x] >= Class[y]
             /\ Class[x] > Class[y] => Precedes(r, x, y)
  <2>1. CASE x # t /\ y # t
    BY <1>1, <2>1 DEF Sorted
  <2>2. CASE x = t /\ y = t
    BY <1>1, <1>2, <2>2
  <2>3. CASE x # t /\ y = t
    BY <1>1, <1>2, <2>3
  <2>4. CASE x = t /\ y # t
    BY <1>1, <1>2, <2>4
  <2> QED BY <2>1, <2>2, <2>3, <2>4
<1> QED BY <1>3 DEF Sorted, r

(* At the beginning all tasks are in the list.                             *)
LEMMA EnqueuedAll ==
  /\ Enqueued[NoTasks] \in Seq(Task) /\ Injective(Enqueued[NoTasks])
  /\ Sorted(Enqueued[NoTasks]) /\ Elements(Enqueued[NoTasks]) = Task
<1> DEFINE UpTo(f, n) == f = [i \in 0..n |-> IF i = 0 THEN <<>> ELSE Enqueue(f[i - 1], i)]
           T == {n \in Nat : \E f : UpTo(f, n)}
<1>1. NoTasks \in Nat
  BY RTuinOSAssumption
<1>2. 0 \in T
  <2>1. UpTo([i \in 0..0 |-> <<>>], 0)
    OBVIOUS
  <2> QED BY <2>1
<1>3. ASSUME NEW n \in 1..NoTasks, n - 1 \in T
      PROVE  n \in T
  <2>1. PICK g : UpTo(g, n - 1)
    BY <1>3
  <2> DEFINE f == [i \in 0..n |-> IF i = n THEN Enqueue(g[n - 1], n) ELSE g[i]]
  <2>2. \A i \in 0..(n - 1) : g[i] = IF i = 0 THEN <<>> ELSE Enqueue(g[i - 1], i)
    BY <2>1, Zenon
  <2>3. ASSUME NEW i \in 0..n
        PROVE  f[i] = IF i = 0 THEN <<>> ELSE Enqueue(f[i - 1], i)
    <3>1. CASE i = n
      <4>1. n - 1 \in 0..n /\ n - 1 # n /\ n # 0
        BY <1>1
      <4>2. f[n - 1] = g[n - 1] /\ f[n] = Enqueue(g[n - 1], n)
        BY <4>1
      <4> QED BY <3>1, <4>1, <4>2
    <3>2. CASE i # n /\ i # 0
      <4>1. i \in 0..(n - 1) /\ i - 1 \in 0..n /\ i - 1 # n
        BY <1>1, <3>2
      <4>2. f[i] = g[i] /\ f[i - 1] = g[i - 1]
        BY <3>2, <4>1
      <4> QED BY <2>2, <3>2, <4>1, <4>2
    <3>3. CASE i # n /\ i = 0
      <4>1. i \in 0..(n - 1) /\ f[i] = g[i]
        BY <1>1, <3>3
      <4> QED BY <2>2, <3>3, <4>1
    <3> QED BY <3>1, <3>2, <3>3
  <2>4. UpTo(f, n)
    <3>1. f = [i \in 0..n |-> f[i]]
      OBVIOUS
    <3> HIDE DEF f
    <3> QED BY <2>3, <3>1
  <2>5. n \in Nat
    BY <1>1
  <2> HIDE DEF f, UpTo
  <2> QED BY <2>4, <2>5
<1>4. NoTasks \in T
  <2> HIDE DEF T
  <2>1. \A n \in 0..NoTasks : n \in T
    BY <1>1, <1>2, <1>3, InductionUpTo
  <2> QED BY <1>1, <2>1
<1>5. \A i \in 0..NoTasks : Enqueued[i] = IF i = 0 THEN <<>> ELSE Enqueue(Enqueued[i - 1], i)
  <2>1. Enqueued = CHOOSE f : UpTo(f, NoTasks)
    BY Zenon DEF Enqueued
  <2>2. UpTo(Enqueued, NoTasks)
    <3> HIDE DEF UpTo
    <3> QED BY <1>4, <2>1
  <2> QED BY <2>2, Zenon
<1> DEFINE Q == {n \in Nat : /\ Enqueued[n] \in Seq(Task) /\ Injective(Enqueued[n])
                             /\ Sorted(Enqueued[n]) /\ Elements(Enqueued[n]) = 1..n}
<1>6. 0 \in Q
  <2>1. Enqueued[0] = <<>>
    BY <1>1, <1>5
  <2>2. <<>> \in Seq(Task) /\ Injective(<<>>) /\ Sorted(<<>>) /\ Elements(<<>>) = {}
    BY DEF Injective, Sorted, Elements
  <2>3. 1..0 = {}
    OBVIOUS
  <2> QED BY <2>1, <2>2, <2>3
<1>7. ASSUME NEW n \in 1..NoTasks, n - 1 \in Q
      PROVE  n \in Q
  <2> DEFINE s == Enqueued[n - 1]
  <2>1. /\ s \in Seq(Task) /\ Injective(s) /\ Sorted(s) /\ Elements(s) = 1..(n - 1)
    BY <1>7
  <2>2. Enqueued[n] = Enqueue(s, n)
    BY <1>1, <1>5
  <2>3. n \in Task /\ n \notin 1..(n - 1) /\ (1..(n - 1)) \cup {n} = 1..n /\ n \in Nat
    BY <1>1 DEF Task
  <2> HIDE DEF s
  <2>4. n \notin Elements(s)
    BY <2>1, <2>3
  <2>5. /\ Enqueue(s, n) \in Seq(Task) /\ Injective(Enqueue(s, n))
        /\ Elements(Enqueue(s, n)) = Elements(s) \cup {n}
    BY <2>1, <2>3, <2>4, EnqueueOrder
  <2>6. Sorted(Enqueue(s, n))
    BY <2>1, <2>3, <2>4, EnqueueSorted
  <2> QED BY <2>1, <2>2, <2>3, <2>5, <2>6
<1>8. NoTasks \in Q
  <2> HIDE DEF Q
  <2>1. \A n \in 0..NoTasks : n \in Q
    BY <1>1, <1>6, <1>7, InductionUpTo
  <2> QED BY <1>1, <2>1
<1> QED BY <1>8 DEF Task
=============================================================================
