--------------------------- MODULE SerialIOProofs ---------------------------
(***************************************************************************)
(* Proofs about the serial I/O driver, for any characters, messages and    *)
(* sizes of the buffers: the counted ends of line are those in the buffer, *)
(* and the two rings are the two queues of SerialQueues.                   *)
(*                                                                         *)
(* The argument: what a ring holds is a sequence (Window) to which writing *)
(* appends (WindowAppend) and from which reading drops (WindowDrop). The   *)
(* free running write index and the DMA's address are compared modulo the  *)
(* size of the buffer; while the DMA is enabled it has still to transfer   *)
(* what is pending, and otherwise nothing is, except while a writer has it *)
(* stopped (DmaCoherent). That holds unless a request has slipped in while *)
(* it was being stopped. Then still holds what the assertions of the code  *)
(* rely on (DmaAlways).                                                    *)
(***************************************************************************)
EXTENDS SerialIO, SequenceTheorems, FunctionTheorems, FiniteSetTheorems, WellFoundedInduction, TLAPS

-----------------------------------------------------------------------------
(* Numbers modulo the size of a buffer *)

LEMMA DivMod ==
  ASSUME NEW M \in Nat \ {0}, NEW x \in Int
  PROVE  /\ x % M \in 0..(M - 1)
         /\ x \div M \in Int
         /\ x = (x \div M) * M + (x % M)
<1>1. x % M \in 0..(M - 1)
  OBVIOUS
<1>2. x \div M \in Int
  OBVIOUS
<1>3. x = (x \div M) * M + (x % M)
  OBVIOUS
<1> QED BY <1>1, <1>2, <1>3

(* The remainder is the only number of the range with this property.       *)
LEMMA ModIs ==
  ASSUME NEW M \in Nat \ {0}, NEW x \in Int, NEW r \in 0..(M - 1), NEW k \in Int,
         x = k * M + r
  PROVE  x % M = r
<1> DEFINE s == x % M
           d == x \div M
<1>1. s \in 0..(M - 1) /\ d \in Int /\ x = d * M + s
  BY DivMod
<1> HIDE DEF s, d
<1>2. CASE d = k
  <2> DEFINE u == k * M
  <2>1. u \in Int
    OBVIOUS
  <2>2. x = u + s /\ x = u + r
    BY <1>1, <1>2
  <2> HIDE DEF u
  <2>3. s = r
    BY <1>1, <2>1, <2>2
  <2> QED BY <2>3 DEF s
<1>3. CASE d > k
  <2>1. d = (k + 1) + (d - k - 1) /\ d - k - 1 \in Nat
    BY <1>1, <1>3
  <2>2. (k + 1) * M = k * M + M /\ (d - k - 1) * M \in Nat
    BY <2>1
  <2>3. d * M = (k + 1) * M + (d - k - 1) * M
    BY <2>1
  <2> DEFINE u == k * M
             v == (d - k - 1) * M
             w == d * M
  <2>4. u \in Int /\ v \in Nat /\ w = u + M + v /\ x = w + s /\ x = u + r
    BY <1>1, <2>2, <2>3
  <2> HIDE DEF u, v, w
  <2> QED BY <1>1, <2>4
<1>4. CASE d < k
  <2>1. k = (d + 1) + (k - d - 1) /\ k - d - 1 \in Nat
    BY <1>1, <1>4
  <2>2. (d + 1) * M = d * M + M /\ (k - d - 1) * M \in Nat
    BY <1>1, <2>1
  <2>3. k * M = (d + 1) * M + (k - d - 1) * M
    BY <1>1, <2>1
  <2> DEFINE u == d * M
             v == (k - d - 1) * M
             w == k * M
  <2>4. u \in Int /\ v \in Nat /\ w = u + M + v /\ x = u + s /\ x = w + r
    BY <1>1, <2>2, <2>3
  <2> HIDE DEF u, v, w
  <2> QED BY <1>1, <2>4
<1> QED BY <1>1, <1>2, <1>3, <1>4

(* A number that leaves the range by less than its length.                 *)
LEMMA SmallMod ==
  ASSUME NEW M \in Nat \ {0}, NEW x \in Int, -M <= x, x < 2 * M
  PROVE  x % M = IF x < 0 THEN x + M ELSE IF x < M THEN x ELSE x - M
<1>1. CASE x < 0
  <2>1. x = (-1) * M + (x + M) /\ x + M \in 0..(M - 1)
    BY <1>1
  <2> QED BY <1>1, <2>1, ModIs
<1>2. CASE x >= 0 /\ x < M
  <2>1. x = 0 * M + x /\ x \in 0..(M - 1)
    BY <1>2
  <2> QED BY <1>2, <2>1, ModIs
<1>3. CASE x >= M
  <2>1. x = 1 * M + (x - M) /\ x - M \in 0..(M - 1)
    BY <1>3
  <2> QED BY <1>3, <2>1, ModIs
<1> QED BY <1>1, <1>2, <1>3

(* Numbers that differ by a multiple have the same remainder.              *)
LEMMA SameMod ==
  ASSUME NEW M \in Nat \ {0}, NEW x \in Int, NEW y \in Int, NEW k \in Int, x = y + k * M
  PROVE  x % M = y % M
<1> DEFINE r == y % M
           d == y \div M
<1>1. r \in 0..(M - 1) /\ d \in Int /\ y = d * M + r
  BY DivMod
<1> HIDE DEF r, d
<1>2. (d + k) * M = d * M + k * M /\ d + k \in Int
  BY <1>1
<1> DEFINE u == d * M
           v == k * M
           w == (d + k) * M
<1>3. u \in Int /\ v \in Int /\ w = u + v /\ x = y + v /\ y = u + r
  BY <1>1, <1>2
<1> HIDE DEF u, v, w
<1>4. x = w + r
  BY <1>1, <1>3
<1>5. x = (d + k) * M + r
  BY <1>4 DEF w
<1>6. x % M = r
  BY <1>1, <1>2, <1>5, ModIs
<1> QED BY <1>6 DEF r

(* A difference may be taken of the remainder as well.                     *)
LEMMA ModOfMod ==
  ASSUME NEW M \in Nat \ {0}, NEW x \in Int, NEW y \in Int
  PROVE  (x + y) % M = ((x % M) + y) % M
<1> DEFINE r == x % M
           d == x \div M
<1>1. r \in 0..(M - 1) /\ d \in Int /\ x = d * M + r
  BY DivMod
<1> HIDE DEF r, d
<1> DEFINE u == d * M
<1>2. u \in Int /\ x = u + r
  BY <1>1
<1> HIDE DEF u
<1>3. x + y = (r + y) + u
  BY <1>1, <1>2
<1>4. x + y = (r + y) + d * M
  BY <1>3 DEF u
<1> DEFINE a == x + y
           b == r + y
<1>5. a \in Int /\ b \in Int /\ a = b + d * M
  BY <1>1, <1>4
<1> HIDE DEF a, b
<1>6. a % M = b % M
  BY <1>1, <1>5, SameMod
<1> QED BY <1>6 DEF a, b, r
-----------------------------------------------------------------------------
(* Rings *)

Index(M) == 0..(M - 1)

(* What lies in a ring of M places from place p on.                        *)
Window(buf, M, p, n) == [i \in 1..n |-> buf[(p + i - 1) % M]]

(* Place i of a window.                                                    *)
PlaceAt(M, p, i) == (p + i - 1) % M

LEMMA PlaceType ==
  ASSUME NEW M \in Nat \ {0}, NEW p \in Index(M), NEW i \in 1..M
  PROVE  /\ PlaceAt(M, p, i) \in Index(M)
         /\ PlaceAt(M, p, i) = IF p + i - 1 < M THEN p + i - 1 ELSE p + i - 1 - M
<1> DEFINE x == p + i - 1
<1>1. x \in Int /\ -M <= x /\ x < 2 * M /\ x >= 0
  BY DEF Index
<1>2. x % M = IF x < 0 THEN x + M ELSE IF x < M THEN x ELSE x - M
  <2> HIDE DEF x
  <2> QED BY <1>1, SmallMod
<1>3. PlaceAt(M, p, i) = x % M
  BY DEF PlaceAt
<1> QED BY <1>1, <1>2, <1>3 DEF Index

IsWindow(w, buf, M, p, n) ==
  /\ Len(w) = n
  /\ \A i \in 1..n : w[i] = buf[PlaceAt(M, p, i)]

LEMMA WindowElements ==
  ASSUME NEW buf, NEW M, NEW p, NEW n \in Nat
  PROVE  IsWindow(Window(buf, M, p, n), buf, M, p, n)
<1> DEFINE w == [i \in 1..n |-> buf[PlaceAt(M, p, i)]]
           S == {buf[PlaceAt(M, p, i)] : i \in 1..n}
<1>1. w = Window(buf, M, p, n)
  BY DEF Window, PlaceAt
<1>2. \A i \in 1..n : buf[PlaceAt(M, p, i)] \in S
  OBVIOUS
<1> HIDE DEF S
<1>3. w \in Seq(S)
  BY <1>2, IsASeq
<1>4. DOMAIN w = 1..n
  OBVIOUS
<1>5. Len(w) = n
  <2> HIDE DEF w
  <2>1. Len(w) \in Nat /\ DOMAIN w = 1..Len(w)
    BY <1>3, LenProperties
  <2> QED BY <1>4, <2>1
<1>6. \A i \in 1..n : w[i] = buf[PlaceAt(M, p, i)]
  OBVIOUS
<1> QED BY <1>1, <1>5, <1>6 DEF IsWindow

LEMMA WindowType ==
  ASSUME NEW S, NEW M \in Nat \ {0}, NEW buf \in [Index(M) -> S], NEW p \in Index(M),
         NEW n \in 0..M
  PROVE  Window(buf, M, p, n) \in Seq(S)
<1> DEFINE w == [i \in 1..n |-> buf[PlaceAt(M, p, i)]]
<1>1. w = Window(buf, M, p, n)
  BY DEF Window, PlaceAt
<1>2. \A i \in 1..n : buf[PlaceAt(M, p, i)] \in S
  BY PlaceType
<1>3. w \in Seq(S)
  BY <1>2, IsASeq
<1> QED BY <1>1, <1>3

(* Different places of a window are different places of the ring.          *)
LEMMA PlacesDiffer ==
  ASSUME NEW M \in Nat \ {0}, NEW p \in Index(M), NEW i \in 1..M, NEW j \in 1..M, i # j
  PROVE  PlaceAt(M, p, i) # PlaceAt(M, p, j)
<1>1. PlaceAt(M, p, i) = IF p + i - 1 < M THEN p + i - 1 ELSE p + i - 1 - M
  BY PlaceType
<1>2. PlaceAt(M, p, j) = IF p + j - 1 < M THEN p + j - 1 ELSE p + j - 1 - M
  BY PlaceType
<1> QED BY <1>1, <1>2 DEF Index

IsRing(buf, M, p, n, S) ==
  M \in Nat \ {0} /\ buf \in [Index(M) -> S] /\ p \in Index(M) /\ n \in 0..M

(* Reading k characters drops them from the window.                        *)
ReadUpTo(q, M, p, n, m, k) == k \in 0..n /\ q = (p + k) % M /\ m = n - k

(* The places of a window after reading.                                   *)
LEMMA PlaceShift ==
  ASSUME NEW M \in Nat \ {0}, NEW p \in Index(M), NEW q \in Index(M), NEW n \in 0..M, NEW m, NEW k,
         ReadUpTo(q, M, p, n, m, k), NEW i \in 1..m, NEW j, j = k + i
  PROVE  PlaceAt(M, q, i) = PlaceAt(M, p, j)
<1>. k \in 0..M /\ m \in 0..M /\ i \in 1..M /\ j \in 1..M
  BY DEF ReadUpTo
<1> DEFINE x == p + k
<1>1. x \in Int /\ -M <= x /\ x < 2 * M /\ x >= 0
  BY DEF Index
<1>2. x % M = IF x < 0 THEN x + M ELSE IF x < M THEN x ELSE x - M
  <2> HIDE DEF x
  <2> QED BY <1>1, SmallMod
<1>3. q = IF p + k < M THEN p + k ELSE p + k - M
  <2>1. q = (p + k) % M
    BY DEF ReadUpTo
  <2> QED BY <1>1, <1>2, <2>1
<1> HIDE DEF x
<1>4. PlaceAt(M, q, i) = IF q + i - 1 < M THEN q + i - 1 ELSE q + i - 1 - M
  BY PlaceType
<1>5. PlaceAt(M, p, j) = IF p + j - 1 < M THEN p + j - 1 ELSE p + j - 1 - M
  BY PlaceType
<1>6. p \in Int /\ q \in Int /\ p >= 0 /\ p < M
  BY DEF Index
<1>7. CASE p + k < M
  <2>1. /\ q + i - 1 = p + j - 1 /\ q + i - 1 - M = p + j - 1 - M
        /\ q + i - 1 < M <=> p + j - 1 < M
    BY <1>3, <1>6, <1>7
  <2> QED BY <1>4, <1>5, <2>1
<1>8. CASE ~(p + k < M)
  <2>1. q + i - 1 = p + j - 1 - M /\ q + i - 1 < M /\ ~(p + j - 1 < M)
    BY <1>3, <1>6, <1>8
  <2> QED BY <1>4, <1>5, <2>1
<1> QED BY <1>7, <1>8

LEMMA WindowDrop ==
  ASSUME NEW S, NEW M, NEW buf, NEW p, NEW q, NEW n, NEW m, NEW k,
         IsRing(buf, M, p, n, S), IsRing(buf, M, q, m, S), ReadUpTo(q, M, p, n, m, k)
  PROVE  Window(buf, M, q, m) = SubSeq(Window(buf, M, p, n), k + 1, n)
<1> DEFINE s == Window(buf, M, p, n)
           t == Window(buf, M, q, m)
           u == SubSeq(s, k + 1, n)
<1>. /\ M \in Nat \ {0} /\ buf \in [Index(M) -> S] /\ p \in Index(M) /\ q \in Index(M)
     /\ n \in 0..M /\ m \in 0..M /\ k \in 0..n
  BY DEF IsRing, ReadUpTo
<1>0. m = n - k
  BY DEF ReadUpTo
<1>1. /\ s \in Seq(S) /\ Len(s) = n
      /\ \A i \in 1..n : s[i] = buf[PlaceAt(M, p, i)]
  <2>1. s \in Seq(S)
    BY WindowType
  <2>2. IsWindow(s, buf, M, p, n)
    BY WindowElements
  <2> QED BY <2>1, <2>2 DEF IsWindow
<1>2. /\ t \in Seq(S) /\ Len(t) = m
      /\ \A i \in 1..m : t[i] = buf[PlaceAt(M, q, i)]
  <2>1. t \in Seq(S)
    BY WindowType
  <2>2. IsWindow(t, buf, M, q, m)
    BY WindowElements
  <2> QED BY <2>1, <2>2 DEF IsWindow
<1> HIDE DEF s, t
<1>3. \A i \in (k + 1)..n : s[i] \in S
  BY <1>1, ElementOfSeq
<1>4. /\ u \in Seq(S)
      /\ Len(u) = m
      /\ \A i \in 1..m : u[i] = s[k + 1 + i - 1]
  <2> DEFINE k1 == k + 1
  <2>1. k1 \in Int /\ \A i \in k1..n : s[i] \in S
    BY <1>3
  <2> HIDE DEF k1
  <2>2. /\ SubSeq(s, k1, n) \in Seq(S)
        /\ Len(SubSeq(s, k1, n)) = IF k1 <= n THEN n - k1 + 1 ELSE 0
        /\ \A i \in 1..(n - k1 + 1) : SubSeq(s, k1, n)[i] = s[k1 + i - 1]
    BY <2>1, SubSeqProperties
  <2>3. m = n - k1 + 1 /\ (IF k1 <= n THEN n - k1 + 1 ELSE 0) = m
    BY <1>0 DEF k1
  <2> QED BY <2>2, <2>3 DEF k1
<1>5. ASSUME NEW i \in 1..m PROVE t[i] = u[i]
  <2> DEFINE j == k + i
  <2>1. j \in 1..n /\ j \in 1..M /\ i \in 1..M /\ k \in 0..M /\ k + i \in 1..M /\ k + 1 + i - 1 = j
    BY <1>0, <1>5
  <2>2. PlaceAt(M, q, i) = PlaceAt(M, p, j)
    <3>1. j = k + i
      OBVIOUS
    <3> HIDE DEF j
    <3> QED BY <1>5, <3>1, PlaceShift
  <2>3. u[i] = s[j]
    BY <1>4, <1>5, <2>1
  <2> HIDE DEF j
  <2>4. s[j] = buf[PlaceAt(M, p, j)]
    BY <1>1, <2>1
  <2> QED BY <1>2, <1>5, <2>2, <2>3, <2>4
<1> HIDE DEF u
<1>6. t = u
  BY <1>2, <1>4, <1>5, SeqEqual
<1> QED BY <1>6 DEF s, t, u

(* Writing new characters behind a window appends them to it.              *)
WrittenBehind(b2, buf, M, p, n, m, new) ==
  /\ m = n + Len(new)
  /\ \A i \in 1..n : b2[PlaceAt(M, p, i)] = buf[PlaceAt(M, p, i)]
  /\ \A i \in (n + 1)..m : b2[PlaceAt(M, p, i)] = new[i - n]

Extends(t, s, new) == t = s \o new

LEMMA WindowAppend ==
  ASSUME NEW S, NEW M, NEW buf, NEW b2, NEW p, NEW n, NEW m, NEW new,
         IsRing(buf, M, p, n, S), IsRing(b2, M, p, m, S), new \in Seq(S),
         WrittenBehind(b2, buf, M, p, n, m, new)
  PROVE  Extends(Window(b2, M, p, m), Window(buf, M, p, n), new)
<1> DEFINE s == Window(buf, M, p, n)
           t == Window(b2, M, p, m)
           u == s \o new
<1>. /\ M \in Nat \ {0} /\ p \in Index(M) /\ n \in 0..M /\ m \in 0..M
     /\ buf \in [Index(M) -> S] /\ b2 \in [Index(M) -> S]
  BY DEF IsRing
<1>1. /\ s \in Seq(S) /\ Len(s) = n
      /\ \A i \in 1..n : s[i] = buf[PlaceAt(M, p, i)]
  <2>1. s \in Seq(S)
    BY WindowType
  <2>2. IsWindow(s, buf, M, p, n)
    BY WindowElements
  <2> QED BY <2>1, <2>2 DEF IsWindow
<1>2. /\ t \in Seq(S) /\ Len(t) = m
      /\ \A i \in 1..m : t[i] = b2[PlaceAt(M, p, i)]
  <2>1. t \in Seq(S)
    BY WindowType
  <2>2. IsWindow(t, b2, M, p, m)
    BY WindowElements
  <2> QED BY <2>1, <2>2 DEF IsWindow
<1> HIDE DEF s, t
<1>3. /\ u \in Seq(S) /\ Len(u) = Len(s) + Len(new)
      /\ \A i \in 1..(Len(s) + Len(new)) : u[i] = IF i <= Len(s) THEN s[i] ELSE new[i - Len(s)]
  BY <1>1, ConcatProperties
<1> HIDE DEF u
<1>4. Len(new) \in Nat /\ m = n + Len(new)
  BY LenProperties DEF WrittenBehind
<1>5. ASSUME NEW i \in 1..m PROVE t[i] = u[i]
  <2>1. CASE i <= n
    <3>1. i \in 1..n
      BY <1>5, <2>1
    <3>2. b2[PlaceAt(M, p, i)] = buf[PlaceAt(M, p, i)]
      BY <3>1 DEF WrittenBehind
    <3> QED BY <1>1, <1>2, <1>3, <1>5, <2>1, <3>1, <3>2
  <2>2. CASE i > n
    <3>1. i \in (n + 1)..m /\ ~(i <= n)
      BY <1>5, <2>2
    <3>2. b2[PlaceAt(M, p, i)] = new[i - n]
      BY <3>1 DEF WrittenBehind
    <3> QED BY <1>1, <1>2, <1>3, <1>4, <1>5, <3>1, <3>2
  <2> QED BY <1>5, <2>1, <2>2
<1>6. t = u
  BY <1>1, <1>2, <1>3, <1>4, <1>5, SeqEqual
<1> QED BY <1>6 DEF s, t, u, Extends
-----------------------------------------------------------------------------
(* Ends of line *)

LEMMA NatLessWellFounded ==
  IsWellFoundedOn({ss \in Nat \X Nat : ss[1] < ss[2]}, Nat)
BY NatLessThanWellFounded, Zenon DEF OpToRel

LEMMA MinProperties ==
  ASSUME NEW S \in SUBSET Nat, S # {}
  PROVE  Min(S) \in S /\ \A y \in S : Min(S) <= y
<1> DEFINE R == {ss \in Nat \X Nat : ss[1] < ss[2]}
<1>1. IsWellFoundedOn(R, Nat)
  BY NatLessWellFounded
<1> HIDE DEF R
<1>2. PICK x \in S : \A y \in S : ~(<<y, x>> \in R)
  BY <1>1, WFMin
<1>3. \A y \in S : x <= y
  <2> TAKE y \in S
  <2>1. ~(y < x)
    BY <1>2 DEF R
  <2> QED BY <2>1
<1> QED BY <1>3 DEF Min

Eols(s) == {i \in 1..Len(s) : s[i] = Eol}
FirstEol(s) == SelectInSeq(s, LAMBDA c : c = Eol)

LEMMA EolsFinite ==
  ASSUME NEW S, NEW s \in Seq(S)
  PROVE  /\ IsFiniteSet(Eols(s))
         /\ Cardinality(Eols(s)) \in 0..Len(s)
         /\ Cardinality(Eols(s)) = 0 <=> Eols(s) = {}
<1> DEFINE l == Len(s)
<1>1. l \in Nat
  BY LenProperties
<1>2. Eols(s) \in SUBSET (1..l)
  BY DEF Eols
<1> HIDE DEF l
<1>3. IsFiniteSet(1..l) /\ Cardinality(1..l) = IF 1 > l THEN 0 ELSE l - 1 + 1
  BY <1>1, FS_Interval
<1>4. IsFiniteSet(Eols(s)) /\ Cardinality(Eols(s)) <= Cardinality(1..l)
  BY <1>2, <1>3, FS_Subset
<1>5. Cardinality(Eols(s)) \in Nat
  BY <1>4, FS_CardinalityType
<1>6. Cardinality(Eols(s)) = 0 <=> Eols(s) = {}
  BY <1>4, FS_EmptySet
<1> QED BY <1>1, <1>3, <1>4, <1>5, <1>6 DEF l

LEMMA EolsAppend ==
  ASSUME NEW S, NEW s \in Seq(S), NEW c \in S
  PROVE  Cardinality(Eols(Append(s, c))) = Cardinality(Eols(s)) + IF c = Eol THEN 1 ELSE 0
<1> DEFINE l == Len(s)
           t == Append(s, c)
<1>1. l \in Nat
  BY LenProperties
<1>2. Len(t) = l + 1 /\ t[l + 1] = c /\ \A i \in 1..l : t[i] = s[i]
  BY AppendProperties
<1> HIDE DEF l, t
<1>3. Eols(s) = {i \in 1..l : s[i] = Eol}
  BY DEF Eols, l
<1>4. Eols(t) = {i \in 1..(l + 1) : t[i] = Eol}
  BY <1>2 DEF Eols
<1>5. Eols(t) = IF c = Eol THEN Eols(s) \cup {l + 1} ELSE Eols(s)
  <2>1. \A i : i \in 1..(l + 1) <=> i \in 1..l \/ i = l + 1
    BY <1>1
  <2>2. \A i : i \in Eols(t) <=> (i \in 1..l /\ s[i] = Eol) \/ (i = l + 1 /\ c = Eol)
    BY <1>2, <1>4, <2>1
  <2> QED BY <1>3, <2>2
<1>6. l + 1 \notin Eols(s)
  BY <1>1, <1>3
<1>7. IsFiniteSet(Eols(s)) /\ Cardinality(Eols(s)) \in Nat
  <2>1. Cardinality(Eols(s)) \in 0..l /\ IsFiniteSet(Eols(s))
    BY EolsFinite DEF l
  <2> QED BY <1>1, <2>1
<1>8. Cardinality(Eols(s) \cup {l + 1}) = Cardinality(Eols(s)) + 1
  BY <1>6, <1>7, FS_AddElement
<1>9. Cardinality(Eols(t)) = Cardinality(Eols(s)) + IF c = Eol THEN 1 ELSE 0
  BY <1>5, <1>7, <1>8
<1> QED BY <1>9 DEF t

(* What is left of the ends of line when k characters are dropped.         *)
LEMMA EolsDrop ==
  ASSUME NEW S, NEW s \in Seq(S), NEW k \in 0..Len(s)
  PROVE  Cardinality(Eols(SubSeq(s, k + 1, Len(s)))) = Cardinality(Eols(s) \ (1..k))
<1> DEFINE l == Len(s)
           t == SubSeq(s, k + 1, l)
           A == Eols(s) \ (1..k)
           B == Eols(t)
           f == [i \in B |-> i + k]
<1>1. l \in Nat /\ k \in 0..l
  BY LenProperties
<1>2. Len(t) = l - k /\ \A i \in 1..(l - k) : t[i] = s[i + k]
  <2> DEFINE k1 == k + 1
  <2>1. k1 \in Int /\ \A i \in k1..l : s[i] \in S
    BY <1>1, ElementOfSeq
  <2> HIDE DEF k1, l
  <2>2. /\ Len(SubSeq(s, k1, l)) = IF k1 <= l THEN l - k1 + 1 ELSE 0
        /\ \A i \in 1..(l - k1 + 1) : SubSeq(s, k1, l)[i] = s[k1 + i - 1]
    BY <1>1, <2>1, SubSeqProperties
  <2>3. l - k = l - k1 + 1 /\ (IF k1 <= l THEN l - k1 + 1 ELSE 0) = l - k
    BY <1>1 DEF k1
  <2>4. \A i \in 1..(l - k) : k1 + i - 1 = i + k
    BY <1>1 DEF k1
  <2> QED BY <2>2, <2>3, <2>4 DEF k1
<1> HIDE DEF l, t
<1>3. \A i : i \in A <=> i \in (k + 1)..l /\ s[i] = Eol
  BY <1>1 DEF Eols, l
<1>4. \A i : i \in B <=> i \in 1..(l - k) /\ s[i + k] = Eol
  BY <1>1, <1>2 DEF Eols
<1>5. f \in Bijection(B, A)
  <2>1. \A i \in B : f[i] \in A
    <3> TAKE i \in B
    <3>1. i \in 1..(l - k) /\ s[i + k] = Eol
      BY <1>4
    <3>2. i + k \in (k + 1)..l
      BY <1>1, <3>1
    <3>3. i + k \in A
      BY <1>3, <3>1, <3>2
    <3> QED BY <3>3
  <2>2. \A i, j \in B : f[i] = f[j] => i = j
    <3> TAKE i, j \in B
    <3>1. i \in Int /\ j \in Int
      BY <1>1, <1>4
    <3> QED BY <1>1, <3>1
  <2>3. \A a \in A : \E i \in B : f[i] = a
    <3> TAKE a \in A
    <3>1. a \in (k + 1)..l /\ s[a] = Eol
      BY <1>3
    <3>2. a - k \in 1..(l - k) /\ (a - k) + k = a
      BY <1>1, <3>1
    <3>3. a - k \in B
      BY <1>4, <3>1, <3>2
    <3>4. f[a - k] = a
      BY <3>2, <3>3
    <3> QED BY <3>3, <3>4
  <2>4. f \in [B -> A]
    BY <2>1
  <2> HIDE DEF f, A, B
  <2> QED BY <2>2, <2>3, <2>4, Fun_IsBij
<1>6. IsFiniteSet(A)
  <2>1. IsFiniteSet(Eols(s))
    BY EolsFinite
  <2>2. A \in SUBSET Eols(s)
    OBVIOUS
  <2> HIDE DEF A
  <2> QED BY <2>1, <2>2, FS_Subset
<1> HIDE DEF A, B, f
<1>7. Cardinality(B) = Cardinality(A)
  <2>1. ExistsBijection(A, B)
    BY <1>5, Fun_ExistsBij, Fun_ExistsBijSymmetric
  <2> QED BY <1>6, <2>1, FS_Bijection
<1> QED BY <1>7 DEF A, B, l, t

(* The first end of line is an end of line.                                *)
LEMMA FirstEolProperties ==
  ASSUME NEW S, NEW s \in Seq(S), Eols(s) # {}
  PROVE  /\ FirstEol(s) \in Eols(s)
         /\ FirstEol(s) \in 1..Len(s)
         /\ \A i \in Eols(s) : FirstEol(s) <= i
<1>1. FirstEol(s) = Min(Eols(s))
  BY DEF FirstEol, SelectInSeq, Eols
<1>2. Len(s) \in Nat
  BY LenProperties
<1>3. Eols(s) \subseteq 1..Len(s)
  BY DEF Eols
<1>4. Eols(s) \in SUBSET Nat
  BY <1>2, <1>3
<1> QED BY <1>1, <1>3, <1>4, MinProperties
-----------------------------------------------------------------------------
(* The inductive invariant *)

EolsInv == noEOL = Cardinality(Eols(Received))

(* An enabled DMA has something to transfer. A writer disables it before it*)
(* touches the buffer.                                                     *)
DmaAlways ==
  /\ erq \/ hrs \/ pc = "start" => citer > 0
  /\ citer > 0 => biter > 0
  /\ pc \in {"read", "append", "start"} => ~erq
  /\ pc \in {"poll", "clear", "read", "append"} => msg \in Messages /\ msg # <<>>

(* While the DMA is enabled it transfers what is pending, and it disables  *)
(* itself when nothing is. Only a writer has it stopped with more to do. A *)
(* stopped DMA may still have a request to serve, one that slipped in.     *)
DmaCoherent ==
  /\ slip = "request" <=> hrs /\ pc \in {"clear", "read", "append", "start"}
  /\ pc \in {"idle", "poll", "clear"} =>
       /\ hrs => erq
       /\ erq => citer = NoPending
       /\ ~erq => NoPending = 0
  /\ pc = "read" /\ hrs => NoPending > 0
  /\ pc = "append" => idxEnd = saddr
  /\ pc = "start" => citer = NoPending

DmaInv == DmaAlways /\ (slip # "taken" => DmaCoherent)

IInv == TypeOK /\ EolsInv /\ DmaInv
-----------------------------------------------------------------------------
(* Input *)

Characters == Char \cup {Blank}

LEMMA BufferSizes ==
  /\ InSize \in Nat \ {0} /\ InIndex = Index(InSize)
  /\ OutSize \in Nat \ {0, 1} /\ OutIndex = Index(OutSize)
  /\ Wrap \in Nat \ {0}
<1>1. OutSize \in Nat \ {0, 1}
  BY WidthAssumption
<1> QED BY <1>1, SerialIOAssumption DEF InIndex, OutIndex, Index

(* The distance of two indexes.                                            *)
LEMMA Distance ==
  ASSUME NEW M \in Nat \ {0}, NEW w \in Index(M), NEW r \in Index(M)
  PROVE  /\ (w - r) % M = IF w < r THEN w - r + M ELSE w - r
         /\ (w - r) % M \in 0..(M - 1)
<1> DEFINE x == w - r
<1>1. x \in Int /\ -M <= x /\ x < M /\ x < 2 * M /\ x >= -(M - 1)
  BY DEF Index
<1>2. x % M = IF x < 0 THEN x + M ELSE IF x < M THEN x ELSE x - M
  <2> HIDE DEF x
  <2> QED BY <1>1, SmallMod
<1> QED BY <1>1, <1>2 DEF Index

(* The place one further.                                                  *)
LEMMA OneFurther ==
  ASSUME NEW M \in Nat \ {0}, NEW p \in Index(M), NEW k \in 0..M
  PROVE  /\ (p + k) % M = IF p + k < M THEN p + k ELSE p + k - M
         /\ (p + k) % M \in Index(M)
<1> DEFINE x == p + k
<1>1. x \in Int /\ -M <= x /\ x < 2 * M /\ x >= 0
  BY DEF Index
<1>2. x % M = IF x < 0 THEN x + M ELSE IF x < M THEN x ELSE x - M
  <2> HIDE DEF x
  <2> QED BY <1>1, SmallMod
<1> QED BY <1>1, <1>2 DEF Index

LEMMA ReceivedProperties ==
  ASSUME TypeOK
  PROVE  /\ NoReceived = IF pWr < pRd THEN pWr - pRd + InSize ELSE pWr - pRd
         /\ NoReceived \in 0..(InSize - 1)
         /\ Received = Window(inBuf, InSize, pRd, NoReceived)
         /\ Received \in Seq(Characters)
         /\ IsWindow(Received, inBuf, InSize, pRd, NoReceived)
         /\ Len(Received) = NoReceived
         /\ Full <=> NoReceived = InSize - 1
         /\ pRd = pWr <=> NoReceived = 0
<1>1. /\ inBuf \in [Index(InSize) -> Characters]
      /\ pWr \in Index(InSize) /\ pRd \in Index(InSize)
      /\ InSize \in Nat \ {0}
  BY BufferSizes DEF TypeOK, Characters
<1>2. /\ NoReceived = IF pWr < pRd THEN pWr - pRd + InSize ELSE pWr - pRd
      /\ NoReceived \in 0..(InSize - 1)
  BY <1>1, Distance DEF NoReceived
<1>3. Received = Window(inBuf, InSize, pRd, NoReceived)
  BY DEF Received, Window
<1>4. NoReceived \in 0..InSize /\ NoReceived \in Nat
  BY <1>1, <1>2
<1>5. Received \in Seq(Characters)
  BY <1>1, <1>3, <1>4, WindowType
<1>6. IsWindow(Received, inBuf, InSize, pRd, NoReceived)
  BY <1>3, <1>4, WindowElements
<1>7. Len(Received) = NoReceived
  BY <1>6 DEF IsWindow
<1>8. /\ Full <=> NoReceived = InSize - 1
      /\ pRd = pWr <=> NoReceived = 0
  BY <1>1, <1>2 DEF Full, Up, Index
<1> QED BY <1>2, <1>3, <1>5, <1>6, <1>7, <1>8

(* A character that is stored goes to the end of what has been received.   *)
LEMMA StoreAppends ==
  ASSUME TypeOK, ~Full, NEW c \in Char, inBuf' = [inBuf EXCEPT ![pWr] = c], pWr' = Up(pWr), pRd' = pRd
  PROVE  /\ Received' = Append(Received, c)
         /\ inBuf' \in [InIndex -> Char \cup {Blank}] /\ pWr' \in InIndex
<1> DEFINE n == NoReceived
           m == n + 1
           b2 == [inBuf EXCEPT ![pWr] = c]
<1>1. /\ inBuf \in [Index(InSize) -> Characters]
      /\ pWr \in Index(InSize) /\ pRd \in Index(InSize)
      /\ InSize \in Nat \ {0} /\ c \in Characters
  BY BufferSizes DEF TypeOK, Characters
<1>2. /\ n = IF pWr < pRd THEN pWr - pRd + InSize ELSE pWr - pRd
      /\ n \in 0..(InSize - 1)
      /\ n # InSize - 1
      /\ Received = Window(inBuf, InSize, pRd, n)
      /\ Received \in Seq(Characters)
  BY ReceivedProperties
<1> HIDE DEF n
<1>3. n \in 0..InSize /\ m \in 1..InSize /\ m \in 0..InSize /\ 1..n \subseteq 1..InSize
  BY <1>1, <1>2
<1>4. Up(pWr) \in Index(InSize)
  BY <1>1 DEF Up, Index
<1>5. (Up(pWr) - pRd) % InSize = m
  <2>1. (Up(pWr) - pRd) % InSize
          = IF Up(pWr) < pRd THEN Up(pWr) - pRd + InSize ELSE Up(pWr) - pRd
    BY <1>1, <1>4, Distance
  <2> QED BY <1>1, <1>2, <2>1 DEF Up, Index
<1>6. NoReceived' = m
  BY <1>5 DEF NoReceived
<1>7. PlaceAt(InSize, pRd, m) = pWr
  <2>1. PlaceAt(InSize, pRd, m)
          = IF pRd + m - 1 < InSize THEN pRd + m - 1 ELSE pRd + m - 1 - InSize
    BY <1>1, <1>3, PlaceType
  <2> QED BY <1>1, <1>2, <2>1 DEF Index
<1> HIDE DEF m
<1>8. b2 \in [Index(InSize) -> Characters]
  BY <1>1
<1>9. WrittenBehind(b2, inBuf, InSize, pRd, n, m, <<c>>)
  <2>1. \A i \in 1..n : b2[PlaceAt(InSize, pRd, i)] = inBuf[PlaceAt(InSize, pRd, i)]
    <3> TAKE i \in 1..n
    <3>1. i \in 1..InSize /\ i # m
      BY <1>2, <1>3 DEF m
    <3>2. PlaceAt(InSize, pRd, i) # pWr /\ PlaceAt(InSize, pRd, i) \in Index(InSize)
      BY <1>1, <1>3, <1>7, <3>1, PlacesDiffer, PlaceType
    <3> QED BY <1>1, <3>2
  <2>2. b2[PlaceAt(InSize, pRd, m)] = c
    BY <1>1, <1>7
  <2>3. \A i \in (n + 1)..m : i = m /\ <<c>>[i - n] = c
    BY <1>2 DEF m
  <2>4. m = n + Len(<<c>>)
    BY DEF m
  <2> QED BY <2>1, <2>2, <2>3, <2>4 DEF WrittenBehind
<1>10. <<c>> \in Seq(Characters)
  BY <1>1
<1>11. Window(b2, InSize, pRd, m) = Window(inBuf, InSize, pRd, n) \o <<c>>
  <2>1. IsRing(inBuf, InSize, pRd, n, Characters) /\ IsRing(b2, InSize, pRd, m, Characters)
    BY <1>1, <1>3, <1>8 DEF IsRing
  <2> DEFINE one == <<c>>
  <2>2. one \in Seq(Characters) /\ WrittenBehind(b2, inBuf, InSize, pRd, n, m, one)
    BY <1>9, <1>10
  <2> HIDE DEF b2, one
  <2>3. Extends(Window(b2, InSize, pRd, m), Window(inBuf, InSize, pRd, n), one)
    BY <2>1, <2>2, WindowAppend
  <2> QED BY <2>3 DEF one, Extends
<1>12. Received' = Window(b2, InSize, pRd, m)
  <2>1. Received' = Window(inBuf', InSize, pRd', NoReceived')
    BY DEF Received, Window
  <2> QED BY <1>6, <2>1
<1>13. Append(Received, c) = Received \o <<c>>
  BY <1>1, <1>2, AppendIsConcat
<1> QED BY <1>2, <1>4, <1>8, <1>11, <1>12, <1>13, BufferSizes DEF Characters

(* A reader takes characters from the front.                               *)
LEMMA ReadDrops ==
  ASSUME TypeOK, NEW k \in 0..NoReceived, pRd' = (pRd + k) % InSize, inBuf' = inBuf, pWr' = pWr
  PROVE  /\ Received' = SubSeq(Received, k + 1, NoReceived)
         /\ pRd' \in InIndex
<1> DEFINE n == NoReceived
           m == n - k
           q == (pRd + k) % InSize
<1>1. /\ inBuf \in [Index(InSize) -> Characters]
      /\ pWr \in Index(InSize) /\ pRd \in Index(InSize)
      /\ InSize \in Nat \ {0}
  BY BufferSizes DEF TypeOK, Characters
<1>2. /\ n = IF pWr < pRd THEN pWr - pRd + InSize ELSE pWr - pRd
      /\ n \in 0..(InSize - 1)
      /\ Received = Window(inBuf, InSize, pRd, n)
      /\ k \in 0..n
  BY ReceivedProperties
<1> HIDE DEF n
<1>3. n \in 0..InSize /\ m \in 0..InSize /\ k \in 0..InSize
  BY <1>1, <1>2
<1>4. /\ q = IF pRd + k < InSize THEN pRd + k ELSE pRd + k - InSize
      /\ q \in Index(InSize)
  BY <1>1, <1>3, OneFurther
<1>5. q = (pRd + k) % InSize
  OBVIOUS
<1> HIDE DEF q
<1>6. (pWr - q) % InSize = m
  <2>1. (pWr - q) % InSize = IF pWr < q THEN pWr - q + InSize ELSE pWr - q
    BY <1>1, <1>4, Distance
  <2> QED BY <1>1, <1>2, <1>4, <2>1 DEF Index
<1>7. pRd' = q /\ NoReceived' = m
  BY <1>5, <1>6 DEF NoReceived
<1>8. m = n - k
  OBVIOUS
<1> HIDE DEF m
<1>9. Window(inBuf, InSize, q, m) = SubSeq(Window(inBuf, InSize, pRd, n), k + 1, n)
  <2>1. ReadUpTo(q, InSize, pRd, n, m, k)
    BY <1>2, <1>5, <1>8 DEF ReadUpTo
  <2>2. IsRing(inBuf, InSize, pRd, n, Characters) /\ IsRing(inBuf, InSize, q, m, Characters)
    BY <1>1, <1>2, <1>3, <1>4 DEF IsRing
  <2> QED BY <2>1, <2>2, WindowDrop
<1>10. Received' = Window(inBuf', InSize, pRd', NoReceived')
  BY DEF Received, Window
<1>11. Received' = SubSeq(Received, k + 1, n)
  BY <1>2, <1>7, <1>9, <1>10
<1> QED BY <1>4, <1>7, <1>11, BufferSizes DEF n
-----------------------------------------------------------------------------
(* Output *)

Pending == [i \in 1..NoPending |-> outBuf[(saddr + i - 1) % OutSize]]
WriteIndex == idxWr % OutSize

LEMMA WidthType ==
  /\ 2 ^ Width \in Nat \ {0}
  /\ \E k \in Nat \ {0} : 2 ^ Width = k * OutSize
<1> DEFINE k == 2 ^ (Width - OutSizePwr)
           s == OutSize
           w == 2 ^ Width
<1>1. s \in Nat \ {0} /\ k \in Nat \ {0} /\ w = k * s
  BY WidthAssumption
<1> HIDE DEF k, s, w
<1>2. k * s \in Nat \ {0}
  BY <1>1
<1> QED BY <1>1, <1>2 DEF s, w

LEMMA WriteIndexSuffices ==
  ASSUME idxWr \in Nat, NEW a \in Int
  PROVE  (idxWr - a) % OutSize = (WriteIndex - a) % OutSize
<1> DEFINE y == -a
<1>1. OutSize \in Nat \ {0}
  BY BufferSizes
<1>2. WriteIndex \in Int
  BY <1>1, DivMod DEF WriteIndex
<1>3. y \in Int /\ idxWr - a = idxWr + y /\ WriteIndex - a = WriteIndex + y
  BY <1>2
<1> HIDE DEF y
<1>4. (idxWr + y) % OutSize = (WriteIndex + y) % OutSize
  <2>1. \A u, v \in Int : (u + v) % OutSize = ((u % OutSize) + v) % OutSize
    BY <1>1, ModOfMod
  <2>2. idxWr \in Int /\ y \in Int
    BY <1>3
  <2>3. (idxWr + y) % OutSize = ((idxWr % OutSize) + y) % OutSize
    BY <2>1, <2>2, Zenon
  <2> QED BY <2>3 DEF WriteIndex
<1> QED BY <1>3, <1>4

(* How far the write index is ahead of a place in the buffer.              *)
Ahead(a) == (idxWr - a) % OutSize

LEMMA AheadProperties ==
  ASSUME TypeOK, NEW a \in OutIndex
  PROVE  /\ WriteIndex \in Index(OutSize) /\ a \in Index(OutSize) /\ a \in Int
         /\ Ahead(a) = IF WriteIndex < a THEN WriteIndex - a + OutSize ELSE WriteIndex - a
         /\ Ahead(a) \in 0..(OutSize - 1)
         /\ \E d \in Int : idxWr - a = d * OutSize + Ahead(a)
         /\ idxWr \in Nat
<1>1. OutSize \in Nat \ {0} /\ a \in Index(OutSize)
  BY BufferSizes
<1>2. idxWr \in Nat
  BY WidthType DEF TypeOK
<1>3. WriteIndex \in Index(OutSize)
  BY <1>1, <1>2, DivMod DEF WriteIndex, Index
<1>4. a \in Int /\ WriteIndex \in Int
  BY <1>1, <1>3 DEF Index
<1>5. Ahead(a) = (WriteIndex - a) % OutSize
  BY <1>2, <1>4, WriteIndexSuffices DEF Ahead
<1>6. /\ Ahead(a) = IF WriteIndex < a THEN WriteIndex - a + OutSize ELSE WriteIndex - a
      /\ Ahead(a) \in 0..(OutSize - 1)
  BY <1>1, <1>3, <1>5, Distance
<1>7. \E d \in Int : idxWr - a = d * OutSize + Ahead(a)
  <2> DEFINE x == idxWr - a
  <2>1. x \in Int
    BY <1>2, <1>4
  <2> HIDE DEF x
  <2>2. x \div OutSize \in Int /\ x = (x \div OutSize) * OutSize + (x % OutSize)
    BY <1>1, <2>1, DivMod
  <2> QED BY <2>2 DEF x, Ahead
<1> QED BY <1>1, <1>2, <1>3, <1>4, <1>6, <1>7

LEMMA PendingProperties ==
  ASSUME TypeOK
  PROVE  /\ WriteIndex \in Index(OutSize)
         /\ NoPending = Ahead(saddr)
         /\ NoPending = IF WriteIndex < saddr THEN WriteIndex - saddr + OutSize
                        ELSE WriteIndex - saddr
         /\ NoPending \in 0..(OutSize - 1)
         /\ Pending = Window(outBuf, OutSize, saddr, NoPending)
         /\ Pending \in Seq(Characters)
         /\ IsWindow(Pending, outBuf, OutSize, saddr, NoPending)
<1>1. /\ outBuf \in [Index(OutSize) -> Characters]
      /\ saddr \in Index(OutSize) /\ saddr \in OutIndex
      /\ OutSize \in Nat \ {0}
  BY BufferSizes DEF TypeOK, Characters
<1>2. NoPending = Ahead(saddr)
  BY DEF NoPending, Ahead
<1>3. /\ WriteIndex \in Index(OutSize)
      /\ NoPending = IF WriteIndex < saddr THEN WriteIndex - saddr + OutSize
                     ELSE WriteIndex - saddr
      /\ NoPending \in 0..(OutSize - 1)
  BY <1>1, <1>2, AheadProperties
<1>4. NoPending \in 0..OutSize /\ NoPending \in Nat
  BY <1>1, <1>3
<1>5. Pending = Window(outBuf, OutSize, saddr, NoPending)
  BY DEF Pending, Window
<1>6. Pending \in Seq(Characters)
  BY <1>1, <1>4, <1>5, WindowType
<1>7. IsWindow(Pending, outBuf, OutSize, saddr, NoPending)
  BY <1>4, <1>5, WindowElements
<1> QED BY <1>2, <1>3, <1>5, <1>6, <1>7

(* How much room there is, and how much of it in front of the end.         *)
LEMMA RoomIs ==
  ASSUME TypeOK
  PROVE  /\ NoBytesFree = OutSize - 1 - Ahead(idxEnd)
         /\ NoBytesTillEnd = IF WriteIndex = 0 THEN 0 ELSE OutSize - WriteIndex
<1> DEFINE M == OutSize
           p == Ahead(idxEnd)
           w == WriteIndex
<1>1. M \in Nat \ {0} /\ p \in 0..(M - 1) /\ w \in 0..(M - 1) /\ idxWr \in Nat /\ idxEnd \in Int
  BY BufferSizes, AheadProperties DEF TypeOK, Index
<1>2. PICK d \in Int : idxWr - idxEnd = d * M + p
  BY AheadProperties DEF TypeOK
<1>3. PICK e \in Int : idxWr = e * M + w
  <2>1. idxWr \div M \in Int /\ idxWr = (idxWr \div M) * M + (idxWr % M)
    BY <1>1, DivMod
  <2> QED BY <2>1 DEF WriteIndex
<1>4. NoBytesFree = M - 1 - p
  <2> DEFINE x == idxEnd - idxWr - 1
             r == M - 1 - p
             k == -d - 1
             u == d * M
  <2>1. k * M = -(d * M) - M /\ k \in Int
    BY <1>1
  <2>2. u \in Int /\ idxWr - idxEnd = u + p /\ k * M = -u - M
    BY <1>1, <1>2, <2>1
  <2> HIDE DEF M, p, w
  <2>3. x \in Int /\ r \in 0..(M - 1)
    BY <1>1
  <2> DEFINE v == k * M
  <2>4. v = -u - M
    BY <2>2
  <2>5. x = v + r
    <3> HIDE DEF u, v
    <3> QED BY <1>1, <2>2, <2>4
  <2>6. x = k * M + r
    BY <2>5
  <2> HIDE DEF x, r, k
  <2>7. x % M = r
    BY <1>1, <2>1, <2>3, <2>6, ModIs
  <2> QED BY <2>7 DEF NoBytesFree, x, r, M
<1>5. NoBytesTillEnd = IF w = 0 THEN 0 ELSE M - w
  <2> DEFINE x == -idxWr
             r == IF w = 0 THEN 0 ELSE M - w
             k == IF w = 0 THEN -e ELSE -e - 1
             u == e * M
  <2>1. (-e) * M = -(e * M) /\ (-e - 1) * M = -(e * M) - M
    BY <1>1
  <2>2. u \in Int /\ idxWr = u + w /\ (-e) * M = -u /\ (-e - 1) * M = -u - M
    BY <1>1, <1>3, <2>1
  <2>3. k \in Int
    OBVIOUS
  <2> DEFINE v == k * M
  <2>4. v = IF w = 0 THEN -u ELSE -u - M
    BY <2>2
  <2> HIDE DEF M, p, w
  <2>5. x \in Int /\ r \in 0..(M - 1)
    BY <1>1
  <2>6. x = v + r
    <3> HIDE DEF u, v
    <3> QED BY <1>1, <2>2, <2>4
  <2>7. x = k * M + r
    BY <2>6
  <2> HIDE DEF x, r, k
  <2>8. x % M = r
    BY <1>1, <2>3, <2>5, <2>7, ModIs
  <2> QED BY <2>8 DEF NoBytesTillEnd, x, r, M
<1> QED BY <1>4, <1>5
-----------------------------------------------------------------------------
(* What the DMA is stopped for: the copied characters lie behind those that*)
(* have not been transferred when its address is read, and none of these is*)
(* overwritten.                                                            *)
LEMMA CopyAppends ==
  ASSUME TypeOK, NEW n \in 0..Len(msg), n <= NoBytesFree, NEW m, m = Ahead(idxEnd) + n
  PROVE  /\ Copied(n) \in [OutIndex -> Char \cup {Blank}]
         /\ WrittenBehind(Copied(n), outBuf, OutSize, idxEnd, Ahead(idxEnd), m, SubSeq(msg, 1, n))
<1> DEFINE M == OutSize
           p == Ahead(idxEnd)
           w == WriteIndex
           T == AtEnd(n)
           b2 == Copied(n)
<1>1. /\ M \in Nat \ {0} /\ w \in Index(M) /\ idxEnd \in Index(M) /\ p \in 0..(M - 1)
      /\ p = IF w < idxEnd THEN w - idxEnd + M ELSE w - idxEnd
      /\ outBuf \in [Index(M) -> Characters]
  BY BufferSizes, AheadProperties DEF TypeOK, Characters
<1>2. n \in Nat /\ n <= M - 1 - p /\ m \in 0..M /\ n < M
  <2>1. n <= M - 1 - p
    BY RoomIs
  <2>2. n \in Nat
    BY LenProperties DEF TypeOK
  <2> HIDE DEF M, p
  <2> QED BY <1>1, <2>1, <2>2 DEF p
<1>3. T = IF w = 0 THEN 0 ELSE IF n < M - w THEN n ELSE M - w
  <2>1. NoBytesTillEnd = IF w = 0 THEN 0 ELSE M - w
    BY RoomIs
  <2>2. T = IF n < NoBytesTillEnd THEN n ELSE NoBytesTillEnd
    BY DEF AtEnd, Shorter
  <2> HIDE DEF M, w, T
  <2> QED BY <1>1, <1>2, <2>1, <2>2 DEF Index
<1>4. b2 = [i \in Index(M) |-> IF i \in w..(w + T - 1) THEN msg[i - w + 1]
                               ELSE IF i < n - T THEN msg[i + T + 1] ELSE outBuf[i]]
  BY BufferSizes DEF Copied, WriteIndex
<1>5. \A i \in 1..n : msg[i] \in Characters
  <2> TAKE i \in 1..n
  <2>1. i \in 1..Len(msg)
    BY <1>2, LenProperties DEF TypeOK
  <2> QED BY <2>1, ElementOfSeq DEF TypeOK, Characters
<1> HIDE DEF M, p, w, T, b2
<1>6. ASSUME NEW i \in Index(M)
      PROVE  \/ i \in w..(w + T - 1) /\ i - w + 1 \in 1..n /\ PlaceAt(M, w, i - w + 1) = i
             \/ ~(i \in w..(w + T - 1)) /\ i < n - T /\ i + T + 1 \in 1..n
                  /\ PlaceAt(M, w, i + T + 1) = i
             \/ ~(i \in w..(w + T - 1)) /\ ~(i < n - T)
  <2>1. i \in 0..(M - 1) /\ w \in 0..(M - 1)
    BY <1>1, <1>6 DEF Index
  <2>2. CASE i \in w..(w + T - 1)
    <3> DEFINE j == i - w + 1
    <3>1. j \in 1..n /\ j \in 1..M
      BY <1>1, <1>2, <1>3, <2>1, <2>2
    <3>2. w + j - 1 = i
      BY <2>1
    <3> HIDE DEF j
    <3>3. PlaceAt(M, w, j) = IF w + j - 1 < M THEN w + j - 1 ELSE w + j - 1 - M
      BY <1>1, <3>1, PlaceType
    <3>4. PlaceAt(M, w, j) = i
      BY <1>1, <2>1, <3>2, <3>3
    <3> QED BY <2>2, <3>1, <3>4 DEF j
  <2>3. CASE ~(i \in w..(w + T - 1)) /\ i < n - T
    <3> DEFINE j == i + T + 1
    <3>1. j \in 1..n /\ j \in 1..M
      BY <1>1, <1>2, <1>3, <2>1, <2>3
    <3>2. IF w + j - 1 < M THEN i = w + j - 1 ELSE i = w + j - 1 - M
      BY <1>1, <1>2, <1>3, <2>1, <2>3
    <3> HIDE DEF j
    <3>3. PlaceAt(M, w, j) = IF w + j - 1 < M THEN w + j - 1 ELSE w + j - 1 - M
      BY <1>1, <3>1, PlaceType
    <3>4. PlaceAt(M, w, j) = i
      BY <3>2, <3>3
    <3> QED BY <2>3, <3>1, <3>4 DEF j
  <2> QED BY <2>2, <2>3
<1>7. b2 \in [Index(M) -> Characters]
  <2>1. ASSUME NEW i \in Index(M)
        PROVE  (IF i \in w..(w + T - 1) THEN msg[i - w + 1]
                ELSE IF i < n - T THEN msg[i + T + 1] ELSE outBuf[i]) \in Characters
    <3>1. outBuf[i] \in Characters
      BY <1>1, <2>1
    <3> QED BY <1>5, <1>6, <2>1, <3>1
  <2> QED BY <1>4, <2>1
(* The place of a copied character.                                        *)
<1>8. ASSUME NEW j \in 1..n
      PROVE  /\ PlaceAt(M, w, j) \in Index(M)
             /\ b2[PlaceAt(M, w, j)] = msg[j]
  <2> DEFINE i == PlaceAt(M, w, j)
  <2>1. j \in 1..M /\ w \in 0..(M - 1)
    BY <1>1, <1>2, <1>8 DEF Index
  <2>2. i = (IF w + j - 1 < M THEN w + j - 1 ELSE w + j - 1 - M) /\ i \in Index(M)
    BY <1>1, <2>1, PlaceType
  <2> HIDE DEF i
  <2>3. b2[i] = IF i \in w..(w + T - 1) THEN msg[i - w + 1]
                ELSE IF i < n - T THEN msg[i + T + 1] ELSE outBuf[i]
    BY <1>4, <2>2
  <2>4. i \in 0..(M - 1)
    BY <2>2 DEF Index
  <2>5. CASE j <= T
    <3>1. i \in w..(w + T - 1) /\ i - w + 1 = j
      BY <1>1, <1>2, <1>3, <1>8, <2>1, <2>2, <2>5
    <3> QED BY <2>2, <2>3, <3>1 DEF i
  <2>6. CASE ~(j <= T)
    <3>1. ~(i \in w..(w + T - 1)) /\ i < n - T /\ i + T + 1 = j
      BY <1>1, <1>2, <1>3, <1>8, <2>1, <2>2, <2>4, <2>6
    <3> QED BY <2>2, <2>3, <3>1 DEF i
  <2> QED BY <2>5, <2>6
(* It is behind the characters that are pending.                           *)
<1>9. ASSUME NEW j \in 1..n, NEW k, k = p + j
      PROVE  k \in 1..M /\ PlaceAt(M, w, j) = PlaceAt(M, idxEnd, k)
  <2>1. /\ j \in 1..M /\ k \in 1..M
        /\ w \in 0..(M - 1) /\ idxEnd \in 0..(M - 1)
    BY <1>1, <1>2, <1>9 DEF Index
  <2>2. PlaceAt(M, w, j) = IF w + j - 1 < M THEN w + j - 1 ELSE w + j - 1 - M
    BY <1>1, <2>1, PlaceType
  <2>3. PlaceAt(M, idxEnd, k) = IF idxEnd + k - 1 < M THEN idxEnd + k - 1 ELSE idxEnd + k - 1 - M
    BY <1>1, <2>1, PlaceType
  <2> QED BY <1>1, <1>2, <1>9, <2>1, <2>2, <2>3
<1>10. ASSUME NEW i \in 1..p
       PROVE  b2[PlaceAt(M, idxEnd, i)] = outBuf[PlaceAt(M, idxEnd, i)]
  <2> DEFINE x == PlaceAt(M, idxEnd, i)
  <2>1. i \in 1..M
    BY <1>1, <1>10
  <2>2. x \in Index(M)
    BY <1>1, <2>1, PlaceType
  <2>3. ASSUME NEW j \in 1..n PROVE PlaceAt(M, w, j) # x
    <3> DEFINE k == p + j
    <3>1. k = p + j /\ k # i
      BY <1>1, <1>2, <1>10, <2>3
    <3> HIDE DEF k
    <3>2. k \in 1..M /\ PlaceAt(M, w, j) = PlaceAt(M, idxEnd, k)
      BY <1>9, <2>3, <3>1
    <3> QED BY <1>1, <2>1, <3>1, <3>2, PlacesDiffer
  <2> HIDE DEF x
  <2>4. ~(x \in w..(w + T - 1)) /\ ~(x < n - T)
    BY <1>6, <2>2, <2>3
  <2>5. b2[x] = outBuf[x]
    BY <1>4, <2>2, <2>4
  <2> QED BY <2>5 DEF x
<1>11. ASSUME NEW i \in (p + 1)..m
       PROVE  i - p \in 1..n /\ b2[PlaceAt(M, idxEnd, i)] = msg[i - p]
  <2> DEFINE j == i - p
  <2>1. j \in 1..n /\ i = p + j
    BY <1>1, <1>2, <1>11 DEF p
  <2> HIDE DEF j
  <2>2. PlaceAt(M, w, j) = PlaceAt(M, idxEnd, i)
    BY <1>9, <2>1
  <2> QED BY <1>8, <2>1, <2>2 DEF j
<1>12. Len(SubSeq(msg, 1, n)) = n /\ \A i \in 1..n : SubSeq(msg, 1, n)[i] = msg[i]
  <2>1. \A i \in 1..n : msg[i] \in Characters
    BY <1>5
  <2>2. /\ Len(SubSeq(msg, 1, n)) = IF 1 <= n THEN n - 1 + 1 ELSE 0
        /\ \A i \in 1..(n - 1 + 1) : SubSeq(msg, 1, n)[i] = msg[1 + i - 1]
    BY <1>2, <2>1, SubSeqProperties
  <2>3. n - 1 + 1 = n /\ (IF 1 <= n THEN n - 1 + 1 ELSE 0) = n
    BY <1>2
  <2>4. \A i \in 1..n : 1 + i - 1 = i
    BY <1>2
  <2> QED BY <2>2, <2>3, <2>4
<1>13. WrittenBehind(b2, outBuf, M, idxEnd, p, m, SubSeq(msg, 1, n))
  <2>1. m = p + Len(SubSeq(msg, 1, n))
    BY <1>12 DEF p
  <2>2. \A i \in (p + 1)..m : b2[PlaceAt(M, idxEnd, i)] = SubSeq(msg, 1, n)[i - p]
    BY <1>11, <1>12
  <2> QED BY <1>10, <2>1, <2>2 DEF WrittenBehind
<1> QED BY <1>7, <1>13, BufferSizes DEF Characters, M, p, b2
-----------------------------------------------------------------------------
Accepted == Shorter(Len(msg), NoBytesFree)

(* The second half of sio_osWriteSerial (sio_serialIO.c:737), wherever the *)
(* DMA has been found.                                                     *)
LEMMA AppendEffect ==
  ASSUME TypeOK, DmaAlways, AppendMessage
  PROVE  /\ Accepted \in 0..Len(msg)
         /\ Accepted = Shorter(Len(msg), OutSize - 1 - Ahead(idxEnd))
         /\ outBuf' \in [OutIndex -> Char \cup {Blank}] /\ idxWr' \in 0..(2 ^ Width - 1)
         /\ WrittenBehind(outBuf', outBuf, OutSize, idxEnd, Ahead(idxEnd), citer',
                          SubSeq(msg, 1, Accepted))
         /\ citer' = (idxWr' - idxEnd) % OutSize
         /\ citer' \in OutIndex /\ citer' > 0
<1> DEFINE M == OutSize
           W == 2 ^ Width
           p == Ahead(idxEnd)
           n == Accepted
           m == p + n
           new == SubSeq(msg, 1, n)
<1>1. msg # <<>> /\ msg \in Seq(Char) /\ Len(msg) \in Nat \ {0}
  BY EmptySeq, LenProperties DEF AppendMessage, DmaAlways, TypeOK
<1>2. /\ M \in Nat \ {0, 1} /\ p \in 0..(M - 1) /\ idxEnd \in Index(M) /\ idxWr \in Nat
      /\ outBuf \in [Index(M) -> Characters] /\ idxEnd \in Int
      /\ W \in Nat \ {0}
  BY BufferSizes, AheadProperties, WidthType DEF TypeOK, Characters, Index
<1>3. NoBytesFree = M - 1 - p
  BY RoomIs
<1>4. n = Shorter(Len(msg), M - 1 - p)
  BY <1>3 DEF Accepted
<1>5. n \in 0..Len(msg) /\ n <= NoBytesFree /\ m \in 1..(M - 1)
  <2> HIDE DEF M, p, n
  <2> QED BY <1>1, <1>2, <1>3, <1>4 DEF Shorter, p
<1>6. outBuf' = Copied(n) /\ idxWr' = (idxWr + n) % W /\ citer' = (idxWr + n - idxEnd) % M
  BY DEF AppendMessage, AppendChars, Accepted
<1>7. /\ Copied(n) \in [OutIndex -> Char \cup {Blank}]
      /\ WrittenBehind(Copied(n), outBuf, M, idxEnd, p, m, new)
  <2> HIDE DEF n
  <2> QED BY <1>1, <1>5, CopyAppends
<1> HIDE DEF M, W, p, n
<1>8. PICK d \in Int : idxWr - idxEnd = d * M + p
  BY AheadProperties DEF TypeOK, M, p
<1>9. (idxWr + n - idxEnd) % M = m
  <2> DEFINE x == idxWr + n - idxEnd
             u == d * M
  <2>1. u \in Int /\ idxWr - idxEnd = u + p
    BY <1>2, <1>8
  <2>2. x \in Int /\ x = u + m
    <3> HIDE DEF u
    <3> QED BY <1>1, <1>2, <1>5, <2>1
  <2>3. x = d * M + m
    BY <2>2
  <2> HIDE DEF x
  <2> DEFINE r == m
  <2>4. r \in 0..(M - 1) /\ x = d * M + r
    BY <1>5, <2>3
  <2> HIDE DEF r
  <2>5. x % M = r
    BY <1>2, <2>2, <2>4, ModIs
  <2> QED BY <2>5 DEF x, r
<1>10. citer' = m
  BY <1>1, <1>6, <1>9
<1>11. idxWr' \in 0..(W - 1)
  <2> DEFINE x == idxWr + n
  <2>1. x \in Int
    BY <1>1, <1>2, <1>5
  <2> HIDE DEF x
  <2>2. x % W \in 0..(W - 1)
    BY <1>2, <2>1, DivMod
  <2> QED BY <1>6, <2>2 DEF x
(* The write index wraps around at a multiple of the buffer's size.        *)
<1>12. (idxWr' - idxEnd) % M = m
  <2> DEFINE x == idxWr + n
             y == x % W
             a == x - idxEnd
             b == y - idxEnd
  <2>0. a % M = m
    <3> DEFINE z == idxWr + n - idxEnd
    <3>1. a = z
      BY <1>1, <1>2, <1>5
    <3>2. z % M = m
      BY <1>9
    <3> HIDE DEF a, z
    <3> QED BY <3>1, <3>2
  <2>1. x \in Int
    BY <1>1, <1>2, <1>5
  <2>2. PICK k \in Nat \ {0} : W = k * M
    BY WidthType DEF W, M
  <2> HIDE DEF x
  <2>3. y \in Int /\ x \div W \in Int /\ x = (x \div W) * W + y
    BY <1>2, <2>1, DivMod
  <2> HIDE DEF y
  <2> DEFINE e == (x \div W) * k
             f == x \div W
  <2>4. e \in Int /\ f * W = e * M
    <3>1. f \in Int
      BY <2>3
    <3> HIDE DEF f
    <3>2. f * (k * M) = (f * k) * M /\ f * k \in Int
      BY <1>2, <2>2, <3>1
    <3> QED BY <2>2, <3>2 DEF f
  <2>5. x = e * M + y
    BY <2>3, <2>4
  <2> HIDE DEF e, f
  <2> DEFINE v == e * M
  <2>6. v \in Int /\ x = v + y
    BY <1>2, <2>4, <2>5
  <2>7. a = b + v
    <3> HIDE DEF v
    <3> QED BY <1>2, <2>1, <2>3, <2>6
  <2>8. a \in Int /\ b \in Int /\ a = b + e * M
    BY <1>2, <2>1, <2>3, <2>7
  <2> HIDE DEF a, b
  <2>10. a % M = b % M
    BY <1>2, <2>4, <2>8, SameMod
  <2> QED BY <1>6, <2>0, <2>10 DEF a, b, x, y
<1>13. m \in OutIndex /\ m > 0
  BY <1>5 DEF OutIndex, M
<1> QED BY <1>4, <1>5, <1>6, <1>7, <1>10, <1>11, <1>12, <1>13 DEF M, W, p, n

(* What it appends to the pending characters if the DMA has stayed there.  *)
LEMMA WriteEffect ==
  ASSUME TypeOK, DmaAlways, AppendMessage, idxEnd = saddr
  PROVE  /\ Accepted = Shorter(Len(msg), OutSize - 1 - NoPending)
         /\ Extends(Pending', Pending, SubSeq(msg, 1, Accepted))
         /\ citer' = NoPending'
<1> DEFINE M == OutSize
           p == NoPending
           n == Accepted
           m == NoPending'
           new == SubSeq(msg, 1, n)
<1>1. NoPending = Ahead(idxEnd) /\ p \in 0..(M - 1)
  BY PendingProperties
<1>2. /\ n \in 0..Len(msg)
      /\ n = Shorter(Len(msg), OutSize - 1 - NoPending)
      /\ outBuf' \in [OutIndex -> Char \cup {Blank}]
      /\ WrittenBehind(outBuf', outBuf, M, saddr, p, citer', new)
      /\ citer' = (idxWr' - saddr) % M /\ citer' \in OutIndex
  BY <1>1, AppendEffect
<1>3. saddr' = saddr
  BY DEF AppendMessage
<1>4. citer' = m
  BY <1>2, <1>3 DEF NoPending
<1>5. /\ M \in Nat \ {0, 1} /\ saddr \in Index(M) /\ m \in 0..(M - 1)
      /\ outBuf \in [Index(M) -> Characters] /\ outBuf' \in [Index(M) -> Characters]
  BY <1>2, <1>4, BufferSizes DEF TypeOK, Characters, Index
<1>6. new \in Seq(Characters)
  <2>1. \A i \in 1..n : msg[i] \in Characters
    <3> TAKE i \in 1..n
    <3>1. i \in 1..Len(msg)
      BY <1>2, LenProperties DEF TypeOK
    <3> QED BY <3>1, ElementOfSeq DEF TypeOK, Characters
  <2>2. n \in Int
    BY <1>2, LenProperties DEF TypeOK
  <2> QED BY <2>1, <2>2, SubSeqProperties
<1>7. WrittenBehind(outBuf', outBuf, M, saddr, p, m, new)
  BY <1>2, <1>4
<1> HIDE DEF M, p, n, m, new
<1>8. IsRing(outBuf, M, saddr, p, Characters) /\ IsRing(outBuf', M, saddr, m, Characters)
  <2>1. p \in 0..M /\ m \in 0..M
    BY <1>1, <1>5
  <2> QED BY <1>5, <2>1 DEF IsRing
<1>9. Extends(Window(outBuf', M, saddr, m), Window(outBuf, M, saddr, p), new)
  BY <1>6, <1>7, <1>8, WindowAppend
<1>10. Pending' = Window(outBuf', OutSize, saddr', NoPending')
  BY DEF Pending, Window
<1>11. Pending = Window(outBuf, OutSize, saddr, NoPending)
  BY PendingProperties
<1> QED BY <1>2, <1>3, <1>4, <1>9, <1>10, <1>11 DEF M, p, n, m, new

(* The DMA transfers a byte.                                               *)
LEMMA TransferEffect ==
  ASSUME TypeOK, NoPending > 0, Transfer
  PROVE  /\ Pending' = SubSeq(Pending, 2, NoPending)
         /\ NoPending' = NoPending - 1
<1> DEFINE M == OutSize
           p == NoPending
           w == WriteIndex
           m == p - 1
           q == (saddr + 1) % M
           k == 1
<1>1. /\ M \in Nat \ {0} /\ w \in Index(M) /\ saddr \in Index(M) /\ p \in 0..(M - 1)
      /\ p = IF w < saddr THEN w - saddr + M ELSE w - saddr
      /\ outBuf \in [Index(M) -> Characters]
      /\ Pending = Window(outBuf, M, saddr, p)
  BY BufferSizes, PendingProperties DEF TypeOK, Characters
<1>2. p > 0
  OBVIOUS
<1>3. saddr' = q /\ outBuf' = outBuf /\ idxWr' = idxWr
  BY DEF Transfer, writer
<1> HIDE DEF M, p, w
<1>4. m \in 0..M /\ k \in 0..M /\ k \in 0..p /\ p \in 0..M /\ p \in Int
  BY <1>1, <1>2
<1>5. /\ (saddr + k) % M = IF saddr + k < M THEN saddr + k ELSE saddr + k - M
      /\ (saddr + k) % M \in Index(M)
  <2> HIDE DEF k
  <2> QED BY <1>1, <1>4, OneFurther
<1>6. q = (IF saddr + 1 < M THEN saddr + 1 ELSE saddr + 1 - M) /\ q \in Index(M)
  BY <1>5
<1>7. ReadUpTo(q, M, saddr, p, m, k)
  BY <1>4 DEF ReadUpTo
<1> HIDE DEF q
<1>8. (w - q) % M = m
  <2>1. (w - q) % M = IF w < q THEN w - q + M ELSE w - q
    BY <1>1, <1>6, Distance
  <2> QED BY <1>1, <1>2, <1>6, <2>1 DEF Index
<1>9. NoPending' = (w - q) % M
  <2>1. idxWr \in Nat /\ q \in Int
    BY <1>6, WidthType DEF TypeOK, Index
  <2>2. (idxWr - q) % OutSize = (WriteIndex - q) % OutSize
    BY <2>1, WriteIndexSuffices
  <2> QED BY <1>3, <2>2 DEF NoPending, M, w
<1>10. IsRing(outBuf, M, saddr, p, Characters) /\ IsRing(outBuf, M, q, m, Characters)
  <2> HIDE DEF m
  <2> QED BY <1>1, <1>4, <1>6 DEF IsRing
<1>11. Window(outBuf, M, q, m) = SubSeq(Window(outBuf, M, saddr, p), k + 1, p)
  <2> HIDE DEF m, k
  <2> QED BY <1>7, <1>10, WindowDrop
<1>12. Pending' = Window(outBuf', OutSize, saddr', NoPending')
  BY DEF Pending, Window
<1>13. Pending' = SubSeq(Pending, k + 1, p)
  BY <1>1, <1>3, <1>8, <1>9, <1>11, <1>12 DEF M
<1>14. k + 1 = 2
  OBVIOUS
<1> QED BY <1>8, <1>9, <1>13, <1>14 DEF p
-----------------------------------------------------------------------------
(* The steps of the readers *)

LEMMA CharEffect ==
  ASSUME TypeOK, GetChar, pRd # pWr
  PROVE  /\ NoReceived \in 1..(InSize - 1)
         /\ Received[1] = inBuf[pRd]
         /\ Received' = SubSeq(Received, 2, NoReceived)
         /\ pRd' \in InIndex
<1> DEFINE n == NoReceived
           k == 1
<1>1. /\ n \in 0..(InSize - 1) /\ n # 0
      /\ IsWindow(Received, inBuf, InSize, pRd, n)
      /\ InSize \in Nat \ {0} /\ pRd \in Index(InSize)
  BY BufferSizes, ReceivedProperties DEF TypeOK
<1> HIDE DEF n
<1>2. n \in 1..(InSize - 1) /\ k \in 0..n /\ k \in 0..InSize /\ k \in 1..InSize /\ k \in 1..n
  BY <1>1
<1>3. Received[k] = inBuf[pRd]
  <2>1. Received[k] = inBuf[PlaceAt(InSize, pRd, k)]
    <3> HIDE DEF k
    <3> QED BY <1>1, <1>2 DEF IsWindow
  <2>2. PlaceAt(InSize, pRd, k)
          = IF pRd + k - 1 < InSize THEN pRd + k - 1 ELSE pRd + k - 1 - InSize
    <3> HIDE DEF k
    <3> QED BY <1>1, <1>2, PlaceType
  <2>3. PlaceAt(InSize, pRd, k) = pRd
    BY <1>1, <2>2 DEF Index
  <2> QED BY <2>1, <2>3
<1>4. (pRd + k) % InSize = IF pRd + k < InSize THEN pRd + k ELSE pRd + k - InSize
  <2> HIDE DEF k
  <2> QED BY <1>1, <1>2, OneFurther
<1>5. Up(pRd) = (pRd + k) % InSize
  BY <1>1, <1>2, <1>4 DEF Up, Index
<1>6. pRd' = (pRd + k) % InSize /\ inBuf' = inBuf /\ pWr' = pWr
  BY <1>5 DEF GetChar
<1>7. Received' = SubSeq(Received, k + 1, n) /\ pRd' \in InIndex
  <2> HIDE DEF k
  <2> QED BY <1>2, <1>6, ReadDrops DEF n
<1>8. k + 1 = 2
  OBVIOUS
<1> QED BY <1>2, <1>3, <1>7, <1>8 DEF n

LEMMA LineEffect ==
  ASSUME TypeOK, EolsInv, NEW size, GetLine(size), noEOL > 0
  PROVE  /\ Eols(Received) # {}
         /\ FirstEol(Received) \in 1..NoReceived
         /\ Received' = SubSeq(Received, FirstEol(Received) + 1, NoReceived)
         /\ pRd' \in InIndex
         /\ noEOL' = noEOL - 1
         /\ last' = Returned("line", Line(FirstEol(Received) - 1, size - 1), 0)
<1> DEFINE n == NoReceived
           k == FirstEol(Received)
<1>1. Received \in Seq(Characters) /\ Len(Received) = n
  BY ReceivedProperties
<1>2. Eols(Received) # {}
  BY <1>1, EolsFinite DEF EolsInv
<1>3. k \in 1..n
  BY <1>1, <1>2, FirstEolProperties
<1>4. n \in Nat /\ pRd \in Int
  BY BufferSizes, ReceivedProperties DEF TypeOK, Index
<1>5. /\ pRd' = (pRd + (k - 1) + 1) % InSize /\ inBuf' = inBuf /\ pWr' = pWr
      /\ noEOL' = noEOL - 1
      /\ last' = Returned("line", Line(k - 1, size - 1), 0)
  BY DEF GetLine, FirstEol
<1> HIDE DEF n, k
<1>6. k \in Int /\ k \in 0..n /\ pRd + (k - 1) + 1 = pRd + k
  BY <1>3, <1>4
<1>7. pRd' = (pRd + k) % InSize
  BY <1>5, <1>6
<1>8. Received' = SubSeq(Received, k + 1, n) /\ pRd' \in InIndex
  BY <1>5, <1>6, <1>7, ReadDrops DEF n
<1> QED BY <1>2, <1>3, <1>5, <1>8 DEF n, k

LEMMA FullEffect ==
  ASSUME TypeOK, pRd' = pWr, pWr' = pWr, inBuf' = inBuf
  PROVE  /\ Received' = SubSeq(Received, NoReceived + 1, NoReceived)
         /\ Received' = <<>>
<1> DEFINE n == NoReceived
<1>1. /\ n \in 0..(InSize - 1) /\ n = IF pWr < pRd THEN pWr - pRd + InSize ELSE pWr - pRd
      /\ InSize \in Nat \ {0} /\ pRd \in Index(InSize) /\ pWr \in Index(InSize)
  BY BufferSizes, ReceivedProperties DEF TypeOK
<1> HIDE DEF n
<1>2. n \in 0..InSize /\ n \in 0..n /\ n \in Int /\ n + 1 \in Int /\ n < n + 1
  BY <1>1
<1>3. (pRd + n) % InSize = IF pRd + n < InSize THEN pRd + n ELSE pRd + n - InSize
  BY <1>1, <1>2, OneFurther
<1>4. pRd' = (pRd + n) % InSize
  BY <1>1, <1>3 DEF Index
<1>5. Received' = SubSeq(Received, n + 1, n)
  BY <1>2, <1>4, ReadDrops DEF n
<1>6. SubSeq(Received, n + 1, n) = <<>>
  BY <1>2, SubSeqEmpty
<1> QED BY <1>5, <1>6 DEF n

-----------------------------------------------------------------------------
(* The inductive invariant is one *)

InTypes ==
  /\ inBuf \in [InIndex -> Char \cup {Blank}]
  /\ pWr \in InIndex /\ pRd \in InIndex
  /\ noEOL \in 0..(InSize - 1)
  /\ lostIn \in 0..(Wrap - 1)
OutTypes ==
  /\ outBuf \in [OutIndex -> Char \cup {Blank}]
  /\ idxWr \in 0..(2 ^ Width - 1)
  /\ pc \in {"idle", "poll", "clear", "read", "append", "start"} /\ msg \in Seq(Char)
  /\ idxEnd \in OutIndex /\ saddr \in OutIndex /\ citer \in OutIndex /\ biter \in OutIndex
  /\ erq \in BOOLEAN /\ hrs \in BOOLEAN
  /\ slip \in {"none", "request", "taken"}
  /\ lostOut \in 0..(Wrap - 1) /\ truncated \in 0..(Wrap - 1)

LEMMA TypeParts == TypeOK <=> InTypes /\ OutTypes
BY DEF TypeOK, InTypes, OutTypes

LEMMA Wrapping ==
  ASSUME NEW x \in Int
  PROVE  x % Wrap \in 0..(Wrap - 1)
BY BufferSizes, DivMod

(* Nothing has been received and nothing is to be sent.                    *)
LEMMA InitIInv == Init => IInv
<1> SUFFICES ASSUME Init PROVE IInv
  OBVIOUS
<1>1. /\ InSize \in Nat \ {0} /\ OutSize \in Nat \ {0, 1} /\ Wrap \in Nat \ {0}
      /\ 2 ^ Width \in Nat \ {0} /\ 0 \in InIndex /\ 0 \in OutIndex
  BY BufferSizes, WidthType DEF Index
<1>2. TypeOK
  <2>1. <<>> \in Seq(Char)
    BY EmptySeq
  <2>2. 0 \in 0..(InSize - 1) /\ 0 \in 0..(Wrap - 1) /\ 0 \in 0..(2 ^ Width - 1)
    <3> DEFINE w == 2 ^ Width
    <3>1. w \in Nat \ {0}
      BY <1>1
    <3> HIDE DEF w
    <3>2. 0 \in 0..(w - 1)
      BY <3>1
    <3> QED BY <1>1, <3>2 DEF w
  <2>3. InTypes
    BY <1>1, <2>2 DEF Init, InTypes
  <2>4. OutTypes
    BY <1>1, <2>1, <2>2 DEF Init, OutTypes
  <2> QED BY <2>3, <2>4, TypeParts
<1>3. EolsInv
  <2>1. NoReceived = 0
    BY <1>2, ReceivedProperties DEF Init
  <2>2. Received \in Seq(Characters) /\ Len(Received) = 0
    BY <1>2, <2>1, ReceivedProperties
  <2>3. Cardinality(Eols(Received)) = 0
    <3>1. Cardinality(Eols(Received)) \in 0..0
      BY <2>2, EolsFinite
    <3> QED BY <3>1
  <2> QED BY <2>3 DEF Init, EolsInv
<1>4. DmaInv
  <2>1. WriteIndex = 0
    <3>1. 0 \in Int /\ -OutSize <= 0 /\ 0 < 2 * OutSize /\ 0 < OutSize
      BY <1>1
    <3>2. 0 % OutSize = 0
      BY <1>1, <3>1, SmallMod
    <3> QED BY <3>2 DEF WriteIndex, Init
  <2>2. NoPending = 0
    BY <1>2, <2>1, PendingProperties DEF Init
  <2> QED BY <2>2 DEF Init, DmaInv, DmaAlways, DmaCoherent
<1> QED BY <1>2, <1>3, <1>4 DEF IInv

LEMMA OutputUnchanged ==
  ASSUME OutTypes, DmaInv, UNCHANGED <<output, slip>>
  PROVE  OutTypes' /\ DmaInv'
BY DEF OutTypes, DmaInv, DmaAlways, DmaCoherent, output, dma, NoPending

LEMMA InputUnchanged ==
  ASSUME InTypes, EolsInv, UNCHANGED input
  PROVE  InTypes' /\ EolsInv'
<1>1. Received' = Received
  BY DEF input, Received, NoReceived
<1> QED BY <1>1 DEF InTypes, EolsInv, input, Eols

LEMMA ReceiveKeeps ==
  ASSUME IInv, NEW c \in Char, Receive(c)
  PROVE  InTypes' /\ EolsInv'
<1> USE DEF IInv
<1>1. /\ Received \in Seq(Characters) /\ Len(Received) = NoReceived
      /\ NoReceived \in 0..(InSize - 1) /\ (Full <=> NoReceived = InSize - 1)
      /\ InSize \in Nat \ {0}
  BY BufferSizes, ReceivedProperties
<1>2. CASE c = Filtered
  BY <1>2, TypeParts, InputUnchanged DEF Receive
<1>3. CASE c # Filtered /\ Full
  <2>1. UNCHANGED <<inBuf, pWr, pRd, noEOL>> /\ lostIn' = (lostIn + 1) % Wrap
    BY <1>3 DEF Receive, EolsAfter
  <2>2. lostIn' \in 0..(Wrap - 1)
    <3> DEFINE x == lostIn + 1
    <3>1. x \in Int
      BY TypeParts, BufferSizes DEF InTypes
    <3> HIDE DEF x
    <3>2. x % Wrap \in 0..(Wrap - 1)
      BY <3>1, Wrapping
    <3> QED BY <2>1, <3>2 DEF x
  <2>3. Received' = Received
    BY <2>1 DEF Received, NoReceived
  <2> QED BY <2>1, <2>2, <2>3, TypeParts DEF InTypes, EolsInv, Eols
<1>4. CASE c # Filtered /\ ~Full
  <2>1. /\ inBuf' = [inBuf EXCEPT ![pWr] = c] /\ pWr' = Up(pWr) /\ pRd' = pRd
        /\ lostIn' = lostIn /\ noEOL' = noEOL + IF c = Eol THEN 1 ELSE 0
    BY <1>4, TypeParts DEF Receive, EolsAfter, InTypes
  <2>2. /\ Received' = Append(Received, c)
        /\ inBuf' \in [InIndex -> Char \cup {Blank}] /\ pWr' \in InIndex
    BY <1>4, <2>1, StoreAppends
  <2>3. c \in Characters
    BY DEF Characters
  <2>4. /\ Cardinality(Eols(Append(Received, c)))
             = Cardinality(Eols(Received)) + IF c = Eol THEN 1 ELSE 0
        /\ Cardinality(Eols(Received)) \in 0..NoReceived
    BY <1>1, <2>3, EolsAppend, EolsFinite
  <2>5. noEOL' = Cardinality(Eols(Append(Received, c))) /\ noEOL' \in 0..(InSize - 1)
    BY <1>1, <1>4, <2>1, <2>4 DEF EolsInv
  <2>6. EolsInv'
    BY <2>2, <2>5 DEF EolsInv, Eols
  <2>7. InTypes'
    BY <2>1, <2>2, <2>5, TypeParts DEF InTypes
  <2> QED BY <2>6, <2>7
<1> QED BY <1>2, <1>3, <1>4

(* What the readers leave of the ends of line.                             *)
LEMMA DropKeeps ==
  ASSUME IInv, NEW k \in 0..NoReceived, Received' = SubSeq(Received, k + 1, NoReceived),
         noEOL' = Cardinality(Eols(Received) \ (1..k)), pRd' \in InIndex,
         UNCHANGED <<inBuf, pWr, lostIn>>
  PROVE  InTypes' /\ EolsInv'
<1>1. /\ Received \in Seq(Characters) /\ Len(Received) = NoReceived
      /\ NoReceived \in 0..(InSize - 1)
      /\ InSize \in Nat \ {0}
  BY BufferSizes, ReceivedProperties DEF IInv
<1>2. Cardinality(Eols(SubSeq(Received, k + 1, NoReceived))) = Cardinality(Eols(Received) \ (1..k))
  BY <1>1, EolsDrop
<1>3. EolsInv'
  BY <1>2 DEF EolsInv, Eols
<1>4. noEOL' \in 0..(InSize - 1)
  <2>1. /\ IsFiniteSet(Eols(Received)) /\ Cardinality(Eols(Received)) \in 0..NoReceived
    BY <1>1, EolsFinite
  <2> DEFINE A == Eols(Received) \ (1..k)
  <2>2. A \in SUBSET Eols(Received)
    OBVIOUS
  <2> HIDE DEF A
  <2>3. IsFiniteSet(A) /\ Cardinality(A) <= Cardinality(Eols(Received))
    BY <2>1, <2>2, FS_Subset
  <2>4. Cardinality(A) \in Nat
    BY <2>3, FS_CardinalityType
  <2>5. noEOL' = Cardinality(A)
    BY DEF A
  <2> QED BY <1>1, <2>1, <2>3, <2>4, <2>5
<1> QED BY <1>3, <1>4, TypeParts DEF InTypes, IInv

LEMMA GetCharKeeps ==
  ASSUME IInv, GetChar
  PROVE  InTypes' /\ EolsInv'
<1>1. /\ Received \in Seq(Characters) /\ Len(Received) = NoReceived
  BY ReceivedProperties DEF IInv
<1>2. CASE pRd = pWr
  <2>1. UNCHANGED input
    BY <1>2 DEF GetChar, input
  <2> QED BY <2>1, TypeParts, InputUnchanged DEF IInv
<1>3. CASE pRd # pWr
  <2>1. /\ NoReceived \in 1..(InSize - 1)
        /\ Received[1] = inBuf[pRd]
        /\ Received' = SubSeq(Received, 2, NoReceived)
        /\ pRd' \in InIndex
    BY <1>3, CharEffect DEF IInv
  <2>2. noEOL' = (IF inBuf[pRd] = Eol THEN noEOL - 1 ELSE noEOL) /\ UNCHANGED <<inBuf, pWr, lostIn>>
    BY <1>3 DEF GetChar
  <2>3. IsFiniteSet(Eols(Received)) /\ noEOL = Cardinality(Eols(Received))
    BY <1>1, EolsFinite DEF IInv, EolsInv
  <2>4. 1 \in 1..Len(Received) /\ Eols(Received) \ (1..1) = Eols(Received) \ {1}
    BY <1>1, <2>1
  <2>5. 1 \in Eols(Received) <=> inBuf[pRd] = Eol
    BY <2>1, <2>4 DEF Eols
  <2>6. Cardinality(Eols(Received) \ {1})
          = IF 1 \in Eols(Received) THEN Cardinality(Eols(Received)) - 1
            ELSE Cardinality(Eols(Received))
    BY <2>3, FS_RemoveElement
  <2> DEFINE k == 1
  <2>7. noEOL' = Cardinality(Eols(Received) \ (1..k))
    BY <2>2, <2>3, <2>4, <2>5, <2>6
  <2>8. k \in 0..NoReceived /\ Received' = SubSeq(Received, k + 1, NoReceived)
    BY <2>1
  <2> HIDE DEF k
  <2> QED BY <2>1, <2>2, <2>7, <2>8, DropKeeps
<1> QED BY <1>2, <1>3

LEMMA GetLineKeeps ==
  ASSUME IInv, NEW size, GetLine(size)
  PROVE  InTypes' /\ EolsInv'
<1> USE DEF IInv
<1>1. /\ Received \in Seq(Characters) /\ Len(Received) = NoReceived
      /\ NoReceived \in Nat
  BY BufferSizes, ReceivedProperties
<1>2. UNCHANGED <<inBuf, pWr, lostIn>>
  BY DEF GetLine
<1>3. IsFiniteSet(Eols(Received)) /\ noEOL = Cardinality(Eols(Received))
  BY <1>1, EolsFinite DEF EolsInv
<1>4. CASE noEOL > 0
  <2> DEFINE k == FirstEol(Received)
  <2>1. /\ Eols(Received) # {}
        /\ k \in 1..NoReceived
        /\ Received' = SubSeq(Received, k + 1, NoReceived)
        /\ pRd' \in InIndex
        /\ noEOL' = noEOL - 1
    BY <1>4, LineEffect
  <2>2. k \in Eols(Received) /\ \A i \in Eols(Received) : k <= i
    BY <1>1, <2>1, FirstEolProperties
  <2> HIDE DEF k
  <2>3. Eols(Received) \ (1..k) = Eols(Received) \ {k}
    <3>1. Eols(Received) \subseteq 1..NoReceived
      BY <1>1 DEF Eols
    <3>2. \A i \in Eols(Received) : i \in 1..k <=> i = k
      BY <1>1, <2>1, <2>2, <3>1
    <3> QED BY <3>2
  <2>4. Cardinality(Eols(Received) \ {k}) = Cardinality(Eols(Received)) - 1
    BY <1>3, <2>2, FS_RemoveElement
  <2>5. noEOL' = Cardinality(Eols(Received) \ (1..k))
    BY <1>3, <2>1, <2>3, <2>4
  <2>6. k \in 0..NoReceived
    BY <1>1, <2>1
  <2> QED BY <1>2, <2>1, <2>5, <2>6, DropKeeps
<1>5. CASE noEOL = 0 /\ Full
  <2>1. pRd' = pWr /\ noEOL' = noEOL /\ pWr' = pWr /\ inBuf' = inBuf
    BY <1>5 DEF GetLine
  <2>2. Received' = SubSeq(Received, NoReceived + 1, NoReceived)
    BY <2>1, FullEffect
  <2>3. Eols(Received) = {}
    BY <1>1, <1>3, <1>5, EolsFinite
  <2>4. Cardinality(Eols(Received) \ (1..NoReceived)) = 0
    <3>1. Eols(Received) \ (1..NoReceived) = {}
      BY <2>3
    <3> QED BY <1>3, <1>5, <2>3, <3>1
  <2>5. pRd' \in InIndex
    BY <2>1, TypeParts DEF InTypes
  <2> DEFINE k == NoReceived
  <2>6. /\ k \in 0..NoReceived /\ Received' = SubSeq(Received, k + 1, NoReceived)
        /\ noEOL' = Cardinality(Eols(Received) \ (1..k))
    BY <1>1, <1>5, <2>1, <2>2, <2>4
  <2> HIDE DEF k
  <2> QED BY <1>2, <2>5, <2>6, DropKeeps
<1>6. CASE noEOL = 0 /\ ~Full
  <2>1. UNCHANGED input
    BY <1>6 DEF GetLine, input
  <2> QED BY <2>1, TypeParts, InputUnchanged
<1>7. noEOL \in Nat
  BY TypeParts, BufferSizes DEF InTypes
<1> QED BY <1>4, <1>5, <1>6, <1>7
-----------------------------------------------------------------------------
LEMMA BeginWriteKeeps ==
  ASSUME IInv, NEW m \in Messages, BeginWrite(m)
  PROVE  OutTypes' /\ DmaInv'
<1>1. OutTypes /\ DmaInv
  BY TypeParts DEF IInv
<1>2. CASE m = <<>>
  BY <1>1, <1>2, OutputUnchanged DEF BeginWrite
<1>3. CASE m # <<>>
  <2>1. m \in Seq(Char)
    BY SerialIOAssumption
  <2>2. /\ pc = "idle" /\ pc' = "poll" /\ msg' = m
        /\ UNCHANGED <<outBuf, idxWr, lostOut, truncated, idxEnd, saddr, citer, biter, erq, hrs, slip>>
    BY <1>3 DEF BeginWrite, Unlocked, dma
  <2>3. OutTypes'
    BY <1>1, <2>1, <2>2 DEF OutTypes
  <2> QED BY <1>1, <1>3, <2>2, <2>3 DEF DmaInv, DmaAlways, DmaCoherent, NoPending
<1> QED BY <1>2, <1>3

LEMMA PollKeeps == IInv /\ PollDMA => OutTypes' /\ DmaInv'
<1> SUFFICES ASSUME IInv, PollDMA PROVE OutTypes' /\ DmaInv'
  OBVIOUS
<1>1. OutTypes /\ DmaInv
  BY TypeParts DEF IInv
<1>2. /\ pc = "poll" /\ ~hrs /\ pc' = "clear"
      /\ UNCHANGED <<outBuf, idxWr, lostOut, truncated, msg, idxEnd, saddr, citer, biter, erq, hrs, slip>>
  BY DEF PollDMA, Served, writer, dma
<1>3. OutTypes'
  BY <1>1, <1>2 DEF OutTypes
<1> QED BY <1>1, <1>2, <1>3 DEF DmaInv, DmaAlways, DmaCoherent, NoPending

LEMMA ClearKeeps == IInv /\ ClearRequest => OutTypes' /\ DmaInv'
<1> SUFFICES ASSUME IInv, ClearRequest PROVE OutTypes' /\ DmaInv'
  OBVIOUS
<1>1. OutTypes /\ DmaAlways /\ (slip # "taken" => DmaCoherent)
  BY TypeParts DEF IInv, DmaInv
<1>2. /\ pc = "clear" /\ erq' = FALSE /\ pc' = "read"
      /\ hrs' = hrs \/ hrs' = FALSE
      /\ slip' = IF hrs' \/ slip = "taken" THEN slip ELSE "none"
      /\ UNCHANGED <<outBuf, idxWr, lostOut, truncated, msg, idxEnd, saddr, citer, biter>>
  BY DEF ClearRequest, writer
<1>3. hrs' \in BOOLEAN /\ erq' \in BOOLEAN /\ (hrs' => hrs)
  <2>1. CASE hrs' = hrs
    BY <1>1, <1>2, <2>1 DEF OutTypes
  <2>2. CASE hrs' = FALSE
    BY <1>2, <2>2
  <2> QED BY <1>2, <2>1, <2>2
<1>4. OutTypes'
  BY <1>1, <1>2, <1>3 DEF OutTypes
<1>5. DmaAlways'
  BY <1>1, <1>2, <1>3 DEF DmaAlways
<1>6. ASSUME slip' # "taken" PROVE DmaCoherent'
  <2>1. slip # "taken" /\ DmaCoherent
    BY <1>1, <1>2, <1>6
  <2>2. NoPending' = NoPending
    BY <1>2 DEF NoPending
  <2>3. slip' = "request" <=> hrs'
    BY <1>2, <1>3, <2>1 DEF DmaCoherent
  <2>4. hrs' => NoPending > 0
    BY <1>1, <1>2, <1>3, <2>1 DEF DmaCoherent, DmaAlways
  <2> QED BY <1>2, <2>2, <2>3, <2>4 DEF DmaCoherent
<1> QED BY <1>4, <1>5, <1>6 DEF DmaInv

(* The writer finds the DMA where it is, whatever has been before.         *)
LEMMA ReadKeeps == IInv /\ ReadAddress => OutTypes' /\ DmaInv'
<1> SUFFICES ASSUME IInv, ReadAddress PROVE OutTypes' /\ DmaInv'
  OBVIOUS
<1>1. OutTypes /\ DmaAlways /\ (slip # "taken" => DmaCoherent)
  BY TypeParts DEF IInv, DmaInv
<1>2. /\ pc = "read" /\ idxEnd' = saddr /\ pc' = "append"
      /\ slip' = IF slip # "taken" THEN slip ELSE IF hrs THEN "request" ELSE "none"
      /\ UNCHANGED <<outBuf, idxWr, lostOut, truncated, msg, saddr, citer, biter, erq, hrs>>
  BY DEF ReadAddress, writer, dma
<1>3. OutTypes'
  BY <1>1, <1>2 DEF OutTypes
<1>4. DmaAlways'
  BY <1>1, <1>2 DEF DmaAlways
<1>5. slip' = "request" <=> hrs
  BY <1>1, <1>2 DEF DmaCoherent
<1>6. DmaCoherent'
  BY <1>2, <1>5 DEF DmaCoherent
<1> QED BY <1>3, <1>4, <1>6 DEF DmaInv

LEMMA AppendKeeps == IInv /\ AppendMessage => OutTypes' /\ DmaInv'
<1> SUFFICES ASSUME IInv, AppendMessage PROVE OutTypes' /\ DmaInv'
  OBVIOUS
<1>1. TypeOK /\ OutTypes /\ DmaAlways /\ (slip # "taken" => DmaCoherent)
  BY TypeParts DEF IInv, DmaInv
<1>2. /\ Accepted \in 0..Len(msg)
      /\ outBuf' \in [OutIndex -> Char \cup {Blank}] /\ idxWr' \in 0..(2 ^ Width - 1)
      /\ citer' \in OutIndex /\ citer' > 0
  BY <1>1, AppendEffect
<1>3. /\ pc = "append" /\ biter' = citer' /\ pc' = "start" /\ msg' = <<>> /\ idxEnd' = 0
      /\ UNCHANGED <<saddr, erq, hrs, slip>>
      /\ truncated' = (IF Accepted < Len(msg) THEN (truncated + 1) % Wrap ELSE truncated)
      /\ lostOut' = (lostOut + Len(msg) - Accepted) % Wrap
  BY DEF AppendMessage, AppendChars, Accepted, Restart
<1>4. truncated' \in 0..(Wrap - 1)
  <2> DEFINE x == truncated + 1
  <2>1. x \in Int
    BY <1>1, BufferSizes DEF OutTypes
  <2> HIDE DEF x
  <2>2. x % Wrap \in 0..(Wrap - 1)
    BY <2>1, Wrapping
  <2> QED BY <1>1, <1>3, <2>2 DEF OutTypes, x
<1>5. lostOut' \in 0..(Wrap - 1)
  <2> DEFINE x == lostOut + Len(msg) - Accepted
  <2>1. Len(msg) \in Nat
    BY <1>1, LenProperties DEF OutTypes
  <2>2. x \in Int
    BY <1>1, <1>2, <2>1, BufferSizes DEF OutTypes
  <2> HIDE DEF x
  <2>3. x % Wrap \in 0..(Wrap - 1)
    BY <2>2, Wrapping
  <2> QED BY <1>3, <2>3 DEF x
<1>6. 0 \in OutIndex /\ <<>> \in Seq(Char)
  BY BufferSizes, EmptySeq DEF Index
<1>7. OutTypes'
  BY <1>1, <1>2, <1>3, <1>4, <1>5, <1>6 DEF OutTypes
<1>8. DmaAlways'
  BY <1>1, <1>2, <1>3 DEF DmaAlways
<1>9. ASSUME slip' # "taken" PROVE DmaCoherent'
  <2>1. DmaCoherent
    BY <1>1, <1>3, <1>9
  <2>2. citer' = NoPending'
    BY <1>1, <1>3, <2>1, WriteEffect DEF DmaCoherent
  <2> QED BY <1>3, <2>1, <2>2 DEF DmaCoherent
<1> QED BY <1>7, <1>8, <1>9 DEF DmaInv

LEMMA StartKeeps == IInv /\ StartDMA => OutTypes' /\ DmaInv'
<1> SUFFICES ASSUME IInv, StartDMA PROVE OutTypes' /\ DmaInv'
  OBVIOUS
<1>1. OutTypes /\ DmaAlways /\ (slip # "taken" => DmaCoherent)
  BY TypeParts DEF IInv, DmaInv
<1>2. /\ pc = "start" /\ erq' = TRUE /\ pc' = "idle"
      /\ slip' = IF slip = "taken" THEN slip ELSE "none"
      /\ UNCHANGED <<outBuf, idxWr, lostOut, truncated, msg, idxEnd, saddr, citer, biter, hrs>>
  BY DEF StartDMA, writer
<1>3. OutTypes'
  BY <1>1, <1>2 DEF OutTypes
<1>4. DmaAlways'
  BY <1>1, <1>2 DEF DmaAlways
<1>5. ASSUME slip' # "taken" PROVE DmaCoherent'
  <2>1. slip # "taken" /\ DmaCoherent /\ slip' = "none"
    BY <1>1, <1>2, <1>5
  <2>2. NoPending' = NoPending
    BY <1>2 DEF NoPending
  <2> QED BY <1>2, <2>1, <2>2 DEF DmaCoherent
<1> QED BY <1>3, <1>4, <1>5 DEF DmaInv

LEMMA RequestKeeps == IInv /\ Request => OutTypes' /\ DmaInv'
<1> SUFFICES ASSUME IInv, Request PROVE OutTypes' /\ DmaInv'
  OBVIOUS
<1>1. OutTypes /\ DmaAlways /\ (slip # "taken" => DmaCoherent)
  BY TypeParts DEF IInv, DmaInv
<1>2. /\ erq /\ ~hrs /\ hrs' = TRUE
      /\ slip' = IF pc = "clear" /\ slip = "none" THEN "request" ELSE slip
      /\ UNCHANGED <<outBuf, idxWr, lostOut, truncated, pc, msg, idxEnd, saddr, citer, biter, erq>>
  BY DEF Request, writer
<1>3. OutTypes'
  BY <1>1, <1>2 DEF OutTypes
<1>4. DmaAlways' /\ pc \in {"idle", "poll", "clear"}
  BY <1>1, <1>2 DEF DmaAlways, OutTypes
<1>5. ASSUME slip' # "taken" PROVE DmaCoherent'
  <2>1. slip # "taken" /\ DmaCoherent
    BY <1>1, <1>2, <1>5
  <2>2. slip = "none"
    BY <1>1, <1>2, <2>1 DEF DmaCoherent, OutTypes
  <2>3. NoPending' = NoPending
    BY <1>2 DEF NoPending
  <2> QED BY <1>2, <1>4, <2>1, <2>2, <2>3 DEF DmaCoherent
<1> QED BY <1>3, <1>4, <1>5 DEF DmaInv

(* A transfer that is not due to a request that has slipped in.            *)
LEMMA InTime ==
  ASSUME IInv, Transfer, slip' # "taken"
  PROVE  /\ DmaCoherent /\ slip' = "none"
         /\ pc \in {"idle", "poll", "clear", "read"}
         /\ NoPending > 0
<1>1. OutTypes /\ DmaAlways /\ (slip # "taken" => DmaCoherent)
  BY TypeParts DEF IInv, DmaInv
<1>2. CASE slip = "request"
  <2>1. slip' = (IF pc \in {"append", "start"} THEN "taken" ELSE "none") /\ hrs
    BY <1>2 DEF Transfer
  <2> QED BY <1>1, <1>2, <2>1 DEF DmaCoherent, DmaAlways, OutTypes
<1>3. CASE slip # "request"
  <2>1. slip' = slip /\ hrs
    BY <1>3 DEF Transfer
  <2> QED BY <1>1, <1>3, <2>1 DEF DmaCoherent, DmaAlways, OutTypes
<1> QED BY <1>2, <1>3

LEMMA TransferKeeps == IInv /\ Transfer => OutTypes' /\ DmaInv'
<1> SUFFICES ASSUME IInv, Transfer PROVE OutTypes' /\ DmaInv'
  OBVIOUS
<1>1. TypeOK /\ OutTypes /\ DmaAlways
  BY TypeParts DEF IInv, DmaInv
<1>2. /\ hrs /\ hrs' = FALSE
      /\ citer' = IF citer > 1 THEN citer - 1 ELSE biter
      /\ erq' = (erq /\ citer > 1)
      /\ saddr' = (saddr + 1) % OutSize
      /\ UNCHANGED <<outBuf, idxWr, lostOut, truncated, pc, msg, idxEnd, biter>>
  BY DEF Transfer, writer
<1>3. citer > 0 /\ biter > 0 /\ citer \in Nat /\ biter \in Nat /\ citer < OutSize /\ OutSize \in Nat
  BY <1>1, <1>2, BufferSizes DEF DmaAlways, OutTypes, Index
<1>4. citer' \in OutIndex /\ citer' > 0
  BY <1>1, <1>2, <1>3, BufferSizes DEF OutTypes, Index
<1>5. erq' \in BOOLEAN /\ (erq' <=> erq /\ citer > 1)
  <2> DEFINE more == citer > 1
  <2>1. erq' = (erq /\ more) /\ more \in BOOLEAN /\ erq \in BOOLEAN
    BY <1>1, <1>2 DEF OutTypes
  <2> HIDE DEF more
  <2>2. erq' \in BOOLEAN /\ (erq' <=> erq /\ more)
    BY <2>1, Zenon
  <2> QED BY <2>2 DEF more
<1>6. saddr' \in OutIndex
  <2> DEFINE k == 1
  <2>1. saddr \in Index(OutSize) /\ k \in 0..OutSize /\ OutSize \in Nat \ {0}
    BY <1>1, BufferSizes DEF OutTypes
  <2> HIDE DEF k
  <2>2. (saddr + k) % OutSize \in Index(OutSize)
    BY <2>1, OneFurther
  <2> QED BY <1>2, <2>2, BufferSizes DEF k
<1>7. slip' \in {"none", "request", "taken"}
  <2>1. CASE slip = "request"
    BY <2>1 DEF Transfer
  <2>2. CASE slip # "request"
    BY <1>1, <2>2 DEF Transfer, OutTypes
  <2> QED BY <2>1, <2>2
<1>8. OutTypes'
  BY <1>1, <1>2, <1>4, <1>5, <1>6, <1>7 DEF OutTypes
<1>9. DmaAlways'
  BY <1>1, <1>2, <1>3, <1>4, <1>5 DEF DmaAlways
<1>10. ASSUME slip' # "taken" PROVE DmaCoherent'
  <2>1. /\ DmaCoherent /\ slip' = "none" /\ NoPending > 0
        /\ pc \in {"idle", "poll", "clear", "read"}
    BY <1>10, InTime
  <2>2. NoPending' = NoPending - 1 /\ NoPending \in 0..(OutSize - 1)
    BY <1>1, <2>1, TransferEffect, PendingProperties
  <2>3. CASE pc = "read"
    BY <1>2, <2>1, <2>3 DEF DmaCoherent
  <2>4. CASE pc \in {"idle", "poll", "clear"}
    <3>1. erq /\ citer = NoPending
      BY <1>2, <2>1, <2>4 DEF DmaCoherent
    <3>2. (erq' => citer' = NoPending') /\ (~erq' => NoPending' = 0)
      BY <1>2, <1>3, <1>5, <2>2, <3>1
    <3> QED BY <1>2, <2>1, <2>4, <3>2 DEF DmaCoherent
  <2> QED BY <2>1, <2>3, <2>4
<1> QED BY <1>8, <1>9, <1>10 DEF DmaInv

LEMMA NextIInv == IInv /\ [Next]_vars => IInv'
<1> SUFFICES ASSUME IInv, [Next]_vars PROVE IInv'
  OBVIOUS
<1>1. InTypes /\ EolsInv /\ OutTypes /\ DmaInv
  BY TypeParts DEF IInv
<1>2. ASSUME InTypes' /\ EolsInv' /\ UNCHANGED <<output, slip>> PROVE IInv'
  <2>1. OutTypes' /\ DmaInv'
    BY <1>1, <1>2, OutputUnchanged
  <2>2. TypeOK'
    BY <1>2, <2>1 DEF TypeOK, InTypes, OutTypes
  <2> QED BY <1>2, <2>1, <2>2 DEF IInv
<1>3. ASSUME OutTypes' /\ DmaInv' /\ UNCHANGED input PROVE IInv'
  <2>1. InTypes' /\ EolsInv'
    BY <1>1, <1>3, InputUnchanged
  <2>2. TypeOK'
    BY <1>3, <2>1 DEF TypeOK, InTypes, OutTypes
  <2> QED BY <1>3, <2>1, <2>2 DEF IInv
<1>4. CASE \E c \in Char : Receive(c)
  <2>1. PICK c \in Char : Receive(c)
    BY <1>4
  <2>2. UNCHANGED <<output, slip>>
    BY <2>1 DEF Receive
  <2> QED BY <1>2, <2>1, <2>2, ReceiveKeeps
<1>5. CASE GetChar
  <2>1. UNCHANGED <<output, slip>>
    BY <1>5 DEF GetChar
  <2> QED BY <1>2, <1>5, <2>1, GetCharKeeps
<1>6. CASE \E size \in Sizes : GetLine(size)
  <2>1. PICK size \in Sizes : GetLine(size)
    BY <1>6
  <2>2. UNCHANGED <<output, slip>>
    BY <2>1 DEF GetLine
  <2> QED BY <1>2, <2>1, <2>2, GetLineKeeps
<1>7. CASE \E m \in Messages : BeginWrite(m)
  <2>1. PICK m \in Messages : BeginWrite(m)
    BY <1>7
  <2>2. UNCHANGED input
    BY <2>1 DEF BeginWrite
  <2> QED BY <1>3, <2>1, <2>2, BeginWriteKeeps
<1>8. CASE PollDMA
  BY <1>3, <1>8, PollKeeps DEF PollDMA
<1>9. CASE ClearRequest
  BY <1>3, <1>9, ClearKeeps DEF ClearRequest
<1>10. CASE ReadAddress
  BY <1>3, <1>10, ReadKeeps DEF ReadAddress
<1>11. CASE AppendMessage
  BY <1>3, <1>11, AppendKeeps DEF AppendMessage
<1>12. CASE StartDMA
  BY <1>3, <1>12, StartKeeps DEF StartDMA
<1>13. CASE Request
  BY <1>3, <1>13, RequestKeeps DEF Request
<1>14. CASE Transfer
  BY <1>3, <1>14, TransferKeeps DEF Transfer
<1>15. CASE UNCHANGED vars
  BY <1>1, <1>2, <1>15, InputUnchanged DEF vars
<1> QED BY <1>4, <1>5, <1>6, <1>7, <1>8, <1>9, <1>10, <1>11, <1>12, <1>13, <1>14, <1>15
        DEF Next, InputStep, OutputStep

LEMMA InvariantHolds == Spec => []IInv
BY InitIInv, NextIInv, PTL DEF Spec

(* The number of unread ends of line (_serialInNoEOL, sio_serialIO.c:553,  *)
(* 860, 1042) is the number of those in the buffer, whatever is received,   *)
(* lost and read in which way: sio_osGetLine never runs past what has been *)
(* received. Indexes and counters of both buffers have their types.        *)
THEOREM EolsAreCounted == Spec => []EolsCounted
<1>1. IInv => EolsCounted
  <2> SUFFICES ASSUME IInv PROVE EolsCounted
    OBVIOUS
  <2>1. TypeOK /\ Len(Received) = NoReceived /\ noEOL = Cardinality(Eols(Received))
    BY ReceivedProperties DEF IInv, EolsInv
  <2> QED BY <2>1 DEF EolsCounted, Eols
<1> QED BY <1>1, InvariantHolds, PTL

(* The assertions of sio_osWriteSerial (sio_serialIO.c:784, 800) hold in   *)
(* any case: the number of bytes that the DMA is started with, and that it *)
(* has still to transfer, is neither zero nor more than the buffer holds.  *)
(* And it is what is pending, unless a request has been served behind the  *)
(* reading of the DMA's address. Likewise the channel is then coherently   *)
(* stopped (sio_serialIO.c:714).                                           *)
DmaHasWork ==
  /\ erq \/ pc = "start" => citer \in 1..(OutSize - 1)
  /\ slip # "taken" => StoppedCoherently /\ (erq => citer = NoPending)

(* The DMA channel transfers exactly what is pending, also when writers    *)
(* stop and restart it, and though requests may slip in between the poll   *)
(* (sio_serialIO.c:717), the stop (719) and the reading of the address     *)
(* (731): only a request that comes in front of the stop and is served     *)
(* behind the reading breaks this, and only until the address is read for  *)
(* the next message. Both assertions hold even then.                       *)
THEOREM DmaSendsWhatIsPending == Spec => []DmaHasWork
<1>1. IInv => DmaHasWork
  <2> SUFFICES ASSUME IInv PROVE DmaHasWork
    OBVIOUS
  <2>1. OutTypes /\ DmaAlways /\ (slip # "taken" => DmaCoherent)
    BY TypeParts DEF IInv, DmaInv
  <2>2. erq \/ pc = "start" => citer \in 1..(OutSize - 1)
    BY <2>1, BufferSizes DEF OutTypes, DmaAlways, Index
  <2>3. ASSUME slip # "taken" PROVE StoppedCoherently /\ (erq => citer = NoPending)
    BY <2>1, <2>3 DEF OutTypes, DmaAlways, DmaCoherent, StoppedCoherently
  <2> QED BY <2>2, <2>3 DEF DmaHasWork
<1> QED BY <1>1, InvariantHolds, PTL
-----------------------------------------------------------------------------
(* The two rings are two queues *)

(* Copying as many characters as there is room for, of a line or of what   *)
(* the line is cut out of.                                                 *)
LEMMA CutLine ==
  ASSUME NEW S, NEW s \in Seq(S), NEW l \in 0..Len(s), NEW r \in Nat
  PROVE  Queues!Truncated(SubSeq(s, 1, l), r) = SubSeq(s, 1, Shorter(l, r))
<1> DEFINE t == SubSeq(s, 1, l)
           n == Shorter(l, r)
           u == SubSeq(t, 1, n)
           v == SubSeq(s, 1, n)
<1>1. Len(s) \in Nat /\ l \in Nat /\ n \in 0..l
  BY LenProperties DEF Shorter
<1>2. \A i \in 1..l : s[i] \in S
  BY <1>1, ElementOfSeq
<1>3. t \in Seq(S) /\ Len(t) = l /\ \A i \in 1..l : t[i] = s[i]
  <2>1. /\ t \in Seq(S) /\ Len(t) = IF 1 <= l THEN l - 1 + 1 ELSE 0
        /\ \A i \in 1..(l - 1 + 1) : t[i] = s[1 + i - 1]
    BY <1>1, <1>2, SubSeqProperties
  <2>2. l - 1 + 1 = l /\ (IF 1 <= l THEN l - 1 + 1 ELSE 0) = l /\ \A i \in 1..l : 1 + i - 1 = i
    BY <1>1
  <2> HIDE DEF t
  <2> QED BY <2>1, <2>2
<1>4. v \in Seq(S) /\ Len(v) = n /\ \A i \in 1..n : v[i] = s[i]
  <2> HIDE DEF n
  <2>0. \A i \in 1..n : s[i] \in S
    BY <1>1, <1>2
  <2>1. /\ v \in Seq(S) /\ Len(v) = IF 1 <= n THEN n - 1 + 1 ELSE 0
        /\ \A i \in 1..(n - 1 + 1) : v[i] = s[1 + i - 1]
    BY <1>1, <2>0, SubSeqProperties
  <2>2. n - 1 + 1 = n /\ (IF 1 <= n THEN n - 1 + 1 ELSE 0) = n /\ \A i \in 1..n : 1 + i - 1 = i
    BY <1>1
  <2> HIDE DEF v
  <2> QED BY <2>1, <2>2
<1>5. u \in Seq(S) /\ Len(u) = n /\ \A i \in 1..n : u[i] = t[i]
  <2> HIDE DEF n, t
  <2>0. \A i \in 1..n : t[i] \in S
    BY <1>1, <1>2, <1>3
  <2>1. /\ u \in Seq(S) /\ Len(u) = IF 1 <= n THEN n - 1 + 1 ELSE 0
        /\ \A i \in 1..(n - 1 + 1) : u[i] = t[1 + i - 1]
    BY <1>1, <2>0, SubSeqProperties
  <2>2. n - 1 + 1 = n /\ (IF 1 <= n THEN n - 1 + 1 ELSE 0) = n /\ \A i \in 1..n : 1 + i - 1 = i
    BY <1>1
  <2> HIDE DEF u
  <2> QED BY <2>1, <2>2
<1>6. u = v
  <2> HIDE DEF n, t, u, v
  <2>1. \A i \in 1..n : u[i] = v[i]
    BY <1>1, <1>3, <1>4, <1>5
  <2> QED BY <1>4, <1>5, <2>1, SeqEqual
<1>7. Queues!Truncated(t, r) = SubSeq(t, 1, IF r < Len(t) THEN r ELSE Len(t))
  BY DEF Queues!Truncated, Queues!Shorter
<1>8. (IF r < Len(t) THEN r ELSE Len(t)) = n
  <2> HIDE DEF t
  <2> QED BY <1>1, <1>3 DEF Shorter
<1> QED BY <1>6, <1>7, <1>8

(* What SerialQueues takes of the library is the same.                     *)
LEMMA QueuesLineLength ==
  /\ Queues!Contains(Received, Eol) <=> Eols(Received) # {}
  /\ Queues!LineLength = IF Eols(Received) # {} THEN FirstEol(Received) - 1 ELSE Len(Received)
<1>1. Queues!Contains(Received, Eol) <=> Eols(Received) # {}
  BY DEF Queues!Contains, Eols
<1>2. Queues!SelectInSeq(Received, LAMBDA c : c = Eol)
        = IF Eols(Received) # {} THEN Min(Eols(Received)) ELSE 0
  BY DEF Queues!SelectInSeq, Queues!Min, Min, Eols
<1>3. FirstEol(Received) = IF Eols(Received) # {} THEN Min(Eols(Received)) ELSE 0
  BY DEF FirstEol, SelectInSeq, Eols
<1>4. Queues!LineLength
        = IF Eols(Received) # {}
          THEN (IF Eols(Received) # {} THEN Min(Eols(Received)) ELSE 0) - 1
          ELSE Len(Received)
  BY <1>1, <1>2 DEF Queues!LineLength
<1> QED BY <1>1, <1>3, <1>4

LEMMA PendingLength == TypeOK => Len(Pending) = NoPending
BY PendingProperties DEF IsWindow

LEMMA SameOutput == UNCHANGED output => Pending' = Pending /\ UNCHANGED <<lostOut, truncated>>
BY DEF output, dma, Pending, NoPending

LEMMA SameInput == UNCHANGED input => Received' = Received /\ lostIn' = lostIn
BY DEF input, Received, NoReceived

LEMMA ReceiveStep ==
  ASSUME IInv, NEW c \in Char, Receive(c)
  PROVE  Queues!Receive(c)
<1>1. /\ Len(Received) = NoReceived /\ NoReceived \in 0..(InSize - 1)
      /\ Full <=> NoReceived = InSize - 1
  BY ReceivedProperties DEF IInv
<1>2. Pending' = Pending /\ lostOut' = lostOut /\ truncated' = truncated /\ last' = Nothing
  BY SameOutput DEF Receive
<1>3. Received' = IF c # Filtered /\ Len(Received) < InSize - 1 THEN Append(Received, c) ELSE Received
  <2>1. CASE c = Filtered
    BY <2>1, SameInput DEF Receive
  <2>2. CASE c # Filtered /\ Full
    <3>1. inBuf' = inBuf /\ pWr' = pWr /\ pRd' = pRd
      BY <2>2 DEF Receive
    <3> QED BY <1>1, <2>2, <3>1, BufferSizes DEF Received, NoReceived
  <2>3. CASE c # Filtered /\ ~Full
    <3>1. inBuf' = [inBuf EXCEPT ![pWr] = c] /\ pWr' = Up(pWr) /\ pRd' = pRd
      BY <2>3 DEF Receive
    <3>2. Received' = Append(Received, c)
      BY <2>3, <3>1, StoreAppends DEF IInv
    <3> QED BY <1>1, <2>3, <3>2, BufferSizes
  <2> QED BY <2>1, <2>2, <2>3
<1>4. lostIn' = IF c # Filtered /\ Len(Received) = InSize - 1 THEN (lostIn + 1) % Wrap ELSE lostIn
  <2>1. CASE c = Filtered
    BY <2>1, SameInput DEF Receive
  <2>2. CASE c # Filtered
    BY <1>1, <2>2 DEF Receive
  <2> QED BY <2>1, <2>2
<1> QED BY <1>2, <1>3, <1>4 DEF Queues!Receive, Queues!Nothing, Queues!Returned, Nothing, Returned, Pending

LEMMA GetCharStep ==
  ASSUME IInv, GetChar
  PROVE  Queues!GetChar
<1>1. /\ Received \in Seq(Characters) /\ Len(Received) = NoReceived /\ NoReceived \in 0..(InSize - 1)
      /\ pRd = pWr <=> NoReceived = 0
  BY ReceivedProperties DEF IInv
<1>2. Received = <<>> <=> pRd = pWr
  BY <1>1, EmptySeq
<1>3. Pending' = Pending /\ lostOut' = lostOut /\ truncated' = truncated /\ lostIn' = lostIn
  BY SameOutput DEF GetChar
<1>4. CASE pRd = pWr
  <2>1. Received' = Received /\ last' = Returned("eof", <<>>, 0)
    BY <1>4 DEF GetChar, Received, NoReceived
  <2> QED BY <1>2, <1>3, <1>4, <2>1 DEF Queues!GetChar, Queues!Returned, Returned, Pending
<1>5. CASE pRd # pWr
  <2>1. Received[1] = inBuf[pRd] /\ Received' = SubSeq(Received, 2, NoReceived)
    BY <1>5, CharEffect DEF IInv
  <2>2. Received' = Tail(Received)
    BY <1>1, <1>2, <1>5, <2>1, TailIsSubSeq
  <2>3. last' = Returned("char", <<Head(Received)>>, 0)
    <3>1. Head(Received) = Received[1]
      BY <1>1, <1>2, <1>5
    <3>2. last' = Returned("char", <<inBuf[pRd]>>, 0)
      BY <1>5 DEF GetChar
    <3> QED BY <2>1, <3>1, <3>2
  <2> QED BY <1>2, <1>3, <1>5, <2>2, <2>3 DEF Queues!GetChar, Queues!Returned, Returned, Pending
<1> QED BY <1>4, <1>5

LEMMA GetLineStep ==
  ASSUME IInv, \A size \in Sizes : size <= InSize, NEW size \in Sizes, GetLine(size)
  PROVE  Queues!GetLine(size)
<1> DEFINE R == Received
           r == size - 1
<1>1. /\ R \in Seq(Characters) /\ Len(R) = NoReceived /\ NoReceived \in 0..(InSize - 1)
      /\ Full <=> NoReceived = InSize - 1
  BY ReceivedProperties DEF IInv
<1>2. r \in Nat /\ r <= InSize - 1 /\ InSize \in Nat \ {0}
  BY BufferSizes, SerialIOAssumption
<1>3. Pending' = Pending /\ lostOut' = lostOut /\ truncated' = truncated /\ lostIn' = lostIn
  BY SameOutput DEF GetLine
<1>4. /\ Queues!Contains(R, Eol) <=> noEOL > 0
      /\ Eols(R) # {} <=> noEOL > 0
  <2>1. noEOL = Cardinality(Eols(R)) /\ noEOL \in 0..NoReceived /\ (noEOL = 0 <=> Eols(R) = {})
    BY <1>1, EolsFinite DEF IInv, EolsInv
  <2>2. Queues!Contains(R, Eol) <=> Eols(R) # {}
    BY QueuesLineLength
  <2> QED BY <1>1, <2>1, <2>2
<1>5. noEOL \in Nat
  BY TypeParts, <1>2 DEF InTypes, IInv
<1>6. CASE noEOL > 0
  <2> DEFINE k == FirstEol(R)
             l == k - 1
  <2>1. /\ k \in 1..NoReceived /\ R' = SubSeq(R, k + 1, NoReceived)
        /\ last' = Returned("line", Line(l, r), 0)
    BY <1>6, LineEffect DEF IInv
  <2>2. Queues!LineLength = l
    BY <1>4, <1>6, QueuesLineLength
  <2> HIDE DEF k
  <2>3. l \in 0..Len(R) /\ l + 2 = k + 1
    BY <1>1, <2>1
  <2> HIDE DEF R, l, r
  <2>4. Queues!Truncated(SubSeq(R, 1, l), r) = SubSeq(R, 1, Shorter(l, r))
    BY <1>1, <1>2, <2>3, CutLine
  <2>5. Line(l, r) = SubSeq(R, 1, Shorter(l, r))
    BY DEF Line, R
  <2>6. R' = SubSeq(R, l + 2, Len(R))
    BY <1>1, <2>1, <2>3
  <2> QED BY <1>3, <1>4, <1>6, <2>1, <2>2, <2>4, <2>5, <2>6
          DEF Queues!GetLine, Queues!Returned, Returned, Pending, R, r
<1>7. CASE noEOL = 0 /\ Full
  <2> DEFINE l == Len(R)
  <2>1. last' = Returned("line", WholeBuffer(r), 0) /\ pRd' = pWr /\ pWr' = pWr /\ inBuf' = inBuf
    BY <1>7 DEF GetLine
  <2>2. R' = <<>>
    BY <2>1, FullEffect DEF IInv
  <2>3. Queues!LineLength = l
    BY <1>4, <1>7, QueuesLineLength
  <2>4. l = InSize - 1 /\ l \in 0..Len(R) /\ l + 2 \in Int /\ l \in Int /\ l < l + 2
    BY <1>1, <1>2, <1>7
  <2>5. SubSeq(R, l + 2, l) = <<>>
    <3> HIDE DEF l
    <3> QED BY <2>4, SubSeqEmpty
  <2> HIDE DEF R, r
  <2>6. Queues!Truncated(SubSeq(R, 1, l), r) = SubSeq(R, 1, Shorter(l, r))
    <3> HIDE DEF l
    <3> QED BY <1>1, <1>2, <2>4, CutLine
  <2>7. Line(l, r) = SubSeq(R, 1, Shorter(l, r))
    BY DEF Line, R
  <2>8. WholeBuffer(r) = Line(l, r)
    <3> HIDE DEF l
    <3>1. r - Shorter(l, r) = 0
      BY <1>2, <2>4 DEF Shorter
    <3>2. WholeBuffer(r) = Line(l, r) \o [i \in 1..(r - Shorter(l, r)) |-> Stale]
      BY <2>4 DEF WholeBuffer
    <3>3. [i \in 1..0 |-> Stale] = <<>>
      OBVIOUS
    <3>4. Line(l, r) \in Seq(Characters)
      <4> DEFINE n == Shorter(l, r)
      <4>1. n \in Int /\ n <= Len(R)
        BY <1>1, <1>2, <2>4 DEF Shorter
      <4>2. \A i \in 1..n : i \in 1..Len(R)
        BY <1>1, <4>1
      <4>3. \A i \in 1..n : R[i] \in Characters
        BY <1>1, <4>2, ElementOfSeq
      <4> HIDE DEF n
      <4>4. SubSeq(R, 1, n) \in Seq(Characters)
        BY <4>1, <4>3, SubSeqProperties
      <4> QED BY <2>7, <4>4 DEF n
    <3> QED BY <3>1, <3>2, <3>3, <3>4, ConcatEmptySeq
  <2> QED BY <1>3, <1>4, <1>7, <2>1, <2>2, <2>3, <2>4, <2>5, <2>6, <2>7, <2>8
          DEF Queues!GetLine, Queues!Returned, Returned, Pending, R, r
<1>8. CASE noEOL = 0 /\ ~Full
  <2>1. last' = Returned("null", <<>>, 0) /\ pRd' = pRd /\ pWr' = pWr /\ inBuf' = inBuf
    BY <1>8 DEF GetLine
  <2>2. R' = R
    BY <2>1 DEF Received, NoReceived
  <2> QED BY <1>1, <1>3, <1>4, <1>8, <2>1, <2>2 DEF Queues!GetLine, Queues!Returned, Returned, Pending
<1> QED BY <1>5, <1>6, <1>7, <1>8

LEMMA BeginWriteStep ==
  ASSUME IInv, NEW m \in Messages, BeginWrite(m)
  PROVE  Queues!Write(m) \/ UNCHANGED Queues!vars
<1>1. Received' = Received /\ lostIn' = lostIn
  BY SameInput DEF BeginWrite
<1>2. CASE m = <<>>
  <2>1. Pending' = Pending /\ lostOut' = lostOut /\ truncated' = truncated
        /\ last' = Returned("written", <<>>, 0)
    BY <1>2, SameOutput DEF BeginWrite
  <2>2. Len(m) = 0 /\ SubSeq(m, 1, 0) = <<>>
    BY <1>2, SubSeqEmpty
  <2>3. Len(Pending) \in 0..(OutSize - 1) /\ Pending \in Seq(Characters) /\ OutSize \in Nat
    BY PendingProperties, PendingLength, BufferSizes DEF IInv
  <2> DEFINE n == Queues!Shorter(Len(m), OutSize - 1 - Len(Pending))
  <2>4. n = 0
    BY <2>2, <2>3 DEF Queues!Shorter
  <2>5. Pending \o SubSeq(m, 1, n) = Pending
    BY <2>2, <2>3, <2>4, ConcatEmptySeq
  <2>6. (lostOut + Len(m) - n) % Wrap = lostOut
    <3>1. lostOut \in 0..(Wrap - 1) /\ Wrap \in Nat \ {0}
      BY TypeParts, BufferSizes DEF OutTypes, IInv
    <3>2. lostOut + Len(m) - n = lostOut
      BY <2>2, <2>4, <3>1
    <3>3. lostOut \in Int /\ -Wrap <= lostOut /\ lostOut < 2 * Wrap /\ lostOut >= 0 /\ lostOut < Wrap
      BY <3>1
    <3>4. lostOut % Wrap = lostOut
      BY <3>1, <3>3, SmallMod
    <3> QED BY <3>2, <3>4
  <2> HIDE DEF n
  <2>7. ~(n < Len(m))
    BY <2>2, <2>4
  <2>8. /\ Pending' = Pending \o SubSeq(m, 1, n)
        /\ truncated' = IF n < Len(m) THEN (truncated + 1) % Wrap ELSE truncated
        /\ lostOut' = (lostOut + Len(m) - n) % Wrap
        /\ last' = Returned("written", <<>>, n)
    BY <2>1, <2>4, <2>5, <2>6, <2>7
  <2>9. Queues!Write(m)
    BY <1>1, <2>8 DEF n, Queues!Write, Queues!Returned, Returned, Pending
  <2> QED BY <2>9
<1>3. CASE m # <<>>
  <2>1. UNCHANGED <<outBuf, idxWr, lostOut, truncated, saddr, last>>
    BY <1>3 DEF BeginWrite, dma
  <2>2. Pending' = Pending
    BY <2>1 DEF Pending, NoPending
  <2> QED BY <1>1, <2>1, <2>2 DEF Queues!vars, Pending
<1> QED BY <1>2, <1>3

LEMMA AppendStep ==
  ASSUME IInv, AppendMessage, idxEnd = saddr, NEW m, m = msg
  PROVE  Queues!Write(m)
<1>1. /\ Accepted = Shorter(Len(msg), OutSize - 1 - NoPending)
      /\ Extends(Pending', Pending, SubSeq(msg, 1, Accepted))
  BY WriteEffect DEF IInv, DmaInv
<1>2. Len(Pending) = NoPending
  BY PendingLength DEF IInv
<1>3. Received' = Received /\ lostIn' = lostIn
  BY SameInput DEF AppendMessage
<1>4. /\ truncated' = (IF Accepted < Len(msg) THEN (truncated + 1) % Wrap ELSE truncated)
      /\ lostOut' = (lostOut + Len(msg) - Accepted) % Wrap
      /\ last' = Returned("written", <<>>, Accepted)
  BY DEF AppendMessage, AppendChars, Accepted
<1> DEFINE n == Queues!Shorter(Len(msg), OutSize - 1 - Len(Pending))
<1>5. Accepted = n
  BY <1>1, <1>2 DEF Shorter, Queues!Shorter
<1> HIDE DEF n
<1>6. /\ Pending' = Pending \o SubSeq(msg, 1, n)
      /\ truncated' = IF n < Len(msg) THEN (truncated + 1) % Wrap ELSE truncated
      /\ lostOut' = (lostOut + Len(msg) - n) % Wrap
      /\ last' = Returned("written", <<>>, n)
  BY <1>1, <1>4, <1>5 DEF Extends
<1> QED BY <1>3, <1>6 DEF n, Queues!Write, Queues!Returned, Returned, Pending

LEMMA TransferStep ==
  ASSUME IInv, Transfer, slip' # "taken"
  PROVE  Queues!Send
<1>1. /\ NoPending > 0 /\ NoPending \in 0..(OutSize - 1)
      /\ Pending' = SubSeq(Pending, 2, NoPending)
      /\ Pending \in Seq(Characters) /\ Len(Pending) = NoPending
      /\ IsWindow(Pending, outBuf, OutSize, saddr, NoPending)
      /\ OutSize \in Nat \ {0} /\ saddr \in Index(OutSize)
  BY InTime, TransferEffect, PendingProperties, PendingLength, BufferSizes DEF IInv, TypeOK
<1>2. Pending # <<>>
  BY <1>1, EmptySeq
<1>3. Pending' = Tail(Pending)
  BY <1>1, <1>2, TailIsSubSeq
<1>4. Head(Pending) = outBuf[saddr]
  <2> DEFINE k == 1
  <2>1. k \in 1..NoPending /\ k \in 1..OutSize
    BY <1>1
  <2>2. Pending[k] = outBuf[PlaceAt(OutSize, saddr, k)]
    <3> HIDE DEF k
    <3> QED BY <1>1, <2>1 DEF IsWindow
  <2>3. PlaceAt(OutSize, saddr, k)
          = IF saddr + k - 1 < OutSize THEN saddr + k - 1 ELSE saddr + k - 1 - OutSize
    <3> HIDE DEF k
    <3> QED BY <1>1, <2>1, PlaceType
  <2>4. PlaceAt(OutSize, saddr, k) = saddr
    BY <1>1, <2>3 DEF Index
  <2>5. Head(Pending) = Pending[k]
    BY <1>1, <1>2
  <2> QED BY <2>2, <2>4, <2>5
<1>5. last' = Returned("sent", <<outBuf[saddr]>>, 0) /\ lostOut' = lostOut /\ truncated' = truncated
  BY DEF Transfer, writer
<1>6. Received' = Received /\ lostIn' = lostIn
  BY SameInput DEF Transfer
<1> QED BY <1>2, <1>3, <1>4, <1>5, <1>6 DEF Queues!Send, Queues!Returned, Returned, Pending

LEMMA InitQueues == Init => Queues!Init
<1> SUFFICES ASSUME Init PROVE Queues!Init
  OBVIOUS
<1>1. IInv
  BY InitIInv
<1>2. NoReceived = 0 /\ Len(Received) = 0 /\ Received \in Seq(Characters)
  BY <1>1, ReceivedProperties DEF Init, IInv
<1>3. Received = <<>>
  BY <1>2, EmptySeq
<1>4. NoPending = 0
  BY <1>1 DEF IInv, DmaInv, DmaCoherent, Init
<1>5. Pending = <<>>
  <2>1. Len(Pending) = 0 /\ Pending \in Seq(Characters)
    BY <1>1, <1>4, PendingLength, PendingProperties DEF IInv
  <2> QED BY <2>1, EmptySeq
<1> QED BY <1>3, <1>5 DEF Init, Queues!Init, Queues!Nothing, Queues!Returned, Nothing, Returned, Pending

LEMMA NextQueues ==
  ASSUME \A size \in Sizes : size <= InSize
  PROVE  IInv /\ [Next]_vars => [Queues!Next \/ OutputSpoiled]_(Queues!vars)
<1> SUFFICES ASSUME IInv, [Next]_vars
             PROVE  Queues!Next \/ OutputSpoiled \/ UNCHANGED Queues!vars
  OBVIOUS
<1>1. CASE \E c \in Char : Receive(c)
  BY <1>1, ReceiveStep DEF Queues!Next
<1>2. CASE GetChar
  BY <1>2, GetCharStep DEF Queues!Next
<1>3. CASE \E size \in Sizes : GetLine(size)
  BY <1>3, GetLineStep DEF Queues!Next
<1>4. CASE \E m \in Messages : BeginWrite(m)
  BY <1>4, BeginWriteStep DEF Queues!Next
<1>5. CASE AppendMessage
  <2>1. PICK m \in Messages : m = msg
    BY <1>5 DEF IInv, DmaInv, DmaAlways, AppendMessage
  <2>2. CASE slip = "taken"
    <3>1. UNCHANGED input /\ slip' = "taken"
      BY <1>5, <2>2 DEF AppendMessage
    <3> QED BY <3>1, SameInput DEF OutputSpoiled
  <2>3. CASE slip # "taken"
    <3>1. idxEnd = saddr
      BY <1>5, <2>3 DEF IInv, DmaInv, DmaCoherent, AppendMessage
    <3> QED BY <1>5, <2>1, <3>1, AppendStep DEF Queues!Next
  <2> QED BY <2>2, <2>3
<1>6. CASE Transfer
  <2>1. CASE slip' = "taken"
    <3>1. UNCHANGED input
      BY <1>6 DEF Transfer
    <3> QED BY <2>1, <3>1, SameInput DEF OutputSpoiled
  <2>2. CASE slip' # "taken"
    BY <1>6, <2>2, TransferStep DEF Queues!Next
  <2> QED BY <2>1, <2>2
<1>7. CASE PollDMA \/ ClearRequest \/ ReadAddress \/ StartDMA \/ Request \/ UNCHANGED vars
  <2>1. UNCHANGED <<input, outBuf, idxWr, lostOut, truncated, saddr, last>>
    BY <1>7 DEF PollDMA, ClearRequest, ReadAddress, StartDMA, Request, vars, output, writer, dma
  <2>2. Received' = Received /\ lostIn' = lostIn
    BY <2>1, SameInput
  <2>3. Pending' = Pending
    BY <2>1 DEF Pending, NoPending
  <2> QED BY <2>1, <2>2, <2>3 DEF Queues!vars, Pending
<1> QED BY <1>1, <1>2, <1>3, <1>4, <1>5, <1>6, <1>7 DEF Next, InputStep, OutputStep

(* The driver is what its documentation promises, two queues of characters *)
(* (SerialQueues): what has been received is read in the order of          *)
(* reception, what has been accepted is sent in the order of writing, each *)
(* character once, and what finds no room is counted. The exception is an  *)
(* output spoiled by a request that slips in while the DMA is stopped      *)
(* (OutputSpoiled); the input is what it should be even then. The string   *)
(* that a line is read into is not longer than the input buffer: a full    *)
(* buffer is terminated at the end of the string (sio_serialIO.c:1012), not*)
(* behind the characters that have been copied to it.                      *)
THEOREM QueuesAreImplemented ==
  ASSUME \A size \in Sizes : size <= InSize
  PROVE  Spec => ImplementsQueues
<1>1. Init => Queues!Init
  BY InitQueues
<1>2. IInv /\ [Next]_vars => [Queues!Next \/ OutputSpoiled]_(Queues!vars)
  BY NextQueues
<1> QED BY <1>1, <1>2, InvariantHolds, PTL DEF Spec, ImplementsQueues
=============================================================================
