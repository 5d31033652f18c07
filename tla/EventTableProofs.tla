-------------------------- MODULE EventTableProofs --------------------------
(***************************************************************************)
(* Proofs about the tables of safe-RTOS, for any events, tasks, priorities *)
(* and times: the tables lead each search to the most urgent event, and    *)
(* they implement EventPlan.                                               *)
(*                                                                         *)
(* The argument: the table is sorted while it is built (Sorted), so that   *)
(* the event a search looks for is the first one below some priority and   *)
(* nothing in between belongs to another group. An event is found by its   *)
(* ID (IdsInv) with the tasks of its own slice of the list (SlicesInv),    *)
(* wherever other events and tasks are inserted. Its due time is less than *)
(* a quarter of the clock's range ahead (TimesInv), so that a difference of*)
(* wrapping numbers is the time that is left.                              *)
(***************************************************************************)
EXTENDS EventTable, SequenceTheorems, WellFoundedInduction, TLAPS

-----------------------------------------------------------------------------
(* The inductive invariant *)

Quarter == 2^(Width - 2)

(* More urgent events come first.                                          *)
Sorted == \A i, j \in 1..NoEvents : i < j => table[i].prio >= table[j].prio

(* The tasks of an event are a part of the list of tasks, and those of two *)
(* events are different parts.                                             *)
Behind(i) == table[i].taskAry + table[i].noTasks
SlicesInv ==
  /\ \A i \in 1..NoEvents :
       /\ table[i].taskAry = NULL <=> table[i].noTasks = 0
       /\ Behind(i) <= Len(tasks) + 1
  /\ \A i, j \in 1..NoEvents :
       i # j /\ table[i].taskAry # NULL /\ table[j].taskAry # NULL
         => Behind(i) <= table[j].taskAry \/ Behind(j) <= table[i].taskAry

(* What each phase has done to the clock and the tables.                   *)
PhaseInv ==
  /\ phase \in {"init", "run"} => NoEvents > 0 /\ prioMap \in [0..MaxPriority -> 1..Guard]
  /\ phase \in {"config", "failed"} => scan = 0
  /\ phase # "run" => step = 0
  /\ phase = "run" => step = Step
  /\ phase \in {"config", "init", "failed"} => tiOs = Modulus - 1

(* Each event has one ID, and events of same priority are in order of ID.  *)
IdsInv ==
  /\ \A i \in 1..NoEvents : \E v \in 1..NoEvents : idMap[v] = i
  /\ \A v, w \in 1..NoEvents :
       v < w => /\ idMap[v] # idMap[w]
                /\ table[idMap[v]].prio = table[idMap[w]].prio => idMap[v] < idMap[w]

(* A cyclic event is due within a quarter of the range of the clock.       *)
TimesInv ==
  \A v \in 1..NoEvents : EventOf(v).cycle > 0 =>
    EventOf(v).cycle \in Step..(Quarter - 1) /\ Remaining(v) \in 1..Quarter

SearchInv == TypeOK /\ Sorted /\ SlicesInv /\ PhaseInv /\ LinksFindTheFirst /\ PrioMapFindsTheFirst
IInv == SearchInv /\ IdsInv /\ TimesInv
-----------------------------------------------------------------------------
(* Sets of natural numbers and sequences *)

LEMMA NatLessWellFounded ==
  IsWellFoundedOn({ss \in Nat \X Nat : ss[1] < ss[2]}, Nat)
BY NatLessThanWellFounded, Zenon DEF OpToRel

LEMMA MinProperties ==
  ASSUME NEW S \in SUBSET Nat, S # {}
  PROVE  Min(S) \in S /\ \A y \in S : Min(S) <= y
<1> DEFINE R == {ss \in Nat \X Nat : ss[1] < ss[2]}
<1>1. IsWellFoundedOn(R, Nat)
  BY NatLessWellFounded
<1> HIDE DEF R
<1>2. PICK x \in S : \A y \in S : ~(<<y, x>> \in R)
  BY <1>1, WFMin
<1>3. \A y \in S : x <= y
  <2> TAKE y \in S
  <2>1. ~(y < x)
    BY <1>2 DEF R
  <2> QED BY <2>1
<1> QED BY <1>3 DEF Min

(* What has the properties of the minimum, or of the maximum, is it.       *)
LEMMA MinIs ==
  ASSUME NEW S \in SUBSET Nat, NEW m \in S, \A y \in S : m <= y
  PROVE  Min(S) = m
<1> DEFINE n == Min(S)
<1>1. n \in S /\ \A y \in S : n <= y
  BY MinProperties
<1> HIDE DEF n
<1>2. n \in Nat /\ m \in Nat /\ n <= m /\ m <= n
  BY <1>1
<1>3. n = m
  BY <1>2
<1> QED BY <1>3 DEF n

LEMMA MaxIs ==
  ASSUME NEW S \in SUBSET Nat, NEW m \in S, \A y \in S : m >= y
  PROVE  Max(S) = m
<1> DEFINE n == Max(S)
<1>1. n \in S /\ \A y \in S : n >= y
  BY DEF Max
<1> HIDE DEF n
<1>2. n \in Nat /\ m \in Nat /\ n <= m /\ m <= n
  BY <1>1
<1>3. n = m
  BY <1>2
<1> QED BY <1>3 DEF n

IsJoined(t, s1, s2) ==
  /\ Len(t) = Len(s1) + Len(s2)
  /\ \A k \in 1..(Len(s1) + Len(s2)) : t[k] = IF k <= Len(s1) THEN s1[k] ELSE s2[k - Len(s1)]

LEMMA JoinedProperties ==
  ASSUME NEW S, NEW s1 \in Seq(S), NEW s2 \in Seq(S)
  PROVE  s1 \o s2 \in Seq(S) /\ IsJoined(s1 \o s2, s1, s2)
BY ConcatProperties DEF IsJoined

(* What is inserted, and where.                                            *)
IsPlace(i, s) == i \in 1..(Len(s) + 1)
IsInserted(t, s, i, e) ==
  /\ Len(t) = Len(s) + 1
  /\ \A k \in 1..(Len(s) + 1) : t[k] = IF k < i THEN s[k] ELSE IF k = i THEN e ELSE s[k - 1]

LEMMA InsertAtProperties ==
  ASSUME NEW S, NEW s \in Seq(S), NEW i, IsPlace(i, s), NEW e \in S
  PROVE  InsertAt(s, i, e) \in Seq(S) /\ IsInserted(InsertAt(s, i, e), s, i, e)
<1> DEFINE n == Len(s)
           a == SubSeq(s, 1, i - 1)
           b == SubSeq(s, i, n)
<1>1. n \in Nat /\ i \in 1..(n + 1) /\ \A k \in 1..n : s[k] \in S
  BY LenProperties, ElementOfSeq DEF IsPlace
<1>2. /\ a \in Seq(S) /\ Len(a) = i - 1
      /\ \A k \in 1..(i - 1) : a[k] = s[k]
  <2>1. \A k \in 1..(i - 1) : s[k] \in S
    BY <1>1
  <2>2. /\ a \in Seq(S)
        /\ Len(a) = IF 1 <= i - 1 THEN (i - 1) - 1 + 1 ELSE 0
        /\ \A k \in 1..((i - 1) - 1 + 1) : a[k] = s[1 + k - 1]
    <3>1. 1 \in Int /\ i - 1 \in Int
      BY <1>1
    <3> QED BY <2>1, <3>1, SubSeqProperties
  <2> HIDE DEF a
  <2>3. Len(a) = i - 1
    BY <1>1, <2>2
  <2> QED BY <1>1, <2>2, <2>3
<1>3. /\ b \in Seq(S) /\ Len(b) = n - i + 1
      /\ \A k \in 1..(n - i + 1) : b[k] = s[i + k - 1]
  <2>1. \A k \in i..n : s[k] \in S
    BY <1>1
  <2>2. /\ b \in Seq(S)
        /\ Len(b) = IF i <= n THEN n - i + 1 ELSE 0
        /\ \A k \in 1..(n - i + 1) : b[k] = s[i + k - 1]
    <3>1. i \in Int /\ n \in Int
      BY <1>1
    <3> QED BY <2>1, <3>1, SubSeqProperties
  <2> HIDE DEF b
  <2>3. Len(b) = n - i + 1
    BY <1>1, <2>2
  <2> QED BY <1>1, <2>2, <2>3
<1>4. <<e>> \in Seq(S) /\ Len(<<e>>) = 1 /\ <<e>>[1] = e
  OBVIOUS
<1> DEFINE l == <<e>>
           ae == a \o l
<1>5. /\ ae \in Seq(S) /\ Len(ae) = i
      /\ \A k \in 1..i : ae[k] = IF k <= i - 1 THEN a[k] ELSE <<e>>[k - (i - 1)]
  <2> HIDE DEF a, l
  <2>1. a \in Seq(S) /\ l \in Seq(S) /\ Len(a) = i - 1 /\ Len(l) = 1
    BY <1>2, <1>4 DEF l
  <2>2. ae \in Seq(S) /\ IsJoined(ae, a, l)
    BY <2>1, JoinedProperties
  <2> HIDE DEF ae
  <2>3. /\ Len(ae) = (i - 1) + 1
        /\ \A k \in 1..((i - 1) + 1) : ae[k] = IF k <= i - 1 THEN a[k] ELSE l[k - (i - 1)]
    BY <2>1, <2>2 DEF IsJoined
  <2>4. (i - 1) + 1 = i
    BY <1>1
  <2> QED BY <2>2, <2>3, <2>4 DEF l
<1>6. \A k \in 1..i : ae[k] = IF k < i THEN s[k] ELSE e
  <2> HIDE DEF a, ae
  <2> TAKE k \in 1..i
  <2>1. CASE k < i
    BY <1>1, <1>2, <1>5, <2>1
  <2>2. CASE k = i
    BY <1>1, <1>4, <1>5, <2>2
  <2> QED BY <1>1, <2>1, <2>2
<1> HIDE DEF ae
<1> DEFINE ab == ae \o b
<1>7. /\ ab \in Seq(S) /\ Len(ab) = n + 1
      /\ \A k \in 1..(n + 1) : ab[k] = IF k <= i THEN ae[k] ELSE b[k - i]
  <2> HIDE DEF b
  <2>1. ab \in Seq(S) /\ IsJoined(ab, ae, b)
    BY <1>3, <1>5, JoinedProperties
  <2> HIDE DEF ab
  <2>2. /\ Len(ab) = i + (n - i + 1)
        /\ \A k \in 1..(i + (n - i + 1)) : ab[k] = IF k <= i THEN ae[k] ELSE b[k - i]
    BY <1>3, <1>5, <2>1 DEF IsJoined
  <2>3. i + (n - i + 1) = n + 1
    BY <1>1
  <2> QED BY <2>1, <2>2, <2>3
<1> HIDE DEF ab
<1>8. ASSUME NEW k \in 1..(n + 1)
      PROVE  ab[k] = IF k < i THEN s[k] ELSE IF k = i THEN e ELSE s[k - 1]
  <2> HIDE DEF b
  <2>1. CASE k <= i
    BY <1>1, <1>6, <1>7, <2>1
  <2>2. CASE k > i
    <3>1. k - i \in 1..(n - i + 1) /\ i + (k - i) - 1 = k - 1
      BY <1>1, <2>2
    <3>2. b[k - i] = s[k - 1]
      BY <1>3, <3>1
    <3>3. ~(k <= i) /\ ~(k < i) /\ k # i
      BY <1>1, <2>2
    <3>4. ab[k] = b[k - i]
      BY <1>7, <3>3, Zenon
    <3> QED BY <3>2, <3>3, <3>4
  <2>3. k <= i \/ k > i
    BY <1>1
  <2> QED BY <2>1, <2>2, <2>3
<1> QED BY <1>7, <1>8 DEF InsertAt, IsInserted, ae, ab, l
-----------------------------------------------------------------------------
(* The variables *)

LEMMA QuarterProperties ==
  /\ Quarter \in Nat \ {0} /\ 2^(Width - 1) = 2 * Quarter /\ Modulus = 4 * Quarter
  /\ Modulus \in Nat \ {0} /\ \A t \in Int : Wrapped(t) \in 0..(Modulus - 1)
<1> DEFINE q == 2^(Width - 2)
<1>1. q \in Nat \ {0} /\ 2^(Width - 1) = 2 * q /\ Modulus = 4 * q
  BY WidthAssumption
<1> HIDE DEF q
<1>2. Modulus \in Nat \ {0}
  BY <1>1
<1>3. \A t \in Int : t % Modulus \in 0..(Modulus - 1)
  BY <1>2
<1> QED BY <1>1, <1>2, <1>3 DEF Quarter, Wrapped, q

LEMMA TableTypes ==
  ASSUME TypeOK
  PROVE  /\ NoEvents \in Nat /\ Guard = NoEvents + 1 /\ table \in [1..NoEvents -> EventType]
         /\ \A i \in 1..NoEvents : /\ table[i] \in EventType /\ Prio(i) = table[i].prio
                                   /\ Prio(i) \in 1..MaxPriority
                                   /\ table[i].taskAry \in Nat /\ table[i].noTasks \in Nat
         /\ Prio(Guard) = 0 /\ MaxPriority \in Nat
         /\ \A i \in 1..Guard : Prio(i) \in 0..MaxPriority
<1>1. NoEvents \in Nat /\ table \in [1..NoEvents -> EventType] /\ Guard = NoEvents + 1
  BY LenProperties DEF TypeOK, NoEvents, Guard
<1>2. MaxPriority \in Nat
  BY TableAssumption
<1>3. ASSUME NEW i \in 1..NoEvents
      PROVE  /\ table[i] \in EventType /\ Prio(i) = table[i].prio /\ Prio(i) \in 1..MaxPriority
             /\ table[i].taskAry \in Nat /\ table[i].noTasks \in Nat
  <2>1. table[i] \in EventType
    BY <1>1
  <2>2. /\ table[i].prio \in 1..MaxPriority
        /\ table[i].taskAry \in Nat /\ table[i].noTasks \in Nat
    BY <2>1 DEF EventType
  <2>3. Prio(i) = table[i].prio
    BY <1>1 DEF Prio
  <2> QED BY <2>1, <2>2, <2>3
<1>4. Prio(Guard) = 0
  BY DEF Prio
<1>5. ASSUME NEW i \in 1..Guard
      PROVE  Prio(i) \in 0..MaxPriority
  <2>1. i \in 1..NoEvents \/ i = Guard
    BY <1>1
  <2> QED BY <1>2, <1>3, <1>4, <2>1
<1> QED BY <1>1, <1>2, <1>3, <1>4, <1>5

(* With the guard the table is sorted, too.                                *)
LEMMA SortedWithGuard ==
  ASSUME TypeOK, Sorted
  PROVE  \A i, j \in 1..Guard : i <= j => Prio(i) >= Prio(j)
<1> SUFFICES ASSUME NEW i \in 1..Guard, NEW j \in 1..Guard, i <= j
             PROVE  Prio(i) >= Prio(j)
  OBVIOUS
<1>1. Prio(i) \in Nat /\ Prio(j) \in Nat /\ NoEvents \in Nat /\ Guard = NoEvents + 1
  BY TableTypes
<1>2. CASE j = Guard
  BY <1>1, <1>2, TableTypes
<1>3. CASE i = j
  BY <1>1, <1>3
<1>4. CASE j # Guard /\ i # j
  <2>1. i \in 1..NoEvents /\ j \in 1..NoEvents /\ i < j
    BY <1>1, <1>4
  <2> QED BY <2>1, TableTypes DEF Sorted
<1> QED BY <1>2, <1>3, <1>4

(* Wherever a new event is put, those in front of it are not less urgent,  *)
(* and those behind are.                                                   *)
LEMMA PositionProperties ==
  ASSUME TypeOK, Sorted, NEW prio \in Nat \ {0}
  PROVE  /\ Position(prio) \in 1..Guard
         /\ \A i \in 1..NoEvents : i < Position(prio) <=> table[i].prio >= prio
<1> DEFINE S == {i \in 1..NoEvents : Prio(i) < prio} \cup {Guard}
           pos == Position(prio)
<1>1. NoEvents \in Nat /\ Guard = NoEvents + 1
  BY TableTypes
<1>2. S \in SUBSET Nat /\ S # {}
  BY <1>1
<1>3. pos \in S /\ \A y \in S : pos <= y
  BY <1>2, MinProperties DEF Position
<1>4. pos \in 1..Guard
  BY <1>1, <1>3
<1>5. ASSUME NEW i \in 1..NoEvents
      PROVE  i < pos <=> table[i].prio >= prio
  <2>1. table[i].prio \in Nat /\ Prio(i) = table[i].prio
    BY TableTypes
  <2>2. CASE i < pos
    <3>1. i \notin S
      <4> HIDE DEF S, pos
      <4> QED BY <1>1, <1>3, <1>4, <2>2
    <3> QED BY <2>1, <2>2, <3>1
  <2>3. CASE i >= pos
    <3>1. pos # Guard /\ pos \in 1..NoEvents
      <4> HIDE DEF S, pos
      <4> QED BY <1>1, <1>4, <2>3
    <3>2. Prio(pos) < prio
      <4> HIDE DEF pos
      <4> QED BY <1>3, <3>1
    <3>3. Prio(pos) >= Prio(i) /\ Prio(pos) \in Nat
      <4> HIDE DEF S, pos
      <4>1. i \in 1..Guard
        BY <1>1
      <4> QED BY <1>4, <2>3, <4>1, SortedWithGuard, TableTypes
    <3>4. ~(Prio(i) >= prio)
      <4> HIDE DEF S, pos
      <4> QED BY <2>1, <3>2, <3>3
    <3>5. ~(i < pos)
      <4> HIDE DEF S, pos
      <4> QED BY <1>1, <1>4, <2>3
    <3> QED BY <2>1, <3>4, <3>5
  <2>4. i < pos \/ i >= pos
    <3> HIDE DEF S, pos
    <3> QED BY <1>1, <1>4
  <2> QED BY <2>2, <2>3, <2>4
<1> QED BY <1>4, <1>5
-----------------------------------------------------------------------------
(* The search tables *)

(* A group begins with the first event that is not above it.               *)
LEMMA GroupBegins ==
  ASSUME TypeOK, Sorted, NEW p \in 0..MaxPriority
  PROVE  LET m == Min({j \in 1..Guard : Prio(j) <= p})
         IN /\ m \in 1..Guard /\ Prio(m) <= p /\ IsFirst(m)
            /\ \A j \in 1..Guard : Prio(j) <= p => m <= j
            /\ p \in PrioEntry(m)
<1> DEFINE S == {j \in 1..Guard : Prio(j) <= p}
           m == Min(S)
<1>1. NoEvents \in Nat /\ Guard = NoEvents + 1 /\ Prio(Guard) = 0 /\ MaxPriority \in Nat
  BY TableTypes
<1>2. S \in SUBSET Nat /\ Guard \in S
  BY <1>1
<1>3. m \in S /\ \A y \in S : m <= y
  BY <1>2, MinProperties
<1> HIDE DEF m
<1>4. m \in 1..Guard /\ Prio(m) <= p /\ \A j \in 1..Guard : Prio(j) <= p => m <= j
  BY <1>3
<1>5. Prio(m) \in Nat
  BY <1>4, TableTypes
<1>6. PrioBefore(m) \in Int /\ PrioBefore(m) > p
  <2>1. CASE m = 1
    BY <1>1, <2>1 DEF PrioBefore
  <2>2. CASE m # 1
    <3>1. m - 1 \in 1..Guard /\ ~(m <= m - 1)
      BY <1>1, <1>4, <2>2
    <3>2. ~(Prio(m - 1) <= p) /\ Prio(m - 1) \in 0..MaxPriority
      BY <1>4, <3>1, TableTypes
    <3>3. PrioBefore(m) = Prio(m - 1)
      BY <2>2 DEF PrioBefore
    <3> QED BY <1>1, <3>2, <3>3
  <2> QED BY <2>1, <2>2
<1>7. IsFirst(m)
  <2>1. m # 1 => PrioBefore(m) = Prio(m - 1)
    BY DEF PrioBefore
  <2>2. Prio(m) < PrioBefore(m)
    BY <1>4, <1>5, <1>6
  <2> QED BY <2>1, <2>2 DEF IsFirst
<1>8. p \in PrioEntry(m)
  BY <1>1, <1>4, <1>5, <1>6 DEF PrioEntry
<1> QED BY <1>4, <1>7, <1>8 DEF m

(* The link leads to the first one of the others.                          *)
LEMMA LinkIs ==
  ASSUME TypeOK, Sorted, NEW i \in 1..NoEvents
  PROVE  /\ Link(i) = Min({j \in 1..Guard : j # i /\ Prio(j) <= Prio(i)})
         /\ Link(i) \in 1..Guard
<1> DEFINE S == {j \in 1..Guard : j # i /\ Prio(j) <= Prio(i)}
<1>1. /\ NoEvents \in Nat /\ Guard = NoEvents + 1 /\ i \in 1..Guard
      /\ Prio(i) \in 0..MaxPriority /\ MaxPriority \in Nat
      /\ \A j \in 1..Guard : Prio(j) \in Nat
  BY TableTypes
<1>2. S \in SUBSET Nat
  BY <1>1
<1>3. \A j, k \in 1..Guard : j <= k => Prio(j) >= Prio(k)
  BY SortedWithGuard
<1>4. CASE IsFirst(i)
  <2>1. Link(i) = i + 1 /\ i + 1 \in S
    BY <1>1, <1>3, <1>4 DEF Link
  <2>2. ASSUME NEW j \in S PROVE i + 1 <= j
    <3> SUFFICES ASSUME j < i PROVE FALSE
      BY <1>1
    <3>1. i # 1 /\ i - 1 \in 1..Guard /\ j <= i - 1
      BY <1>1
    <3>2. Prio(i) < Prio(i - 1) /\ Prio(j) >= Prio(i - 1)
      BY <1>3, <1>4, <3>1 DEF IsFirst
    <3> QED BY <1>1, <3>1, <3>2
  <2>3. Min(S) = i + 1
    <3> HIDE DEF S
    <3> QED BY <1>2, <2>1, <2>2, MinIs
  <2> QED BY <1>1, <2>1, <2>3
<1>5. CASE ~IsFirst(i)
  <2> DEFINE m == Min({j \in 1..Guard : Prio(j) <= Prio(i)})
             F == {h \in 1..i : IsFirst(h)}
  <2>1. /\ m \in 1..Guard /\ Prio(m) <= Prio(i) /\ IsFirst(m)
        /\ \A j \in 1..Guard : Prio(j) <= Prio(i) => m <= j
    BY <1>1, GroupBegins
  <2> HIDE DEF m
  <2>2. m \in 1..i /\ m # i /\ Prio(m) = Prio(i)
    <3>1. m <= i /\ m # i
      BY <1>1, <1>5, <2>1
    <3>2. Prio(m) >= Prio(i)
      BY <1>1, <1>3, <2>1, <3>1
    <3> QED BY <1>1, <2>1, <3>1, <3>2
  <2>3. m \in F /\ F \in SUBSET Nat
    BY <2>1, <2>2
  <2>4. ASSUME NEW h \in F PROVE m >= h
    <3> SUFFICES ASSUME m < h PROVE FALSE
      BY <2>1
    <3>1. h # 1 /\ h - 1 \in 1..Guard /\ h \in 1..Guard /\ m <= h - 1 /\ h <= i /\ m \in 1..Guard
      BY <1>1, <2>1
    <3>2. Prio(h) < Prio(h - 1)
      BY <3>1 DEF IsFirst
    <3>3. Prio(m) >= Prio(h - 1) /\ Prio(h) >= Prio(i)
      BY <1>1, <1>3, <3>1
    <3> QED BY <1>1, <2>2, <3>1, <3>2, <3>3
  <2>5. FirstOf(i) = m
    <3>1. Max(F) = m
      <4> HIDE DEF F
      <4> QED BY <2>3, <2>4, MaxIs
    <3> QED BY <3>1 DEF FirstOf
  <2>6. Link(i) = m
    BY <1>5, <2>5 DEF Link
  <2>7. m \in S /\ \A y \in S : m <= y
    BY <2>1, <2>2
  <2>8. Min(S) = m
    <3> HIDE DEF S
    <3> QED BY <1>2, <2>7, MinIs
  <2> QED BY <2>1, <2>6, <2>8
<1> QED BY <1>4, <1>5

(* The map leads to the first event that is not above a priority.          *)
LEMMA PrioMapIs ==
  ASSUME TypeOK, Sorted, NEW p \in 0..MaxPriority
  PROVE  /\ Max({1} \cup {i \in 1..Guard : IsFirst(i) /\ p \in PrioEntry(i)})
              = Min({i \in 1..Guard : Prio(i) <= p})
         /\ Min({i \in 1..Guard : Prio(i) <= p}) \in 1..Guard
<1> DEFINE m == Min({i \in 1..Guard : Prio(i) <= p})
           F == {1} \cup {i \in 1..Guard : IsFirst(i) /\ p \in PrioEntry(i)}
<1>1. /\ NoEvents \in Nat /\ Guard = NoEvents + 1
      /\ \A j \in 1..Guard : Prio(j) \in Nat
  BY TableTypes
<1>2. \A j, k \in 1..Guard : j <= k => Prio(j) >= Prio(k)
  BY SortedWithGuard
<1>3. /\ m \in 1..Guard /\ Prio(m) <= p /\ IsFirst(m)
      /\ \A j \in 1..Guard : Prio(j) <= p => m <= j
      /\ p \in PrioEntry(m)
  BY GroupBegins
<1> HIDE DEF m
<1>4. m \in F /\ F \in SUBSET Nat
  BY <1>1, <1>3
<1>5. ASSUME NEW i \in F PROVE m >= i
  <2>1. CASE i = 1
    BY <1>3, <2>1
  <2>2. CASE i # 1
    <3> SUFFICES ASSUME m < i PROVE FALSE
      BY <1>1, <1>3
    <3>1. i \in 1..Guard /\ i - 1 \in 1..Guard /\ m <= i - 1 /\ p \in PrioEntry(i)
      BY <1>1, <1>3, <2>2
    <3>2. p \in Prio(i)..(Prio(i - 1) - 1)
      BY <2>2, <3>1 DEF PrioEntry, PrioBefore
    <3>3. Prio(m) >= Prio(i - 1)
      BY <1>2, <1>3, <3>1
    <3> QED BY <1>1, <1>3, <3>1, <3>2, <3>3
  <2> QED BY <2>1, <2>2
<1>6. Max(F) = m
  <2> HIDE DEF F
  <2> QED BY <1>4, <1>5, MaxIs
<1> QED BY <1>3, <1>6 DEF m
-----------------------------------------------------------------------------
(* What the actions do to the tables *)

NewEvent(in) == [prio |-> in.prio, cycle |-> in.cycle, due |-> in.first, state |-> "idle",
                 taskAry |-> NULL, noTasks |-> 0, next |-> NULL]

LEMMA NewEventType ==
  ASSUME NEW in \in EventInputs, in.prio \in 1..MaxPriority, TimingOk(in)
  PROVE  NewEvent(in) \in EventType /\ in.cycle \in 0..(Quarter - 1) /\ in.first \in 0..(Quarter - 1)
<1>1. in.cycle \in Nat /\ in.first \in Nat /\ MaxTasks \in Nat /\ MaxEvents \in Nat
  BY TableAssumption
<1>2. Quarter \in Nat \ {0} /\ Modulus = 4 * Quarter
  BY QuarterProperties
<1>3. in.cycle \in 0..(Quarter - 1) /\ in.first \in 0..(Quarter - 1)
  BY <1>1, <1>2 DEF TimingOk, Quarter
<1>4. in.cycle \in 0..(Modulus - 1) /\ in.first \in 0..(Modulus - 1)
  BY <1>2, <1>3
<1> QED BY <1>1, <1>3, <1>4 DEF NewEvent, EventType, NULL

LEMMA CreatedTable ==
  ASSUME TypeOK, Sorted, NEW in \in EventInputs, CreateEvent(in)
  PROVE  LET pos == Position(in.prio)
         IN /\ pos \in 1..Guard
            /\ \A i \in 1..NoEvents : i < pos <=> table[i].prio >= in.prio
            /\ NoEvents' = NoEvents + 1 /\ table' \in Seq(EventType)
            /\ \A k \in 1..(NoEvents + 1) :
                 table'[k] = IF k < pos THEN table[k]
                             ELSE IF k = pos THEN NewEvent(in) ELSE table[k - 1]
            /\ idMap' \in [1..(NoEvents + 1) -> 1..(NoEvents + 1)]
            /\ \A v \in 1..NoEvents :
                 idMap'[v] = IF idMap[v] >= pos THEN idMap[v] + 1 ELSE idMap[v]
            /\ idMap'[NoEvents + 1] = pos
<1> DEFINE pos == Position(in.prio)
           n == NoEvents
           moved == [v \in 1..n |-> IF idMap[v] >= pos THEN idMap[v] + 1 ELSE idMap[v]]
<1>1. n \in Nat /\ Guard = n + 1 /\ Len(table) = n /\ table \in Seq(EventType)
  BY TableTypes DEF TypeOK, NoEvents
<1>2. in.prio \in Nat \ {0}
  BY DEF CreateEvent
<1>3. pos \in 1..Guard /\ \A i \in 1..NoEvents : i < pos <=> table[i].prio >= in.prio
  BY <1>2, PositionProperties
<1>4. NewEvent(in) \in EventType
  BY NewEventType DEF CreateEvent
<1>5. table' = InsertAt(table, pos, NewEvent(in))
  BY DEF CreateEvent, NewEvent
<1> HIDE DEF pos
<1>6. /\ table' \in Seq(EventType) /\ Len(table') = n + 1
      /\ \A k \in 1..(n + 1) :
           table'[k] = IF k < pos THEN table[k] ELSE IF k = pos THEN NewEvent(in) ELSE table[k - 1]
  <2> HIDE DEF n
  <2>1. IsPlace(pos, table) /\ table \in Seq(EventType)
    BY <1>1, <1>3 DEF IsPlace
  <2>2. /\ InsertAt(table, pos, NewEvent(in)) \in Seq(EventType)
        /\ IsInserted(InsertAt(table, pos, NewEvent(in)), table, pos, NewEvent(in))
    BY <1>4, <2>1, InsertAtProperties
  <2>3. table' \in Seq(EventType) /\ IsInserted(table', table, pos, NewEvent(in))
    BY <1>5, <2>2
  <2> QED BY <1>1, <2>3 DEF IsInserted
<1>7. idMap \in [1..n -> 1..n] /\ Len(idMap) = n
  <2>1. idMap \in [1..n -> 1..n]
    BY DEF TypeOK
  <2> HIDE DEF n
  <2> QED BY <1>1, <2>1
<1>8. idMap' = Append(moved, pos)
  BY <1>7 DEF CreateEvent, MapInserted, pos
<1>9. moved \in [1..n -> 1..(n + 1)] /\ pos \in 1..(n + 1)
  <2> HIDE DEF n
  <2> QED BY <1>1, <1>3, <1>7
<1>10. /\ idMap' \in [1..(n + 1) -> 1..(n + 1)]
       /\ \A v \in 1..n : idMap'[v] = moved[v]
       /\ idMap'[n + 1] = pos
  <2> HIDE DEF moved, n
  <2>1. moved \in Seq(1..(n + 1)) /\ Len(moved) = n
    BY <1>1, <1>9
  <2>2. /\ idMap' \in Seq(1..(n + 1)) /\ Len(idMap') = n + 1
        /\ \A v \in 1..n : idMap'[v] = moved[v]
        /\ idMap'[n + 1] = pos
    BY <1>8, <1>9, <2>1, AppendProperties
  <2> QED BY <2>2, LenProperties
<1> QED BY <1>3, <1>6, <1>10 DEF NoEvents, pos

LEMMA RegisteredTable ==
  ASSUME TypeOK, SlicesInv, NEW in \in TaskInputs, RegisterTask(in)
  PROVE  LET e == idMap[in.id]
             first == table[e].taskAry = NULL
             pos == IF first THEN Len(tasks) + 1 ELSE Behind(e)
             new == [fct |-> in.fct, pid |-> in.pid]
         IN /\ in.id \in 1..NoEvents /\ e \in 1..NoEvents /\ pos \in 1..(Len(tasks) + 1)
            /\ NoEvents' = NoEvents
            /\ table' \in [1..NoEvents -> EventType] /\ table' \in Seq(EventType)
            /\ \A i \in 1..NoEvents :
                 /\ table'[i].prio = table[i].prio /\ table'[i].cycle = table[i].cycle
                 /\ table'[i].due = table[i].due /\ table'[i].state = table[i].state
                 /\ table'[i].next = table[i].next
                 /\ table'[i].noTasks = table[i].noTasks + (IF i = e THEN 1 ELSE 0)
                 /\ table'[i].taskAry =
                      IF i = e THEN IF first THEN pos ELSE table[i].taskAry
                      ELSE IF ~first /\ table[i].taskAry >= pos THEN table[i].taskAry + 1
                      ELSE table[i].taskAry
            /\ tasks' \in Seq([fct : STRING, pid : 0..NoProcesses])
            /\ Len(tasks') = Len(tasks) + 1 /\ Len(tasks') <= MaxTasks
            /\ \A k \in 1..(Len(tasks) + 1) :
                 tasks'[k] = IF k < pos THEN tasks[k] ELSE IF k = pos THEN new ELSE tasks[k - 1]
<1> DEFINE e == idMap[in.id]
           first == table[e].taskAry = NULL
           pos == IF first THEN Len(tasks) + 1 ELSE Behind(e)
           new == [fct |-> in.fct, pid |-> in.pid]
           n == NoEvents
           TaskType == [fct : STRING, pid : 0..NoProcesses]
<1>1. n \in Nat /\ in.id \in 1..n /\ e \in 1..n
  BY TableTypes DEF RegisterTask, RegistrationOk, TypeOK
<1>2. tasks \in Seq(TaskType) /\ Len(tasks) \in Nat /\ Len(tasks) < MaxTasks /\ MaxTasks \in Nat
  <2>1. tasks \in Seq(TaskType) /\ Len(tasks) < MaxTasks /\ MaxTasks \in Nat
    BY TableAssumption DEF TypeOK, RegisterTask, RegistrationOk
  <2> QED BY <2>1, LenProperties
<1>3. new \in TaskType
  <2>1. in.fct \in STRING /\ in.pid \in Nat /\ NoProcesses \in Nat
    BY TableAssumption
  <2>2. in.pid <= NoProcesses
    BY DEF RegisterTask, RegistrationOk
  <2> QED BY <2>1, <2>2
<1>4. \A i \in 1..n : /\ table[i] \in EventType /\ table[i].taskAry \in Nat
                      /\ table[i].noTasks \in Nat
                      /\ table[i].taskAry = 0 <=> table[i].noTasks = 0
                      /\ table[i].taskAry + table[i].noTasks <= Len(tasks) + 1
  BY TableTypes DEF SlicesInv, Behind, NULL
<1>5. pos \in 1..(Len(tasks) + 1) /\ (~first => table[e].taskAry >= 1 /\ table[e].noTasks >= 1)
  <2>1. /\ table[e].taskAry \in Nat /\ table[e].noTasks \in Nat
        /\ table[e].taskAry = 0 <=> table[e].noTasks = 0
        /\ table[e].taskAry + table[e].noTasks <= Len(tasks) + 1
    BY <1>1, <1>4
  <2>2. /\ first <=> table[e].taskAry = 0
        /\ pos = IF first THEN Len(tasks) + 1 ELSE table[e].taskAry + table[e].noTasks
    BY DEF Behind, NULL
  <2> HIDE DEF first, pos, e
  <2> QED BY <1>2, <2>1, <2>2
<1>6. tasks' = InsertAt(tasks, pos, new)
  BY DEF RegisterTask, Behind
<1>7. /\ tasks' \in Seq(TaskType) /\ Len(tasks') = Len(tasks) + 1
      /\ \A k \in 1..(Len(tasks) + 1) :
           tasks'[k] = IF k < pos THEN tasks[k] ELSE IF k = pos THEN new ELSE tasks[k - 1]
  <2> HIDE DEF pos, new, TaskType
  <2>1. IsPlace(pos, tasks)
    BY <1>5 DEF IsPlace
  <2>2. /\ InsertAt(tasks, pos, new) \in Seq(TaskType)
        /\ IsInserted(InsertAt(tasks, pos, new), tasks, pos, new)
    BY <1>2, <1>3, <2>1, InsertAtProperties
  <2>3. tasks' \in Seq(TaskType) /\ IsInserted(tasks', tasks, pos, new)
    BY <1>6, <2>2
  <2> QED BY <2>3 DEF IsInserted
<1>8. Len(tasks') <= MaxTasks
  BY <1>2, <1>7
<1>9. table' = [i \in 1..n |->
                  IF i = e THEN [table[i] EXCEPT !.noTasks = @ + 1,
                                                 !.taskAry = IF first THEN pos ELSE @]
                  ELSE IF ~first /\ table[i].taskAry >= pos THEN [table[i] EXCEPT !.taskAry = @ + 1]
                  ELSE table[i]]
  BY DEF RegisterTask, Moved, Behind
<1> HIDE DEF pos, first, e
<1>10. ASSUME NEW i \in 1..n
       PROVE  /\ table'[i] \in EventType
              /\ table'[i].prio = table[i].prio /\ table'[i].cycle = table[i].cycle
              /\ table'[i].due = table[i].due /\ table'[i].state = table[i].state
              /\ table'[i].next = table[i].next
              /\ table'[i].noTasks = table[i].noTasks + (IF i = e THEN 1 ELSE 0)
              /\ table'[i].taskAry =
                   IF i = e THEN IF first THEN pos ELSE table[i].taskAry
                   ELSE IF ~first /\ table[i].taskAry >= pos THEN table[i].taskAry + 1
                   ELSE table[i].taskAry
  <2> DEFINE f == table[i]
  <2>1. /\ f \in EventType /\ f.taskAry \in 0..MaxTasks /\ f.noTasks \in 0..MaxTasks
        /\ f.taskAry = 0 <=> f.noTasks = 0
        /\ f.taskAry + f.noTasks <= Len(tasks) + 1
    BY <1>4 DEF EventType
  <2>2. i = e => first = (f.taskAry = 0)
    BY DEF first, NULL
  <2>3. CASE i = e
    <3>1. table'[i] = [f EXCEPT !.noTasks = @ + 1, !.taskAry = IF first THEN pos ELSE @]
      BY <1>9, <2>3
    <3>2. f.noTasks + 1 \in 0..MaxTasks /\ (IF first THEN pos ELSE f.taskAry) \in 0..MaxTasks
      BY <1>2, <1>5, <2>1, <2>2, <2>3 DEF pos
    <3> HIDE DEF f
    <3> QED BY <2>1, <2>3, <3>1, <3>2 DEF EventType, f
  <2>4. CASE i # e /\ ~first /\ f.taskAry >= pos
    <3>1. table'[i] = [f EXCEPT !.taskAry = @ + 1]
      BY <1>9, <2>4
    <3>2. f.taskAry + 1 \in 0..MaxTasks
      BY <1>2, <1>5, <2>1, <2>4
    <3> HIDE DEF f
    <3> QED BY <2>1, <2>4, <3>1, <3>2 DEF EventType, f
  <2>5. CASE i # e /\ ~(~first /\ f.taskAry >= pos)
    <3>1. table'[i] = f
      BY <1>9, <2>5
    <3> QED BY <2>1, <2>5, <3>1
  <2> QED BY <2>3, <2>4, <2>5
<1>11. table' \in [1..n -> EventType] /\ table' \in Seq(EventType) /\ Len(table') = n
  <2>1. table' \in [1..n -> EventType]
    BY <1>9, <1>10
  <2> HIDE DEF n
  <2> QED BY <1>1, <2>1
<1>12. NoEvents' = NoEvents
  BY <1>11 DEF NoEvents
<1> QED BY <1>1, <1>5, <1>7, <1>8, <1>10, <1>11, <1>12 DEF e, first, pos
-----------------------------------------------------------------------------
(* The search tables are kept *)

LEMMA InitSearch == Init => SearchInv
<1> SUFFICES ASSUME Init PROVE SearchInv
  OBVIOUS
<1>1. NoEvents = 0 /\ Len(tasks) = 0
  BY DEF Init, NoEvents
<1>2. TypeOK
  <2>1. table \in Seq(EventType) /\ tasks \in Seq([fct : STRING, pid : 0..NoProcesses])
    BY DEF Init
  <2>2. idMap \in [1..NoEvents -> 1..NoEvents]
    BY <1>1 DEF Init
  <2>3. tiOs \in 0..(Modulus - 1)
    BY QuarterProperties DEF Init
  <2>4. MaxEvents \in Nat /\ MaxTasks \in Nat
    BY TableAssumption
  <2> QED BY <1>1, <2>1, <2>2, <2>3, <2>4 DEF Init, TypeOK
<1> QED BY <1>1, <1>2 DEF Init, SearchInv, Sorted, SlicesInv, PhaseInv, LinksFindTheFirst,
                          PrioMapFindsTheFirst

LEMMA CreateKeepsSearch ==
  ASSUME SearchInv, NEW in \in EventInputs, CreateEvent(in)
  PROVE  SearchInv'
<1> DEFINE pos == Position(in.prio)
           n == NoEvents
<1>1. TypeOK /\ Sorted /\ SlicesInv /\ PhaseInv
  BY DEF SearchInv
<1>2. /\ pos \in 1..Guard
      /\ \A i \in 1..n : i < pos <=> table[i].prio >= in.prio
      /\ n' = n + 1 /\ table' \in Seq(EventType)
      /\ \A k \in 1..(n + 1) :
           table'[k] = IF k < pos THEN table[k] ELSE IF k = pos THEN NewEvent(in) ELSE table[k - 1]
      /\ idMap' \in [1..(n + 1) -> 1..(n + 1)]
  BY <1>1, CreatedTable
<1> HIDE DEF pos
<1>3. /\ n \in Nat /\ Guard = n + 1 /\ n < MaxEvents /\ MaxEvents \in Nat
      /\ \A i \in 1..n : /\ table[i].prio \in Nat /\ table[i].taskAry \in Nat
                         /\ table[i].noTasks \in Nat
  <2>1. NoEvents < MaxEvents /\ MaxEvents \in Nat
    BY TableAssumption DEF CreateEvent
  <2>2. \A i \in 1..n : table[i].prio \in Nat
    BY <1>1, TableTypes
  <2> QED BY <1>1, <2>1, <2>2, TableTypes
<1>4. /\ UNCHANGED <<tasks, initTasks, prioMap, phase, tiOs, step, scan>> /\ phase = "config"
  BY DEF CreateEvent, clock
<1>5. /\ NewEvent(in).prio = in.prio /\ NewEvent(in).taskAry = 0 /\ NewEvent(in).noTasks = 0
      /\ in.prio \in Nat
  BY TableAssumption DEF NewEvent, NULL
<1> HIDE DEF n
<1>6. Sorted'
  <2> SUFFICES ASSUME NEW i \in 1..n', NEW j \in 1..n', i < j
               PROVE  table'[i].prio >= table'[j].prio
    BY DEF Sorted, n
  <2>1. \A k, l \in 1..n : k < l => table[k].prio >= table[l].prio
    BY <1>1 DEF Sorted, n
  <2>2. i \in 1..(n + 1) /\ j \in 1..(n + 1) /\ pos \in 1..(n + 1)
    BY <1>2, <1>3
  <2>3. CASE j < pos
    <3>1. i \in 1..n /\ j \in 1..n /\ i < pos
      BY <1>3, <2>2, <2>3
    <3>2. table'[i] = table[i] /\ table'[j] = table[j]
      BY <1>2, <2>2, <2>3, <3>1
    <3> QED BY <2>1, <3>1, <3>2
  <2>4. CASE j = pos
    <3>1. i \in 1..n /\ i < pos
      BY <1>3, <2>2, <2>4
    <3>2. table'[i] = table[i] /\ table'[j] = NewEvent(in)
      BY <1>2, <2>2, <2>4, <3>1
    <3>3. table[i].prio >= in.prio
      BY <1>2, <3>1
    <3> QED BY <1>5, <3>2, <3>3
  <2>5. CASE j > pos
    <3>1. j - 1 \in 1..n /\ table'[j] = table[j - 1] /\ ~(j - 1 < pos)
      BY <1>2, <1>3, <2>2, <2>5
    <3>2. table[j - 1].prio < in.prio
      <4>1. ~(table[j - 1].prio >= in.prio) /\ table[j - 1].prio \in Nat
        BY <1>2, <1>3, <3>1
      <4> QED BY <1>5, <4>1
    <3>3. CASE i < pos
      <4>1. i \in 1..n /\ table'[i] = table[i] /\ i < j - 1
        BY <1>2, <1>3, <2>2, <2>5, <3>3
      <4> QED BY <2>1, <3>1, <4>1
    <3>4. CASE i = pos
      <4>1. table'[i].prio = in.prio
        BY <1>2, <1>5, <2>2, <3>4
      <4> QED BY <1>3, <1>5, <3>1, <3>2, <4>1
    <3>5. CASE i > pos
      <4>1. i - 1 \in 1..n /\ table'[i] = table[i - 1] /\ i - 1 < j - 1
        BY <1>2, <1>3, <2>2, <3>5
      <4> QED BY <2>1, <3>1, <4>1
    <3> QED BY <2>2, <3>3, <3>4, <3>5
  <2> QED BY <2>2, <2>3, <2>4, <2>5
<1>7. SlicesInv'
  <2> DEFINE a == [i \in 1..n |-> table[i].taskAry]
             b == [i \in 1..n |-> table[i].noTasks]
             A == [i \in 1..(n + 1) |-> table'[i].taskAry]
             B == [i \in 1..(n + 1) |-> table'[i].noTasks]
             old == [i \in 1..(n + 1) |-> IF i < pos THEN i ELSE i - 1]
             l == Len(tasks)
  <2>1. /\ \A i \in 1..n : (a[i] = 0 <=> b[i] = 0) /\ a[i] + b[i] <= l + 1
        /\ \A i, j \in 1..n : i # j /\ a[i] # 0 /\ a[j] # 0
                               => a[i] + b[i] <= a[j] \/ a[j] + b[j] <= a[i]
    BY <1>1 DEF SlicesInv, Behind, NULL, n
  <2>2. ASSUME NEW i \in 1..(n + 1)
        PROVE  /\ i = pos => A[i] = 0 /\ B[i] = 0
               /\ i # pos => old[i] \in 1..n /\ A[i] = a[old[i]] /\ B[i] = b[old[i]]
    <3>1. A[i] = table'[i].taskAry /\ B[i] = table'[i].noTasks
      OBVIOUS
    <3>2. CASE i = pos
      BY <1>2, <1>5, <3>1, <3>2
    <3>3. CASE i # pos
      <4>1. old[i] \in 1..n /\ table'[i] = table[old[i]]
        BY <1>2, <1>3, <3>3
      <4> HIDE DEF old, A, B
      <4> QED BY <3>1, <3>3, <4>1
    <3> QED BY <3>2, <3>3
  <2>3. \A i, j \in 1..(n + 1) : i # j /\ i # pos /\ j # pos => old[i] # old[j]
    BY <1>2, <1>3
  <2>4. l \in Nat
    BY <1>1, LenProperties DEF TypeOK
  <2>5. \A i \in 1..(n + 1) : A[i] = table'[i].taskAry /\ B[i] = table'[i].noTasks
    OBVIOUS
  <2> HIDE DEF a, b, A, B, old, l
  <2>6. ASSUME NEW i \in 1..(n + 1)
        PROVE  (A[i] = 0 <=> B[i] = 0) /\ A[i] + B[i] <= l + 1
    <3>1. CASE i = pos
      BY <2>2, <2>4, <3>1
    <3>2. CASE i # pos
      BY <2>1, <2>2, <3>2
    <3> QED BY <3>1, <3>2
  <2>7. ASSUME NEW i \in 1..(n + 1), NEW j \in 1..(n + 1), i # j, A[i] # 0, A[j] # 0
        PROVE  A[i] + B[i] <= A[j] \/ A[j] + B[j] <= A[i]
    <3>1. i # pos /\ j # pos
      BY <2>2, <2>7
    <3>2. /\ old[i] \in 1..n /\ A[i] = a[old[i]] /\ B[i] = b[old[i]]
          /\ old[j] \in 1..n /\ A[j] = a[old[j]] /\ B[j] = b[old[j]] /\ old[i] # old[j]
      BY <2>2, <2>3, <2>7, <3>1
    <3> QED BY <2>1, <2>7, <3>2
  <2>8. Len(tasks') = l /\ n' = n + 1
    BY <1>2, <1>4 DEF l
  <2> QED BY <2>5, <2>6, <2>7, <2>8 DEF SlicesInv, Behind, NULL, n
<1>8. TypeOK'
  <2>1. n' <= MaxEvents /\ 1..Guard \subseteq 1..Guard' /\ scan \in 0..n'
    <3>1. Guard' = n' + 1 /\ scan \in 0..n
      BY <1>1 DEF Guard, NoEvents, TypeOK, n
    <3> QED BY <1>2, <1>3, <3>1
  <2>2. idMap' \in [1..n' -> 1..n']
    BY <1>2
  <2>3. prioMap' = <<>> \/ prioMap' \in [0..MaxPriority -> 1..Guard']
    <3>1. prioMap = <<>> \/ prioMap \in [0..MaxPriority -> 1..Guard]
      BY <1>1 DEF TypeOK
    <3> QED BY <1>4, <2>1, <3>1
  <2> QED BY <1>1, <1>2, <1>4, <2>1, <2>2, <2>3 DEF TypeOK, n
<1>9. PhaseInv'
  BY <1>1, <1>4 DEF PhaseInv
<1>10. LinksFindTheFirst' /\ PrioMapFindsTheFirst'
  BY <1>4 DEF LinksFindTheFirst, PrioMapFindsTheFirst
<1> QED BY <1>6, <1>7, <1>8, <1>9, <1>10 DEF SearchInv

LEMMA RegisterKeepsSearch ==
  ASSUME SearchInv, NEW in \in TaskInputs, RegisterTask(in)
  PROVE  SearchInv'
<1> DEFINE e == idMap[in.id]
           first == table[e].taskAry = NULL
           pos == IF first THEN Len(tasks) + 1 ELSE Behind(e)
           n == NoEvents
<1>1. TypeOK /\ Sorted /\ SlicesInv /\ PhaseInv
  BY DEF SearchInv
<1>2. /\ e \in 1..n /\ pos \in 1..(Len(tasks) + 1)
      /\ n' = n
      /\ table' \in Seq(EventType)
      /\ \A i \in 1..n :
           /\ table'[i].prio = table[i].prio
           /\ table'[i].noTasks = table[i].noTasks + (IF i = e THEN 1 ELSE 0)
           /\ table'[i].taskAry =
                IF i = e THEN IF first THEN pos ELSE table[i].taskAry
                ELSE IF ~first /\ table[i].taskAry >= pos THEN table[i].taskAry + 1
                ELSE table[i].taskAry
      /\ tasks' \in Seq([fct : STRING, pid : 0..NoProcesses])
      /\ Len(tasks') = Len(tasks) + 1 /\ Len(tasks') <= MaxTasks
  BY <1>1, RegisteredTable
<1>3. /\ first <=> table[e].taskAry = 0
      /\ pos = IF first THEN Len(tasks) + 1 ELSE table[e].taskAry + table[e].noTasks
  BY DEF Behind, NULL
<1> HIDE DEF e, first, pos
<1>4. UNCHANGED <<idMap, initTasks, prioMap, phase, tiOs, step, scan>> /\ phase = "config"
  BY DEF RegisterTask, clock
<1>5. Sorted'
  BY <1>1, <1>2 DEF Sorted
<1>6. SlicesInv'
  <2> DEFINE a == [i \in 1..n |-> table[i].taskAry]
             b == [i \in 1..n |-> table[i].noTasks]
             A == [i \in 1..n |-> table'[i].taskAry]
             B == [i \in 1..n |-> table'[i].noTasks]
             l == Len(tasks)
  <2>1. /\ \A i \in 1..n : (a[i] = 0 <=> b[i] = 0) /\ a[i] + b[i] <= l + 1
        /\ \A i, j \in 1..n : i # j /\ a[i] # 0 /\ a[j] # 0
                               => a[i] + b[i] <= a[j] \/ a[j] + b[j] <= a[i]
        /\ \A i \in 1..n : a[i] \in Nat /\ b[i] \in Nat
        /\ l \in Nat
    BY <1>1, LenProperties, TableTypes DEF SlicesInv, Behind, NULL, TypeOK
  <2>2. /\ first <=> a[e] = 0
        /\ pos = IF first THEN l + 1 ELSE a[e] + b[e]
        /\ \A i \in 1..n :
             /\ B[i] = b[i] + (IF i = e THEN 1 ELSE 0)
             /\ A[i] = IF i = e THEN IF first THEN pos ELSE a[i]
                       ELSE IF ~first /\ a[i] >= pos THEN a[i] + 1 ELSE a[i]
        /\ pos \in 1..(l + 1)
    BY <1>2, <1>3
  <2>6. \A i \in 1..n : A[i] = table'[i].taskAry /\ B[i] = table'[i].noTasks
    OBVIOUS
  <2> HIDE DEF a, b, A, B, l, n
  <2>3. ASSUME NEW i \in 1..n
        PROVE  (A[i] = 0 <=> B[i] = 0) /\ A[i] + B[i] <= l + 2
    <3>1. a[i] \in Nat /\ b[i] \in Nat /\ (a[i] = 0 <=> b[i] = 0) /\ a[i] + b[i] <= l + 1
      BY <2>1
    <3>2. CASE i = e
      BY <2>1, <2>2, <3>1, <3>2
    <3>3. CASE i # e
      BY <2>1, <2>2, <3>1, <3>3
    <3> QED BY <3>2, <3>3
  <2>4. ASSUME NEW i \in 1..n, NEW j \in 1..n, i # j, A[i] # 0, A[j] # 0
        PROVE  A[i] + B[i] <= A[j] \/ A[j] + B[j] <= A[i]
    <3>1. CASE first
      <4>1. CASE i = e
        BY <2>1, <2>2, <2>4, <3>1, <4>1
      <4>2. CASE j = e
        BY <2>1, <2>2, <2>4, <3>1, <4>2
      <4>3. CASE i # e /\ j # e
        BY <2>1, <2>2, <2>4, <3>1, <4>3
      <4> QED BY <4>1, <4>2, <4>3
    <3>2. CASE ~first
      <4>1. a[e] # 0 /\ b[e] # 0 /\ a[e] \in Nat /\ b[e] \in Nat
        BY <1>2, <2>1, <2>2, <3>2
      <4>2. a[i] # 0 /\ a[j] # 0 /\ a[i] \in Nat /\ b[i] \in Nat /\ a[j] \in Nat /\ b[j] \in Nat
        BY <2>1, <2>2, <2>4, <3>2, <4>1
      <4>3. a[i] + b[i] <= a[j] \/ a[j] + b[j] <= a[i]
        BY <2>1, <2>4, <4>2
      <4>4. /\ i # e => a[i] + b[i] <= a[e] \/ a[e] + b[e] <= a[i]
            /\ j # e => a[j] + b[j] <= a[e] \/ a[e] + b[e] <= a[j]
        BY <1>2, <2>1, <4>1, <4>2
      <4>5. CASE i = e
        BY <2>2, <2>4, <3>2, <4>1, <4>2, <4>3, <4>5
      <4>6. CASE j = e
        BY <2>2, <2>4, <3>2, <4>1, <4>2, <4>3, <4>6
      <4>7. CASE i # e /\ j # e
        BY <2>2, <2>4, <3>2, <4>1, <4>2, <4>3, <4>4, <4>7
      <4> QED BY <4>5, <4>6, <4>7
    <3> QED BY <3>1, <3>2
  <2>5. n' = n /\ Len(tasks') = l + 1
    BY <1>2 DEF l
  <2> QED BY <2>1, <2>3, <2>4, <2>5, <2>6 DEF SlicesInv, Behind, NULL, n
<1>7. TypeOK'
  <2>1. Guard' = Guard
    BY <1>2 DEF Guard
  <2>2. 1..n' = 1..n
    BY <1>2
  <2> QED BY <1>1, <1>2, <1>4, <2>1, <2>2 DEF TypeOK
<1>8. PhaseInv'
  BY <1>1, <1>4 DEF PhaseInv
<1>9. LinksFindTheFirst' /\ PrioMapFindsTheFirst'
  BY <1>4 DEF LinksFindTheFirst, PrioMapFindsTheFirst
<1> QED BY <1>5, <1>6, <1>7, <1>8, <1>9 DEF SearchInv
(* Searches depend on the priorities only.                                 *)
LEMMA SameGroups ==
  ASSUME TypeOK, NoEvents' = NoEvents,
         \A i \in 1..NoEvents : table'[i].prio = table[i].prio
  PROVE  /\ Guard' = Guard
         /\ \A i \in 1..NoEvents :
              ({j \in 1..Guard : j # i /\ Prio(j) <= Prio(i)})'
                = {j \in 1..Guard : j # i /\ Prio(j) <= Prio(i)}
         /\ \A p : ({i \in 1..Guard : Prio(i) <= p})' = {i \in 1..Guard : Prio(i) <= p}
<1>1. NoEvents \in Nat /\ Guard = NoEvents + 1
  BY TableTypes
<1>2. Guard' = Guard
  BY DEF Guard
<1>3. ASSUME NEW i \in 1..Guard PROVE Prio(i)' = Prio(i)
  <2>1. CASE i = Guard
    BY <1>2, <2>1 DEF Prio
  <2>2. CASE i # Guard
    <3>1. i \in 1..NoEvents
      BY <1>1, <2>2
    <3> QED BY <1>2, <2>2, <3>1 DEF Prio
  <2> QED BY <2>1, <2>2
<1>4. ASSUME NEW i \in 1..NoEvents
      PROVE  ({j \in 1..Guard : j # i /\ Prio(j) <= Prio(i)})'
               = {j \in 1..Guard : j # i /\ Prio(j) <= Prio(i)}
  <2>1. i \in 1..Guard
    BY <1>1
  <2> QED BY <1>2, <1>3, <2>1
<1>5. \A p : ({i \in 1..Guard : Prio(i) <= p})' = {i \in 1..Guard : Prio(i) <= p}
  BY <1>2, <1>3
<1> QED BY <1>2, <1>4, <1>5

LEMMA QuietKeepsSearch ==
  ASSUME SearchInv, NoEvents' = NoEvents,
         \A i \in 1..NoEvents :
           /\ table'[i].prio = table[i].prio /\ table'[i].next = table[i].next
           /\ table'[i].taskAry = table[i].taskAry /\ table'[i].noTasks = table[i].noTasks,
         UNCHANGED <<tasks, prioMap>>,
         phase' = phase \/ phase \in {"init", "run"}
  PROVE  Sorted' /\ SlicesInv' /\ LinksFindTheFirst' /\ PrioMapFindsTheFirst'
<1>1. TypeOK /\ Sorted /\ SlicesInv /\ LinksFindTheFirst /\ PrioMapFindsTheFirst
  BY DEF SearchInv
<1>2. /\ Guard' = Guard
      /\ \A i \in 1..NoEvents :
           ({j \in 1..Guard : j # i /\ Prio(j) <= Prio(i)})'
             = {j \in 1..Guard : j # i /\ Prio(j) <= Prio(i)}
      /\ \A p : ({i \in 1..Guard : Prio(i) <= p})' = {i \in 1..Guard : Prio(i) <= p}
  BY <1>1, SameGroups
<1>3. Sorted'
  BY <1>1 DEF Sorted
<1>4. SlicesInv'
  <2>1. \A i \in 1..NoEvents : Behind(i)' = Behind(i)
    BY DEF Behind
  <2> QED BY <1>1, <2>1 DEF SlicesInv
<1>5. LinksFindTheFirst'
  BY <1>1, <1>2 DEF LinksFindTheFirst
<1>6. PrioMapFindsTheFirst'
  BY <1>1, <1>2 DEF PrioMapFindsTheFirst
<1> QED BY <1>3, <1>4, <1>5, <1>6

LEMMA InitKernelKeepsSearch ==
  ASSUME SearchInv, InitKernel
  PROVE  SearchInv'
<1>1. TypeOK /\ Sorted /\ SlicesInv /\ PhaseInv
  BY DEF SearchInv
<1>2. UNCHANGED <<idMap, tasks, initTasks, scan>> /\ phase = "config"
  BY DEF InitKernel
<1>3. CASE ~ConfigurationOk
  <2>1. UNCHANGED <<table, prioMap, tiOs, step>> /\ phase' = "failed"
    BY <1>3 DEF InitKernel
  <2>2. TypeOK'
    BY <1>1, <1>2, <2>1 DEF TypeOK, NoEvents, Guard
  <2>3. Sorted' /\ SlicesInv'
    BY <1>1, <1>2, <2>1 DEF Sorted, SlicesInv, NoEvents, Behind
  <2>4. PhaseInv' /\ LinksFindTheFirst' /\ PrioMapFindsTheFirst'
    BY <1>1, <1>2, <2>1 DEF PhaseInv, LinksFindTheFirst, PrioMapFindsTheFirst
  <2> QED BY <2>2, <2>3, <2>4 DEF SearchInv
<1>4. CASE ConfigurationOk
  <2>1. /\ phase' = "init" /\ tiOs' = Modulus - 1 /\ step' = 0
        /\ table' = [i \in 1..NoEvents |-> [table[i] EXCEPT !.next = Link(i)]]
        /\ prioMap' = [p \in 0..MaxPriority |->
                         Max({1} \cup {i \in 1..Guard : IsFirst(i) /\ p \in PrioEntry(i)})]
    BY <1>4 DEF InitKernel
  <2>2. /\ NoEvents \in Nat /\ Guard = NoEvents + 1 /\ NoEvents <= MaxEvents /\ MaxEvents \in Nat
        /\ NoEvents > 0
    BY <1>1, <1>4, TableAssumption, TableTypes DEF TypeOK, ConfigurationOk
  <2>3. ASSUME NEW i \in 1..NoEvents
        PROVE  /\ table'[i] \in EventType
               /\ table'[i].prio = table[i].prio /\ table'[i].next = Link(i)
               /\ table'[i].taskAry = table[i].taskAry /\ table'[i].noTasks = table[i].noTasks
    <3>1. table[i] \in EventType /\ Link(i) \in 1..Guard
      BY <1>1, TableTypes, LinkIs
    <3>2. Link(i) \in 0..(MaxEvents + 1)
      BY <2>2, <3>1
    <3>3. table'[i] = [table[i] EXCEPT !.next = Link(i)]
      BY <2>1
    <3> DEFINE l == Link(i)
    <3> HIDE DEF l
    <3>4. table'[i] = [table[i] EXCEPT !.next = l] /\ l \in 0..(MaxEvents + 1)
      BY <3>2, <3>3 DEF l
    <3>5. /\ table'[i] \in EventType
          /\ table'[i].prio = table[i].prio /\ table'[i].next = l
          /\ table'[i].taskAry = table[i].taskAry /\ table'[i].noTasks = table[i].noTasks
      BY <3>1, <3>4 DEF EventType
    <3> QED BY <3>5 DEF l
  <2>4. table' \in Seq(EventType) /\ NoEvents' = NoEvents
    <3>1. table' \in [1..NoEvents -> EventType]
      <4>1. table' = [i \in 1..NoEvents |-> table'[i]]
        BY <2>1
      <4> QED BY <2>3, <4>1
    <3> DEFINE n == NoEvents
    <3> HIDE DEF n
    <3>2. n \in Nat /\ table' \in [1..n -> EventType]
      BY <2>2, <3>1 DEF n
    <3>3. table' \in Seq(EventType) /\ Len(table') = n
      BY <3>2
    <3> QED BY <3>3 DEF n, NoEvents
  <2>5. /\ Guard' = Guard
        /\ \A i \in 1..NoEvents :
             ({j \in 1..Guard : j # i /\ Prio(j) <= Prio(i)})'
               = {j \in 1..Guard : j # i /\ Prio(j) <= Prio(i)}
        /\ \A p : ({i \in 1..Guard : Prio(i) <= p})' = {i \in 1..Guard : Prio(i) <= p}
    BY <1>1, <2>3, <2>4, SameGroups
  <2>6. Sorted'
    BY <1>1, <2>3, <2>4 DEF Sorted
  <2>7. SlicesInv'
    <3>1. \A i \in 1..NoEvents : Behind(i)' = Behind(i)
      BY <2>3 DEF Behind
    <3> QED BY <1>1, <1>2, <2>3, <2>4, <3>1 DEF SlicesInv
  <2>8. LinksFindTheFirst'
    <3> SUFFICES ASSUME NEW i \in 1..NoEvents
                 PROVE  table'[i].next = (Min({j \in 1..Guard : j # i /\ Prio(j) <= Prio(i)}))'
      BY <2>4 DEF LinksFindTheFirst
    <3>1. table'[i].next = Min({j \in 1..Guard : j # i /\ Prio(j) <= Prio(i)})
      BY <1>1, <2>3, LinkIs
    <3> QED BY <2>5, <3>1
  <2>9. ASSUME NEW p \in 0..MaxPriority
        PROVE  prioMap'[p] = Min({i \in 1..Guard : Prio(i) <= p}) /\ prioMap'[p] \in 1..Guard
    <3>1. prioMap'[p] = Max({1} \cup {i \in 1..Guard : IsFirst(i) /\ p \in PrioEntry(i)})
      BY <2>1
    <3> QED BY <1>1, <3>1, PrioMapIs
  <2>10. PrioMapFindsTheFirst'
    <3> SUFFICES ASSUME NEW p \in 0..MaxPriority
                 PROVE  prioMap'[p] = (Min({i \in 1..Guard : Prio(i) <= p}))'
      BY DEF PrioMapFindsTheFirst
    <3> QED BY <2>5, <2>9
  <2>11. prioMap' \in [0..MaxPriority -> 1..Guard]
    <3>1. prioMap' = [p \in 0..MaxPriority |-> prioMap'[p]]
      BY <2>1
    <3> QED BY <2>9, <3>1
  <2>12. TypeOK'
    <3>1. tiOs' \in 0..(Modulus - 1)
      BY <2>1, QuarterProperties
    <3> QED BY <1>1, <1>2, <2>1, <2>2, <2>4, <2>5, <2>11, <3>1 DEF TypeOK
  <2>13. PhaseInv'
    BY <2>1, <2>2, <2>4, <2>5, <2>11 DEF PhaseInv
  <2> QED BY <2>6, <2>7, <2>8, <2>10, <2>12, <2>13 DEF SearchInv
<1> QED BY <1>3, <1>4
(* A tick and the scheduler change times and states of events only.        *)
LEMMA EventChanged ==
  ASSUME TypeOK, NEW i \in 1..NoEvents, NEW f \in EventType, table' = [table EXCEPT ![i] = f]
  PROVE  /\ table' \in Seq(EventType) /\ NoEvents' = NoEvents /\ Guard' = Guard
         /\ \A k \in 1..NoEvents : table'[k] = IF k = i THEN f ELSE table[k]
<1>1. table \in Seq(EventType) /\ i \in 1..Len(table)
  BY DEF TypeOK, NoEvents
<1>2. /\ [table EXCEPT ![i] = f] \in Seq(EventType)
      /\ Len([table EXCEPT ![i] = f]) = Len(table)
      /\ \A k \in 1..Len(table) : [table EXCEPT ![i] = f][k] = IF k = i THEN f ELSE table[k]
  BY <1>1, ExceptSeq
<1> QED BY <1>2 DEF NoEvents, Guard

LEMMA EventKeepsSearch ==
  ASSUME SearchInv, NEW i \in 1..NoEvents, NEW f \in EventType,
         table' = table \/ table' = [table EXCEPT ![i] = f],
         f.prio = table[i].prio, f.next = table[i].next,
         f.taskAry = table[i].taskAry, f.noTasks = table[i].noTasks,
         UNCHANGED <<idMap, tasks, initTasks, prioMap, phase, tiOs, step>>,
         scan' \in 0..NoEvents, scan' # 0 => phase \in {"init", "run"}
  PROVE  SearchInv'
<1>1. TypeOK /\ PhaseInv
  BY DEF SearchInv
<1>2. /\ table' \in Seq(EventType) /\ NoEvents' = NoEvents /\ Guard' = Guard
      /\ \A k \in 1..NoEvents : table'[k] = table[k] \/ (k = i /\ table'[k] = f)
  <2>1. CASE table' = table
    BY <1>1, <2>1 DEF TypeOK, NoEvents, Guard
  <2>2. CASE table' = [table EXCEPT ![i] = f]
    <3>1. /\ table' \in Seq(EventType) /\ NoEvents' = NoEvents /\ Guard' = Guard
          /\ \A k \in 1..NoEvents : table'[k] = IF k = i THEN f ELSE table[k]
      BY <1>1, <2>2, EventChanged
    <3> QED BY <3>1
  <2> QED BY <2>1, <2>2
<1>3. \A k \in 1..NoEvents :
        /\ table'[k].prio = table[k].prio /\ table'[k].next = table[k].next
        /\ table'[k].taskAry = table[k].taskAry /\ table'[k].noTasks = table[k].noTasks
  BY <1>2
<1>4. Sorted' /\ SlicesInv' /\ LinksFindTheFirst' /\ PrioMapFindsTheFirst'
  BY <1>2, <1>3, QuietKeepsSearch
<1>5. TypeOK'
  BY <1>1, <1>2 DEF TypeOK
<1>6. PhaseInv'
  BY <1>1, <1>2 DEF PhaseInv
<1> QED BY <1>4, <1>5, <1>6 DEF SearchInv

LEMMA CheckedEvent ==
  ASSUME SearchInv, CheckEventDue
  PROVE  LET e == table[scan]
             f == [Triggered(e) EXCEPT !.due = NextDue(e)]
         IN /\ scan \in 1..NoEvents /\ e \in EventType /\ f \in EventType
            /\ f.prio = e.prio /\ f.next = e.next /\ f.taskAry = e.taskAry /\ f.noTasks = e.noTasks
            /\ f.cycle = e.cycle /\ f.due = NextDue(e) /\ f.state = "triggered"
            /\ table' = IF e.cycle > 0 /\ IsDue(e) THEN [table EXCEPT ![scan] = f] ELSE table
<1> DEFINE e == table[scan]
           f == [Triggered(e) EXCEPT !.due = NextDue(e)]
<1>1. scan \in 1..NoEvents /\ e \in EventType
  <2>1. NoEvents \in Nat /\ scan \in 0..NoEvents /\ scan # 0
    BY TableTypes DEF SearchInv, CheckEventDue, TypeOK
  <2>2. scan \in 1..NoEvents
    BY <2>1
  <2> QED BY <2>2, TableTypes DEF SearchInv
<1>2. table' = IF e.cycle > 0 /\ IsDue(e) THEN [table EXCEPT ![scan] = f] ELSE table
  BY DEF CheckEventDue
<1> HIDE DEF e
<1>3. NextDue(e) \in 0..(Modulus - 1)
  <2>1. e.due \in Int /\ e.cycle \in Int
    BY <1>1, QuarterProperties DEF EventType
  <2>2. e.due + e.cycle \in Int
    BY <2>1
  <2> QED BY <2>2, QuarterProperties DEF NextDue
<1>4. /\ f \in EventType
      /\ f.prio = e.prio /\ f.next = e.next /\ f.taskAry = e.taskAry /\ f.noTasks = e.noTasks
      /\ f.cycle = e.cycle /\ f.due = NextDue(e) /\ f.state = "triggered"
  BY <1>1, <1>3 DEF EventType, Triggered
<1> QED BY <1>1, <1>2, <1>4 DEF e

LEMMA CheckKeepsSearch == SearchInv /\ CheckEventDue => SearchInv'
<1> SUFFICES ASSUME SearchInv, CheckEventDue PROVE SearchInv'
  OBVIOUS
<1> DEFINE e == table[scan]
           f == [Triggered(e) EXCEPT !.due = NextDue(e)]
<1>1. /\ scan \in 1..NoEvents /\ e \in EventType /\ f \in EventType
      /\ f.prio = e.prio /\ f.next = e.next /\ f.taskAry = e.taskAry /\ f.noTasks = e.noTasks
      /\ table' = table \/ table' = [table EXCEPT ![scan] = f]
  BY CheckedEvent
<1> HIDE DEF f
<1>2. UNCHANGED <<idMap, tasks, initTasks, prioMap, phase, tiOs, step>>
  BY DEF CheckEventDue
<1>3. scan' \in 0..NoEvents
  <2>1. NoEvents \in Nat
    BY TableTypes DEF SearchInv
  <2> QED BY <1>1, <2>1 DEF CheckEventDue
<1>4. phase \in {"init", "run"}
  BY <1>1 DEF SearchInv, PhaseInv, TypeOK
<1> QED BY <1>1, <1>2, <1>3, <1>4, EventKeepsSearch

LEMMA StateKeepsSearch ==
  ASSUME SearchInv, NEW k \in 1..NoEvents, NEW s \in {"idle", "triggered"},
         table' = [table EXCEPT ![k].state = s], phase \in {"init", "run"},
         UNCHANGED <<idMap, tasks, initTasks, prioMap, phase, clock>>
  PROVE  SearchInv'
<1> DEFINE f == [table[k] EXCEPT !.state = s]
<1>1. table[k] \in EventType
  BY TableTypes DEF SearchInv
<1>2. /\ f \in EventType
      /\ f.prio = table[k].prio /\ f.next = table[k].next
      /\ f.taskAry = table[k].taskAry /\ f.noTasks = table[k].noTasks
  BY <1>1 DEF EventType
<1>3. table' = [table EXCEPT ![k] = f]
  OBVIOUS
<1>4. scan' \in 0..NoEvents /\ UNCHANGED <<tiOs, step>>
  BY DEF SearchInv, TypeOK, clock
<1> HIDE DEF f
<1> QED BY <1>2, <1>3, <1>4, EventKeepsSearch

LEMMA TriggerKeepsSearch ==
  ASSUME SearchInv, NEW id, TriggerEvent(id)
  PROVE  SearchInv'
<1>1. /\ id \in 1..NoEvents /\ phase \in {"init", "run"}
      /\ table' = [table EXCEPT ![idMap[id]].state = "triggered"]
      /\ UNCHANGED <<idMap, tasks, initTasks, prioMap, phase, clock>>
  BY DEF TriggerEvent, Triggered
<1>2. idMap[id] \in 1..NoEvents
  BY <1>1 DEF SearchInv, TypeOK
<1> QED BY <1>1, <1>2, StateKeepsSearch

LEMMA ServeKeepsSearch ==
  ASSUME SearchInv, NEW i, ServeEvent(i)
  PROVE  SearchInv'
<1>1. /\ i \in 1..NoEvents /\ phase \in {"init", "run"}
      /\ table' = [table EXCEPT ![i].state = "idle"]
      /\ UNCHANGED <<idMap, tasks, initTasks, prioMap, phase, clock>>
  BY DEF ServeEvent
<1> QED BY <1>1, StateKeepsSearch

(* The table remains as it is.                                             *)
LEMMA OthersKeepSearch ==
  ASSUME SearchInv,
         \/ \E in \in TaskInputs : RegisterInitTask(in)
         \/ ReleaseScheduler \/ OnOsTimerTick \/ UNCHANGED vars
  PROVE  SearchInv'
<1>1. TypeOK /\ PhaseInv /\ NoEvents \in Nat
  BY TableTypes DEF SearchInv
<1>2. UNCHANGED <<table, idMap, tasks, prioMap>>
  BY DEF RegisterInitTask, ReleaseScheduler, OnOsTimerTick, vars
<1>3. NoEvents' = NoEvents /\ Guard' = Guard
  BY <1>2 DEF NoEvents, Guard
<1>4. phase' = phase \/ phase \in {"init", "run"}
  BY DEF RegisterInitTask, ReleaseScheduler, OnOsTimerTick, vars
<1>5. Sorted' /\ SlicesInv' /\ LinksFindTheFirst' /\ PrioMapFindsTheFirst'
  BY <1>2, <1>3, <1>4, QuietKeepsSearch
<1>6. TypeOK' /\ PhaseInv'
  <2>1. CASE \E in \in TaskInputs : RegisterInitTask(in)
    <3>1. PICK in \in TaskInputs : RegisterInitTask(in)
      BY <2>1
    <3>2. in.pid \in 0..NoProcesses
      <4>1. in.pid \in Nat /\ NoProcesses \in Nat
        BY TableAssumption
      <4> QED BY <3>1, <4>1 DEF RegisterInitTask
    <3>3. initTasks' = initTasks \cup {in.pid} /\ UNCHANGED <<phase, clock>>
      BY <3>1 DEF RegisterInitTask
    <3> QED BY <1>1, <1>2, <1>3, <3>2, <3>3 DEF TypeOK, PhaseInv, clock
  <2>2. CASE ReleaseScheduler
    <3>1. UNCHANGED <<initTasks, tiOs, scan>> /\ phase = "init" /\ phase' = "run" /\ step' = Step
      BY <2>2 DEF ReleaseScheduler
    <3> QED BY <1>1, <1>2, <1>3, <3>1 DEF TypeOK, PhaseInv
  <2>3. CASE OnOsTimerTick
    <3>1. /\ UNCHANGED <<initTasks, phase, step>> /\ phase \in {"init", "run"}
          /\ tiOs' = Wrapped(tiOs + step) /\ scan' = 1
      BY <2>3 DEF OnOsTimerTick
    <3>2. tiOs' \in 0..(Modulus - 1)
      <4>1. tiOs \in Int /\ step \in Int
        BY <1>1, TableAssumption, QuarterProperties DEF TypeOK
      <4>2. tiOs + step \in Int
        BY <4>1
      <4> QED BY <3>1, <4>2, QuarterProperties
    <3>3. phase = "init" => step = 0 /\ tiOs = Modulus - 1 /\ Wrapped(Modulus - 1) = Modulus - 1
      <4> DEFINE m == Modulus
      <4>1. m \in Nat \ {0}
        BY QuarterProperties
      <4> HIDE DEF m
      <4>2. (m - 1) % m = m - 1
        BY <4>1
      <4> QED BY <1>1, <4>2 DEF PhaseInv, Wrapped, m
    <3>4. phase = "init" => tiOs' = Modulus - 1
      <4> SUFFICES ASSUME phase = "init" PROVE tiOs' = Modulus - 1
        OBVIOUS
      <4>1. tiOs + step = Modulus - 1
        BY <3>3, QuarterProperties
      <4> QED BY <3>1, <3>3, <4>1
    <3>5. scan' \in 0..NoEvents
      BY <1>1, <3>1 DEF PhaseInv
    <3> QED BY <1>1, <1>2, <1>3, <3>1, <3>2, <3>4, <3>5 DEF TypeOK, PhaseInv
  <2>4. CASE UNCHANGED vars
    BY <1>1, <1>2, <1>3, <2>4 DEF TypeOK, PhaseInv, vars
  <2> QED BY <2>1, <2>2, <2>3, <2>4
<1> QED BY <1>5, <1>6 DEF SearchInv

LEMMA NextKeepsSearch == SearchInv /\ [Next]_vars => SearchInv'
<1> SUFFICES ASSUME SearchInv, [Next]_vars PROVE SearchInv'
  OBVIOUS
<1>1. CASE \E in \in EventInputs : CreateEvent(in)
  BY <1>1, CreateKeepsSearch
<1>2. CASE \E in \in TaskInputs : RegisterTask(in)
  BY <1>2, RegisterKeepsSearch
<1>3. CASE InitKernel
  BY <1>3, InitKernelKeepsSearch
<1>4. CASE CheckEventDue
  BY <1>4, CheckKeepsSearch
<1>5. CASE \E i \in 1..MaxEvents : TriggerEvent(i) \/ ServeEvent(i)
  BY <1>5, TriggerKeepsSearch, ServeKeepsSearch
<1>6. CASE \/ \E in \in TaskInputs : RegisterInitTask(in)
           \/ ReleaseScheduler \/ OnOsTimerTick \/ UNCHANGED vars
  BY <1>6, OthersKeepSearch
<1> QED BY <1>1, <1>2, <1>3, <1>4, <1>5, <1>6 DEF Next

(* Whatever is configured in which order: from any priority and from any   *)
(* event the search tables lead to the most urgent event that comes next   *)
(* (rtos_scheduler.c:1395, 1421), and no time and no index leaves its type.*)
THEOREM TablesAreRight == Spec => []TablesSteerTheSearch
<1>1. SearchInv => TablesSteerTheSearch
  BY DEF SearchInv, TablesSteerTheSearch
<1> QED BY <1>1, InitSearch, NextKeepsSearch, PTL DEF Spec
-----------------------------------------------------------------------------
(* Times *)

(* x and y are the same time of the clock.                                 *)
SameTime(x, y) == \E k \in Int : x - y = k * Modulus

LEMMA SameTimeChain ==
  ASSUME NEW x \in Int, NEW y \in Int, NEW z \in Int, SameTime(x, y), SameTime(y, z)
  PROVE  SameTime(x, z)
<1> DEFINE m == Modulus
<1>1. m \in Nat
  BY QuarterProperties
<1>2. PICK k \in Int : x - y = k * m
  BY DEF SameTime
<1>3. PICK l \in Int : y - z = l * m
  BY DEF SameTime
<1> HIDE DEF m
<1>4. (k + l) * m = k * m + l * m /\ k + l \in Int
  BY <1>1
<1> DEFINE u == k * m
           v == l * m
<1>5. u \in Int /\ v \in Int /\ x - y = u /\ y - z = v
  BY <1>1, <1>2, <1>3
<1> HIDE DEF u, v
<1>6. x - z = u + v
  BY <1>5
<1>7. x - z = (k + l) * m
  BY <1>4, <1>6 DEF u, v
<1> QED BY <1>4, <1>7 DEF SameTime, m

LEMMA SameTimeShift ==
  ASSUME NEW x \in Int, NEW y \in Int, NEW z \in Int, SameTime(x, y)
  PROVE  SameTime(x + z, y + z) /\ SameTime(x - z, y - z)
<1> DEFINE m == Modulus
<1>1. PICK k \in Int : x - y = k * m
  BY DEF SameTime
<1>2. (x + z) - (y + z) = x - y /\ (x - z) - (y - z) = x - y
  OBVIOUS
<1> QED BY <1>1, <1>2 DEF SameTime

LEMMA SameTimeFrom ==
  ASSUME NEW x \in Int, NEW y \in Int, NEW z \in Int, SameTime(x, y)
  PROVE  SameTime(z - x, z - y)
<1> DEFINE m == Modulus
<1>1. m \in Nat
  BY QuarterProperties
<1>2. PICK k \in Int : x - y = k * m
  BY DEF SameTime
<1> HIDE DEF m
<1>3. (-k) * m = -(k * m) /\ -k \in Int
  BY <1>1
<1> DEFINE u == k * m
<1>4. u \in Int /\ x - y = u
  BY <1>1, <1>2
<1> HIDE DEF u
<1>5. (z - x) - (z - y) = -u
  BY <1>4
<1>6. (z - x) - (z - y) = (-k) * m
  BY <1>3, <1>5 DEF u
<1> QED BY <1>3, <1>6 DEF SameTime, m

LEMMA WrappedIsSame ==
  ASSUME NEW x \in Int
  PROVE  SameTime(Wrapped(x), x) /\ Wrapped(x) \in Int
<1> DEFINE m == Modulus
           z == x % m
<1>1. m \in Nat \ {0}
  BY QuarterProperties
<1> HIDE DEF m
<1>2. z \in Int /\ x = (x \div m) * m + z /\ x \div m \in Int
  BY <1>1
<1> HIDE DEF z
<1>3. (-(x \div m)) * m = -((x \div m) * m) /\ -(x \div m) \in Int
  BY <1>1, <1>2
<1> DEFINE u == (x \div m) * m
<1>4. u \in Int /\ x = u + z
  BY <1>1, <1>2
<1> HIDE DEF u
<1>5. z - x = -u
  BY <1>2, <1>4
<1>6. z - x = (-(x \div m)) * m
  BY <1>3, <1>5 DEF u
<1> QED BY <1>2, <1>3, <1>6 DEF SameTime, Wrapped, z, m

(* A signed difference is the only one of its times in its half of the     *)
(* range.                                                                  *)
LEMMA SignedProperties ==
  ASSUME NEW x \in Int
  PROVE  SameTime(x, Signed(x)) /\ Signed(x) \in (-2 * Quarter)..(2 * Quarter - 1)
<1> DEFINE m == Modulus
           w == Wrapped(x)
<1>1. Quarter \in Nat \ {0} /\ m = 4 * Quarter /\ 2^(Width - 1) = 2 * Quarter /\ w \in 0..(m - 1)
  BY QuarterProperties
<1>2. SameTime(w, x)
  BY WrappedIsSame
<1>3. PICK k \in Int : w - x = k * m
  BY <1>2 DEF SameTime
<1>4. Signed(x) = IF w < 2 * Quarter THEN w ELSE w - m
  BY <1>1 DEF Signed
<1> HIDE DEF m, w
<1> DEFINE u == k * m
<1>5. u \in Int /\ w - x = u
  BY <1>1, <1>3
<1>6. -u = (-k) * m /\ -k \in Int /\ -u + m = (1 - k) * m /\ 1 - k \in Int
  BY <1>1
<1> HIDE DEF u
<1>7. CASE w < 2 * Quarter
  <2>1. x - Signed(x) = -u
    BY <1>1, <1>4, <1>5, <1>7
  <2>2. SameTime(x, Signed(x))
    BY <1>6, <2>1 DEF SameTime, m
  <2> QED BY <1>1, <1>4, <1>7, <2>2
<1>8. CASE w >= 2 * Quarter
  <2>1. x - Signed(x) = -u + m
    BY <1>1, <1>4, <1>5, <1>8
  <2>2. SameTime(x, Signed(x))
    BY <1>6, <2>1 DEF SameTime, m
  <2> QED BY <1>1, <1>4, <1>8, <2>2
<1> QED BY <1>1, <1>7, <1>8

LEMMA SignedIs ==
  ASSUME NEW x \in Int, NEW r \in (-2 * Quarter)..(2 * Quarter - 1), SameTime(x, r)
  PROVE  Signed(x) = r
<1> DEFINE m == Modulus
           s == Signed(x)
<1>1. Quarter \in Nat \ {0} /\ m = 4 * Quarter
  BY QuarterProperties
<1>2. SameTime(x, s) /\ s \in (-2 * Quarter)..(2 * Quarter - 1)
  BY SignedProperties
<1>3. PICK k \in Int : x - s = k * m
  BY <1>2 DEF SameTime
<1>4. PICK l \in Int : x - r = l * m
  BY DEF SameTime
<1> HIDE DEF m, s
<1> DEFINE u == k * m
           v == l * m
<1>5. u \in Int /\ v \in Int /\ x - s = u /\ x - r = v
  BY <1>1, <1>3, <1>4
<1>6. u - v = (k - l) * m
  BY <1>1
<1> HIDE DEF u, v
<1>7. r - s = (k - l) * m /\ r - s > -m /\ r - s < m
  <2>1. r - s = u - v
    BY <1>1, <1>2, <1>5
  <2> QED BY <1>1, <1>2, <1>6, <2>1
<1>8. k - l = 0
  <2> DEFINE d == k - l
  <2>1. d \in Int /\ d * m > -m /\ d * m < m /\ m \in Nat \ {0}
    BY <1>1, <1>7
  <2> HIDE DEF d
  <2>2. ~(d >= 1) /\ ~(d <= -1)
    BY <2>1
  <2>3. d = 0
    BY <2>1, <2>2
  <2> QED BY <2>3 DEF d
<1>9. r - s = 0
  BY <1>1, <1>7, <1>8
<1>10. s = r
  BY <1>1, <1>2, <1>9
<1> QED BY <1>10 DEF s

-----------------------------------------------------------------------------
(* Events and their IDs *)

LEMMA CreatedEvents ==
  ASSUME TypeOK, Sorted, NEW in \in EventInputs, CreateEvent(in)
  PROVE  /\ NoEvents' = NoEvents + 1
         /\ \A v \in 1..NoEvents : EventOf(v)' = EventOf(v)
         /\ \A v : v = NoEvents + 1 => EventOf(v)' = NewEvent(in)
<1> DEFINE pos == Position(in.prio)
           n == NoEvents
<1>1. /\ pos \in 1..Guard
      /\ n' = n + 1
      /\ \A k \in 1..(n + 1) :
           table'[k] = IF k < pos THEN table[k] ELSE IF k = pos THEN NewEvent(in) ELSE table[k - 1]
      /\ \A v \in 1..n : idMap'[v] = IF idMap[v] >= pos THEN idMap[v] + 1 ELSE idMap[v]
      /\ idMap'[n + 1] = pos
  BY CreatedTable
<1>2. n \in Nat /\ Guard = n + 1 /\ \A v \in 1..n : idMap[v] \in 1..n
  BY TableTypes DEF TypeOK
<1> HIDE DEF pos, n
<1>3. ASSUME NEW v \in 1..n PROVE table'[idMap'[v]] = table[idMap[v]]
  <2> DEFINE i == idMap[v]
  <2>1. i \in 1..n /\ idMap'[v] = IF i >= pos THEN i + 1 ELSE i
    BY <1>1, <1>2
  <2> HIDE DEF i
  <2>2. CASE i >= pos
    <3>1. idMap'[v] = i + 1 /\ i + 1 \in 1..(n + 1) /\ ~(i + 1 < pos) /\ i + 1 # pos /\ (i + 1) - 1 = i
      BY <1>1, <1>2, <2>1, <2>2
    <3> QED BY <1>1, <3>1 DEF i
  <2>3. CASE ~(i >= pos)
    <3>1. idMap'[v] = i /\ i \in 1..(n + 1) /\ i < pos
      BY <1>1, <1>2, <2>1, <2>3
    <3> QED BY <1>1, <3>1 DEF i
  <2> QED BY <2>2, <2>3
<1>4. table'[idMap'[n + 1]] = NewEvent(in)
  <2>1. pos \in 1..(n + 1) /\ ~(pos < pos)
    BY <1>1, <1>2
  <2>2. table'[pos] = NewEvent(in)
    BY <1>1, <2>1
  <2> QED BY <1>1, <2>2
<1> QED BY <1>1, <1>3, <1>4 DEF EventOf, n

LEMMA CreateKeepsIds ==
  ASSUME SearchInv, IdsInv, NEW in \in EventInputs, CreateEvent(in)
  PROVE  IdsInv'
<1> DEFINE pos == Position(in.prio)
           n == NoEvents
<1>1. TypeOK /\ Sorted
  BY DEF SearchInv
<1>2. /\ pos \in 1..Guard /\ n' = n + 1
      /\ \A i \in 1..n : i < pos <=> table[i].prio >= in.prio
      /\ \A v \in 1..n : idMap'[v] = IF idMap[v] >= pos THEN idMap[v] + 1 ELSE idMap[v]
      /\ idMap'[n + 1] = pos
  BY <1>1, CreatedTable
<1>3. n \in Nat /\ Guard = n + 1 /\ \A v \in 1..n : idMap[v] \in 1..n
  BY <1>1, TableTypes DEF TypeOK
<1>4. /\ \A v \in 1..n : table'[idMap'[v]] = table[idMap[v]]
      /\ table'[idMap'[n + 1]].prio = in.prio /\ in.prio \in Nat
  <2>1. /\ \A v \in 1..NoEvents : EventOf(v)' = EventOf(v)
        /\ \A v : v = NoEvents + 1 => EventOf(v)' = NewEvent(in)
    BY <1>1, CreatedEvents
  <2>2. NewEvent(in).prio = in.prio /\ in.prio \in Nat
    BY TableAssumption DEF NewEvent
  <2> QED BY <2>1, <2>2 DEF EventOf
<1>5. /\ \A i \in 1..n : \E v \in 1..n : idMap[v] = i
      /\ \A v, w \in 1..n : v < w => /\ idMap[v] # idMap[w]
                                     /\ table[idMap[v]].prio = table[idMap[w]].prio
                                          => idMap[v] < idMap[w]
  BY DEF IdsInv
<1> HIDE DEF pos, n
<1>6. ASSUME NEW i \in 1..(n + 1)
      PROVE  \E v \in 1..(n + 1) : idMap'[v] = i
  <2>1. CASE i = pos
    <3>1. n + 1 \in 1..(n + 1)
      BY <1>3
    <3> QED BY <1>2, <2>1, <3>1
  <2>2. CASE i < pos
    <3>1. i \in 1..n
      BY <1>2, <1>3, <2>2
    <3>2. PICK v \in 1..n : idMap[v] = i
      BY <1>5, <3>1
    <3>3. idMap'[v] = i /\ v \in 1..(n + 1)
      BY <1>2, <1>3, <2>2, <3>2
    <3> QED BY <3>3
  <2>3. CASE i > pos
    <3>1. i - 1 \in 1..n /\ i - 1 >= pos
      BY <1>2, <1>3, <2>3
    <3>2. PICK v \in 1..n : idMap[v] = i - 1
      BY <1>5, <3>1
    <3>3. idMap'[v] = i /\ v \in 1..(n + 1)
      BY <1>2, <1>3, <3>1, <3>2
    <3> QED BY <3>3
  <2> QED BY <1>2, <1>3, <2>1, <2>2, <2>3
<1>7. ASSUME NEW v \in 1..(n + 1), NEW w \in 1..(n + 1), v < w
      PROVE  /\ idMap'[v] # idMap'[w]
             /\ table'[idMap'[v]].prio = table'[idMap'[w]].prio => idMap'[v] < idMap'[w]
  <2>1. v \in 1..n
    BY <1>3, <1>7
  <2>2. CASE w = n + 1
    <3> DEFINE i == idMap[v]
    <3>1. i \in 1..n /\ idMap'[v] = (IF i >= pos THEN i + 1 ELSE i) /\ idMap'[w] = pos
      BY <1>2, <1>3, <2>1, <2>2
    <3>2. i < pos <=> table[i].prio >= in.prio
      BY <1>2, <3>1
    <3>3. table'[idMap'[v]] = table[i] /\ table'[idMap'[w]].prio = in.prio
      BY <1>4, <2>1, <2>2
    <3> HIDE DEF i
    <3>4. idMap'[v] # idMap'[w]
      BY <1>2, <1>3, <3>1
    <3>5. ASSUME table[i].prio = in.prio PROVE idMap'[v] < idMap'[w]
      <4>1. i < pos
        BY <1>4, <3>2, <3>5
      <4> QED BY <1>2, <1>3, <3>1, <4>1
    <3> QED BY <3>3, <3>4, <3>5
  <2>3. CASE w # n + 1
    <3> DEFINE i == idMap[v]
               j == idMap[w]
    <3>1. w \in 1..n
      BY <1>3, <2>3
    <3>2. /\ i \in 1..n /\ idMap'[v] = (IF i >= pos THEN i + 1 ELSE i)
          /\ j \in 1..n /\ idMap'[w] = (IF j >= pos THEN j + 1 ELSE j)
          /\ table'[idMap'[v]] = table[i] /\ table'[idMap'[w]] = table[j]
          /\ i # j /\ (table[i].prio = table[j].prio => i < j)
      BY <1>2, <1>3, <1>4, <1>5, <1>7, <2>1, <3>1
    <3> HIDE DEF i, j
    <3>3. idMap'[v] # idMap'[w]
      BY <1>2, <1>3, <3>2
    <3>4. i < j => idMap'[v] < idMap'[w]
      BY <1>2, <1>3, <3>2
    <3> QED BY <3>2, <3>3, <3>4
  <2> QED BY <2>2, <2>3
<1> QED BY <1>2, <1>6, <1>7 DEF IdsInv, n

LEMMA NextKeepsIds == SearchInv /\ IdsInv /\ [Next]_vars => IdsInv'
<1> SUFFICES ASSUME SearchInv, IdsInv, [Next]_vars PROVE IdsInv'
  OBVIOUS
<1>1. CASE \E in \in EventInputs : CreateEvent(in)
  BY <1>1, CreateKeepsIds
<1>2. TypeOK /\ SlicesInv /\ NoEvents \in Nat /\ table \in [1..NoEvents -> EventType]
      /\ \A v \in 1..NoEvents : idMap[v] \in 1..NoEvents
  BY TableTypes DEF SearchInv, TypeOK
<1>3. CASE /\ idMap' = idMap /\ NoEvents' = NoEvents
           /\ \A i \in 1..NoEvents : table'[i].prio = table[i].prio
  BY <1>2, <1>3 DEF IdsInv
<1>4. CASE \E in \in TaskInputs : RegisterTask(in)
  <2>1. PICK in \in TaskInputs : RegisterTask(in)
    BY <1>4
  <2>2. /\ NoEvents' = NoEvents
        /\ \A i \in 1..NoEvents : table'[i].prio = table[i].prio
    BY <1>2, <2>1, RegisteredTable
  <2>3. idMap' = idMap
    BY <2>1 DEF RegisterTask
  <2> QED BY <1>3, <2>2, <2>3
<1>5. CASE InitKernel
  <2>1. /\ idMap' = idMap
        /\ \/ table' = table
           \/ table' = [i \in 1..NoEvents |-> [table[i] EXCEPT !.next = Link(i)]]
    BY <1>5 DEF InitKernel
  <2>2. CASE table' = table
    BY <1>3, <2>1, <2>2 DEF NoEvents
  <2>3. CASE table' = [i \in 1..NoEvents |-> [table[i] EXCEPT !.next = Link(i)]]
    <3>1. \A i \in 1..NoEvents : table'[i].prio = table[i].prio
      BY <1>2, <2>3 DEF EventType
    <3>2. NoEvents' = NoEvents
      <4> DEFINE n == NoEvents
      <4> HIDE DEF n
      <4>1. n \in Nat /\ table' = [i \in 1..n |-> [table[i] EXCEPT !.next = Link(i)]]
        BY <1>2, <2>3 DEF n
      <4>2. Len(table') = n
        BY <4>1
      <4> QED BY <4>2 DEF n, NoEvents
    <3> QED BY <1>3, <2>1, <3>1, <3>2
  <2> QED BY <2>1, <2>2, <2>3
<1>6. CASE CheckEventDue
  <2>1. PICK i \in 1..NoEvents, f \in EventType :
          /\ f.prio = table[i].prio
          /\ table' = table \/ table' = [table EXCEPT ![i] = f]
    BY <1>6, CheckedEvent
  <2>2. idMap' = idMap
    BY <1>6 DEF CheckEventDue
  <2>3. CASE table' = table
    BY <1>3, <2>2, <2>3 DEF NoEvents
  <2>4. CASE table' = [table EXCEPT ![i] = f]
    <3>1. /\ NoEvents' = NoEvents
          /\ \A k \in 1..NoEvents : table'[k] = IF k = i THEN f ELSE table[k]
      BY <1>2, <2>4, EventChanged
    <3> QED BY <1>3, <2>1, <2>2, <3>1
  <2> QED BY <2>1, <2>3, <2>4
<1>7. CASE \E i \in 1..MaxEvents : TriggerEvent(i) \/ ServeEvent(i)
  <2>1. PICK k \in 1..NoEvents, s \in {"idle", "triggered"} : table' = [table EXCEPT ![k].state = s]
    BY <1>2, <1>7 DEF TriggerEvent, ServeEvent, Triggered
  <2> DEFINE f == [table[k] EXCEPT !.state = s]
  <2>2. f \in EventType /\ f.prio = table[k].prio /\ table' = [table EXCEPT ![k] = f]
    <3>1. table[k] \in EventType
      BY <1>2
    <3> QED BY <2>1, <3>1 DEF EventType
  <2> HIDE DEF f
  <2>3. /\ NoEvents' = NoEvents
        /\ \A i \in 1..NoEvents : table'[i] = IF i = k THEN f ELSE table[i]
    BY <1>2, <2>2, EventChanged
  <2>4. idMap' = idMap
    BY <1>7 DEF TriggerEvent, ServeEvent
  <2> QED BY <1>3, <2>2, <2>3, <2>4
<1>8. CASE \/ \E in \in TaskInputs : RegisterInitTask(in)
           \/ ReleaseScheduler \/ OnOsTimerTick \/ UNCHANGED vars
  <2>1. UNCHANGED <<table, idMap>>
    BY <1>8 DEF RegisterInitTask, ReleaseScheduler, OnOsTimerTick, vars
  <2> QED BY <1>3, <2>1 DEF NoEvents
<1> QED BY <1>1, <1>4, <1>5, <1>6, <1>7, <1>8 DEF Next
-----------------------------------------------------------------------------
(* The variables of the plan *)

TaskType == [fct : STRING, pid : 0..NoProcesses]
PlannedType == [prio : Nat, cycle : Nat, tasks : Seq(TaskType)]

Planned(id) == [prio |-> EventOf(id).prio, cycle |-> EventOf(id).cycle, tasks |-> TasksOf(idMap[id])]
Left(id) == IF EventOf(id).cycle = 0 THEN 1 ELSE Remaining(id)

PlanEvents == [id \in 1..NoEvents |-> [prio |-> EventOf(id).prio, cycle |-> EventOf(id).cycle,
                                       tasks |-> TasksOf(idMap[id])]]
PlanLeft == [id \in 1..NoEvents |-> IF EventOf(id).cycle = 0 THEN 1 ELSE Remaining(id)]
PlanPending == {id \in 1..NoEvents : InTick(id)}
PlanTriggered == {id \in 1..NoEvents : EventOf(id).state = "triggered"}

LEMMA InitPlan == Init => Plan!Init /\ IdsInv /\ TimesInv
<1> SUFFICES ASSUME Init PROVE Plan!Init /\ IdsInv /\ TimesInv
  OBVIOUS
<1>1. NoEvents = 0
  BY DEF Init, NoEvents
<1>2. PlanEvents = <<>> /\ PlanLeft = <<>> /\ PlanPending = {} /\ PlanTriggered = {}
  BY <1>1 DEF PlanEvents, PlanLeft, PlanPending, PlanTriggered
<1>3. Plan!Init
  BY <1>2 DEF Plan!Init, PlanEvents, PlanLeft, PlanPending, PlanTriggered, Init
<1> QED BY <1>1, <1>3 DEF IdsInv, TimesInv
(* What the variables of the plan look like.                               *)
TaskLists ==
  \A i \in 1..NoEvents :
    /\ TasksOf(i) \in Seq(TaskType) /\ Len(TasksOf(i)) = table[i].noTasks
    /\ \A k \in 1..table[i].noTasks : TasksOf(i)[k] = tasks[table[i].taskAry + k - 1]

PlanShape ==
  /\ PlanEvents \in Seq(PlannedType) /\ Len(PlanEvents) = NoEvents
  /\ \A id \in 1..NoEvents :
       /\ PlanEvents[id] = Planned(id) /\ Planned(id) \in PlannedType
       /\ PlanEvents[id].prio = EventOf(id).prio /\ PlanEvents[id].cycle = EventOf(id).cycle
       /\ PlanEvents[id].tasks = TasksOf(idMap[id])

LEMMA TaskListsHold == SearchInv => TaskLists
<1> SUFFICES ASSUME SearchInv, NEW i \in 1..NoEvents
             PROVE  /\ TasksOf(i) \in Seq(TaskType) /\ Len(TasksOf(i)) = table[i].noTasks
                    /\ \A k \in 1..table[i].noTasks : TasksOf(i)[k] = tasks[table[i].taskAry + k - 1]
  BY DEF TaskLists
<1> DEFINE a == table[i].taskAry
           n == table[i].noTasks
<1>1. /\ a \in Nat /\ n \in Nat /\ (a = 0 <=> n = 0) /\ a + n <= Len(tasks) + 1
      /\ tasks \in Seq(TaskType)
  BY TableTypes DEF SearchInv, SlicesInv, Behind, NULL, TypeOK, TaskType
<1> HIDE DEF a, n
<1>2. Len(tasks) \in Nat /\ \A k \in 1..Len(tasks) : tasks[k] \in TaskType
  BY <1>1, LenProperties, ElementOfSeq
<1>3. \A k \in a..(a + n - 1) : tasks[k] \in TaskType
  <2> SUFFICES ASSUME NEW k \in a..(a + n - 1) PROVE k \in 1..Len(tasks)
    BY <1>2
  <2> QED BY <1>1, <1>2
<1>4. a \in Int /\ a + n - 1 \in Int
  BY <1>1
<1>5. /\ SubSeq(tasks, a, a + n - 1) \in Seq(TaskType)
      /\ Len(SubSeq(tasks, a, a + n - 1)) = IF a <= a + n - 1 THEN (a + n - 1) - a + 1 ELSE 0
      /\ \A k \in 1..((a + n - 1) - a + 1) : SubSeq(tasks, a, a + n - 1)[k] = tasks[a + k - 1]
  BY <1>3, <1>4, SubSeqProperties
<1>6. (IF a <= a + n - 1 THEN (a + n - 1) - a + 1 ELSE 0) = n /\ (a + n - 1) - a + 1 = n
  BY <1>1
<1>7. TasksOf(i) = SubSeq(tasks, a, a + n - 1)
  BY DEF TasksOf, a, n
<1> QED BY <1>5, <1>6, <1>7 DEF a, n

LEMMA PlanShapeHolds == SearchInv => PlanShape
<1> SUFFICES ASSUME SearchInv PROVE PlanShape
  OBVIOUS
<1>1. TaskLists /\ NoEvents \in Nat
  BY TaskListsHold, TableTypes DEF SearchInv
<1>2. ASSUME NEW id \in 1..NoEvents
      PROVE  Planned(id) \in PlannedType
  <2>1. EventOf(id) \in EventType /\ TasksOf(idMap[id]) \in Seq(TaskType)
    BY <1>1, TableTypes DEF SearchInv, TypeOK, EventOf, TaskLists
  <2>2. EventOf(id).prio \in Nat /\ EventOf(id).cycle \in Nat
    BY <2>1 DEF EventType
  <2> QED BY <2>1, <2>2 DEF Planned, PlannedType
<1> DEFINE n == NoEvents
<1>3. PlanEvents = [id \in 1..n |-> Planned(id)]
  BY DEF PlanEvents, Planned
<1>4. \A id \in 1..n : Planned(id) \in PlannedType
  BY <1>2
<1> HIDE DEF n
<1>5. PlanEvents \in Seq(PlannedType) /\ Len(PlanEvents) = n
  BY <1>1, <1>3, <1>4 DEF n
<1>6. \A id \in 1..n : PlanEvents[id] = Planned(id)
  BY <1>3
<1>7. ASSUME NEW id
      PROVE  /\ Planned(id).prio = EventOf(id).prio /\ Planned(id).cycle = EventOf(id).cycle
             /\ Planned(id).tasks = TasksOf(idMap[id])
  BY DEF Planned
<1> QED BY <1>4, <1>5, <1>6, <1>7 DEF PlanShape, n

LEMMA NextTaskLists == SearchInv' => TaskLists'
BY TaskListsHold, PTL

LEMMA NextPlanShape == SearchInv' => PlanShape'
BY PlanShapeHolds, PTL

(* The events of two states are planned alike if each ID has the same one. *)
LEMMA SamePlanEvents ==
  ASSUME NoEvents' = NoEvents,
         \A id \in 1..NoEvents : /\ EventOf(id)'.prio = EventOf(id).prio
                                 /\ EventOf(id)'.cycle = EventOf(id).cycle
                                 /\ TasksOf(idMap[id])' = TasksOf(idMap[id])
  PROVE  PlanEvents' = PlanEvents
BY DEF PlanEvents

(* Times remain as they are if neither clock nor due times are changed.    *)
LEMMA QuietTimes ==
  ASSUME SearchInv, TimesInv, NoEvents' = NoEvents, UNCHANGED <<idMap, tiOs>>,
         \A i \in 1..NoEvents :
           table'[i].cycle = table[i].cycle /\ table'[i].due = table[i].due,
         \A id \in 1..NoEvents : /\ InTick(id)' <=> InTick(id)
                                 /\ InTick(id) => step' = step
  PROVE  TimesInv' /\ PlanLeft' = PlanLeft /\ PlanPending' = PlanPending
<1>1. \A id \in 1..NoEvents : idMap[id] \in 1..NoEvents
  BY DEF SearchInv, TypeOK
<1>2. ASSUME NEW id \in 1..NoEvents
      PROVE  EventOf(id)'.cycle = EventOf(id).cycle /\ EventOf(id)'.due = EventOf(id).due
  BY <1>1 DEF EventOf
<1>3. ASSUME NEW id \in 1..NoEvents
      PROVE  Remaining(id)' = Remaining(id)
  <2>1. EventOf(id)'.due = EventOf(id).due /\ tiOs' = tiOs
    BY <1>2
  <2>2. (IF InTick(id)' THEN step' ELSE 0) = (IF InTick(id) THEN step ELSE 0)
    OBVIOUS
  <2>3. Signed(EventOf(id)'.due - tiOs' + IF InTick(id)' THEN step' ELSE 0)
          = Signed(EventOf(id).due - tiOs + IF InTick(id) THEN step ELSE 0)
    BY <2>1, <2>2
  <2>4. Remaining(id)' = Signed(EventOf(id)'.due - tiOs' + IF InTick(id)' THEN step' ELSE 0)
    BY DEF Remaining, Signed, Wrapped, Modulus
  <2> QED BY <2>3, <2>4 DEF Remaining
<1>4. PlanLeft' = PlanLeft /\ PlanPending' = PlanPending
  BY <1>2, <1>3 DEF PlanLeft, PlanPending
<1>5. TimesInv'
  BY <1>2, <1>3 DEF TimesInv, Quarter
<1> QED BY <1>4, <1>5

(* Nothing that the plan knows is changed but, maybe, which events are     *)
(* triggered.                                                              *)
LEMMA QuietPlan ==
  ASSUME SearchInv, TimesInv, NoEvents' = NoEvents, UNCHANGED <<idMap, tasks, tiOs>>,
         \A i \in 1..NoEvents :
           /\ table'[i].prio = table[i].prio /\ table'[i].cycle = table[i].cycle
           /\ table'[i].due = table[i].due
           /\ table'[i].taskAry = table[i].taskAry /\ table'[i].noTasks = table[i].noTasks,
         \A id \in 1..NoEvents : /\ InTick(id)' <=> InTick(id)
                                 /\ InTick(id) => step' = step
  PROVE  /\ TimesInv'
         /\ PlanEvents' = PlanEvents /\ PlanLeft' = PlanLeft /\ PlanPending' = PlanPending
<1>1. \A id \in 1..NoEvents : idMap[id] \in 1..NoEvents
  BY DEF SearchInv, TypeOK
<1>2. ASSUME NEW id \in 1..NoEvents
      PROVE  /\ EventOf(id)'.prio = EventOf(id).prio /\ EventOf(id)'.cycle = EventOf(id).cycle
             /\ TasksOf(idMap[id])' = TasksOf(idMap[id])
  BY <1>1 DEF EventOf, TasksOf
<1>3. PlanEvents' = PlanEvents
  BY <1>2, SamePlanEvents
<1>4. TimesInv' /\ PlanLeft' = PlanLeft /\ PlanPending' = PlanPending
  BY QuietTimes
<1> QED BY <1>3, <1>4

(* What the steps are in terms of these variables.                         *)
LEMMA PlanSteps ==
  ASSUME NEW id \in 1..NoEvents, Len(PlanEvents) = NoEvents
  PROVE  /\ UNCHANGED <<PlanEvents, phase, PlanLeft, PlanPending>>
            /\ \/ PlanTriggered' = PlanTriggered \cup {id}
               \/ PlanTriggered' = PlanTriggered \ {id}
              => Plan!Next
<1> SUFFICES ASSUME UNCHANGED <<PlanEvents, phase, PlanLeft, PlanPending>>,
                    \/ PlanTriggered' = PlanTriggered \cup {id}
                    \/ PlanTriggered' = PlanTriggered \ {id}
             PROVE  Plan!Next
  OBVIOUS
<1>1. Plan!Trigger(id) \/ Plan!Serve(id)
  BY DEF Plan!Trigger, Plan!Serve, PlanEvents, PlanLeft, PlanPending, PlanTriggered
<1>2. id \in Plan!IDs
  BY DEF Plan!IDs, PlanEvents
<1> QED BY <1>1, <1>2 DEF Plan!Next

LEMMA PlanStutters ==
  UNCHANGED <<PlanEvents, phase, PlanLeft, PlanPending, PlanTriggered>> => UNCHANGED Plan!vars
BY DEF Plan!vars, PlanEvents, PlanLeft, PlanPending, PlanTriggered

(* An event gets another state: it is triggered or served.                 *)
LEMMA StateSteps ==
  ASSUME SearchInv, IdsInv, TimesInv, NEW id \in 1..NoEvents, NEW s \in {"idle", "triggered"},
         table' = [table EXCEPT ![idMap[id]].state = s],
         UNCHANGED <<idMap, tasks, phase, clock>>
  PROVE  TimesInv' /\ Plan!Next
<1> DEFINE i == idMap[id]
           f == [table[i] EXCEPT !.state = s]
<1>1. TypeOK /\ i \in 1..NoEvents /\ \A v \in 1..NoEvents : idMap[v] \in 1..NoEvents
  BY DEF SearchInv, TypeOK
<1>2. /\ f \in EventType /\ f.prio = table[i].prio /\ f.cycle = table[i].cycle
      /\ f.due = table[i].due /\ f.state = s
      /\ f.taskAry = table[i].taskAry /\ f.noTasks = table[i].noTasks
  <2>1. table[i] \in EventType
    BY <1>1, TableTypes
  <2> QED BY <2>1 DEF EventType
<1>3. table' = [table EXCEPT ![i] = f]
  OBVIOUS
<1> HIDE DEF f
<1>4. /\ NoEvents' = NoEvents
      /\ \A k \in 1..NoEvents : table'[k] = IF k = i THEN f ELSE table[k]
  BY <1>1, <1>2, <1>3, EventChanged
<1>5. /\ TimesInv'
      /\ PlanEvents' = PlanEvents /\ PlanLeft' = PlanLeft /\ PlanPending' = PlanPending
  <2>1. \A k \in 1..NoEvents :
          /\ table'[k].prio = table[k].prio /\ table'[k].cycle = table[k].cycle
          /\ table'[k].due = table[k].due
          /\ table'[k].taskAry = table[k].taskAry /\ table'[k].noTasks = table[k].noTasks
    BY <1>2, <1>4
  <2>2. UNCHANGED <<idMap, tasks, tiOs, step, scan>>
    BY DEF clock
  <2>3. \A v \in 1..NoEvents : (InTick(v)' <=> InTick(v)) /\ (InTick(v) => step' = step)
    BY <2>2 DEF InTick
  <2> QED BY <1>4, <2>1, <2>2, <2>3, QuietPlan
<1>6. \A v \in 1..NoEvents : v # id => idMap[v] # i
  <2> SUFFICES ASSUME NEW v \in 1..NoEvents, v # id PROVE idMap[v] # i
    OBVIOUS
  <2>1. v < id \/ id < v
    BY TableTypes DEF SearchInv
  <2> QED BY <2>1 DEF IdsInv
<1>7. \A v \in 1..NoEvents : EventOf(v)' = IF v = id THEN f ELSE EventOf(v)
  BY <1>1, <1>4, <1>6 DEF EventOf
<1>8. \/ PlanTriggered' = PlanTriggered \cup {id}
      \/ PlanTriggered' = PlanTriggered \ {id}
  <2>1. PlanTriggered' = {v \in 1..NoEvents : EventOf(v)'.state = "triggered"}
    BY <1>4 DEF PlanTriggered
  <2>2. \A v \in 1..NoEvents : EventOf(v)'.state = IF v = id THEN s ELSE EventOf(v).state
    BY <1>2, <1>7
  <2>3. CASE s = "triggered"
    BY <2>1, <2>2, <2>3 DEF PlanTriggered
  <2>4. CASE s = "idle"
    <3>1. \A v : v \in PlanTriggered' <=> v \in PlanTriggered \ {id}
      BY <2>1, <2>2, <2>4 DEF PlanTriggered
    <3> QED BY <3>1
  <2> QED BY <2>3, <2>4
<1>9. Len(PlanEvents) = NoEvents
  BY PlanShapeHolds DEF PlanShape
<1> QED BY <1>5, <1>8, <1>9, PlanSteps

LEMMA TriggerStep ==
  ASSUME SearchInv, IdsInv, TimesInv, NEW id, TriggerEvent(id)
  PROVE  TimesInv' /\ Plan!Next
<1>1. /\ id \in 1..NoEvents
      /\ table' = [table EXCEPT ![idMap[id]].state = "triggered"]
      /\ UNCHANGED <<idMap, tasks, initTasks, prioMap, phase, clock>>
  BY DEF TriggerEvent, Triggered
<1> QED BY <1>1, StateSteps

LEMMA ServeStep ==
  ASSUME SearchInv, IdsInv, TimesInv, NEW i, ServeEvent(i)
  PROVE  TimesInv' /\ Plan!Next
<1>1. /\ i \in 1..NoEvents
      /\ table' = [table EXCEPT ![i].state = "idle"]
      /\ UNCHANGED <<idMap, tasks, initTasks, prioMap, phase, clock>>
  BY DEF ServeEvent
<1>2. PICK id \in 1..NoEvents : idMap[id] = i
  BY <1>1 DEF IdsInv
<1> QED BY <1>1, <1>2, StateSteps

-----------------------------------------------------------------------------
(* The start of the kernel *)

LEMMA InitTaskStep ==
  ASSUME SearchInv, TimesInv, \/ \E in \in TaskInputs : RegisterInitTask(in)
                              \/ UNCHANGED vars
  PROVE  TimesInv' /\ UNCHANGED Plan!vars
<1>1. UNCHANGED <<table, idMap, tasks, phase, tiOs, step, scan>>
  BY DEF RegisterInitTask, clock, vars
<1>2. NoEvents' = NoEvents /\ \A id \in 1..NoEvents : InTick(id)' <=> InTick(id)
  BY <1>1 DEF NoEvents, InTick
<1>3. /\ TimesInv'
      /\ PlanEvents' = PlanEvents /\ PlanLeft' = PlanLeft /\ PlanPending' = PlanPending
  BY <1>1, <1>2, QuietPlan
<1>4. PlanTriggered' = PlanTriggered
  BY <1>1, <1>2 DEF PlanTriggered, EventOf
<1> QED BY <1>1, <1>3, <1>4, PlanStutters

LEMMA ReleaseStep ==
  ASSUME SearchInv, TimesInv, ReleaseScheduler
  PROVE  TimesInv' /\ Plan!Next
<1>1. UNCHANGED <<table, idMap, tasks, tiOs, scan>> /\ scan = 0 /\ phase = "init" /\ phase' = "run"
  BY DEF ReleaseScheduler
<1>2. NoEvents' = NoEvents /\ \A id \in 1..NoEvents : ~InTick(id)' /\ ~InTick(id)
  BY <1>1 DEF NoEvents, InTick
<1>3. /\ TimesInv'
      /\ PlanEvents' = PlanEvents /\ PlanLeft' = PlanLeft /\ PlanPending' = PlanPending
  BY <1>1, <1>2, QuietPlan
<1>4. PlanTriggered' = PlanTriggered
  BY <1>1, <1>2 DEF PlanTriggered, EventOf
<1>5. Plan!Release
  BY <1>1, <1>3, <1>4 DEF Plan!Release, PlanEvents, PlanLeft, PlanPending, PlanTriggered
<1> QED BY <1>3, <1>5 DEF Plan!Next

(* PIDs are bounded, so that one of those in use is the highest.           *)
LEMMA MaxPidIs ==
  ASSUME SearchInv, tasks # <<>>
  PROVE  /\ MaxPidInUse \in {tasks[k].pid : k \in 1..Len(tasks)}
         /\ \A k \in 1..Len(tasks) : tasks[k].pid <= MaxPidInUse
<1> DEFINE P == {tasks[k].pid : k \in 1..Len(tasks)}
           Q == {NoProcesses - p : p \in P}
<1>1. tasks \in Seq(TaskType) /\ NoProcesses \in Nat
  BY TableAssumption DEF SearchInv, TypeOK, TaskType
<1>2. Len(tasks) \in Nat \ {0} /\ \A k \in 1..Len(tasks) : tasks[k] \in TaskType
  BY <1>1, LenProperties, ElementOfSeq, EmptySeq
<1>3. P \subseteq 0..NoProcesses
  BY <1>2 DEF TaskType
<1>4. tasks[1].pid \in P
  BY <1>2
<1> HIDE DEF P
<1>5. Q \in SUBSET Nat /\ Q # {}
  <2>1. ASSUME NEW r \in P PROVE NoProcesses - r \in Nat
    BY <1>1, <1>3
  <2>2. Q \subseteq Nat
    BY <2>1
  <2> QED BY <1>4, <2>2
<1> DEFINE q == Min(Q)
<1>6. q \in Q /\ \A r \in Q : q <= r
  BY <1>5, MinProperties
<1> HIDE DEF q
<1>7. PICK p \in P : q = NoProcesses - p
  BY <1>6
<1>8. \A r \in P : r <= p
  <2> SUFFICES ASSUME NEW r \in P PROVE r <= p
    OBVIOUS
  <2>1. NoProcesses - r \in Q /\ r \in 0..NoProcesses /\ p \in 0..NoProcesses
    BY <1>3
  <2>2. q <= NoProcesses - r
    BY <1>6, <2>1
  <2> QED BY <1>1, <1>7, <2>1, <2>2
<1>9. P \subseteq Nat
  BY <1>1, <1>3
<1>10. Max(P) = p
  BY <1>8, <1>9, MaxIs
<1>11. MaxPidInUse = p
  BY <1>10 DEF MaxPidInUse, P
<1>12. \A k \in 1..Len(tasks) : tasks[k].pid \in P
  BY DEF P
<1> QED BY <1>8, <1>11, <1>12 DEF P
LEMMA StartConditions ==
  ASSUME SearchInv, ConfigurationOk
  PROVE  /\ PlanEvents # <<>>
         /\ \A id \in Plan!IDs :
              /\ PlanEvents[id].tasks # <<>>
              /\ PlanEvents[id].prio > MaxLockable =>
                   \A p \in Plan!PidsOf(PlanEvents[id]) : p = 0 \/ Plan!IsHighest(p)
<1>1. /\ NoEvents \in Nat \ {0} /\ tasks # <<>>
      /\ \A i \in 1..NoEvents :
           /\ table[i].noTasks > 0
           /\ Prio(i) > MaxLockable =>
                \A k \in 1..Len(TasksOf(i)) : TasksOf(i)[k].pid \in {0, MaxPidInUse}
  BY TableTypes DEF ConfigurationOk, SearchInv
<1>2. PlanShape /\ TaskLists
  BY PlanShapeHolds, TaskListsHold
<1>3. /\ Plan!IDs = 1..NoEvents
      /\ \A id \in 1..NoEvents :
           /\ PlanEvents[id].prio = EventOf(id).prio /\ PlanEvents[id].tasks = TasksOf(idMap[id])
           /\ idMap[id] \in 1..NoEvents
  <2>1. Plan!IDs = 1..Len(PlanEvents)
    BY DEF Plan!IDs, PlanEvents
  <2> QED BY <1>2, <2>1 DEF PlanShape, SearchInv, TypeOK
<1>4. ASSUME NEW i \in 1..NoEvents
      PROVE  /\ TasksOf(i) # <<>> /\ Len(TasksOf(i)) \in Nat
             /\ \A k \in 1..Len(TasksOf(i)) : TasksOf(i)[k].pid <= MaxPidInUse
  <2> DEFINE a == table[i].taskAry
             n == table[i].noTasks
  <2>1. /\ a \in Nat /\ n \in Nat \ {0} /\ (a = 0 <=> n = 0) /\ a + n <= Len(tasks) + 1
        /\ tasks \in Seq(TaskType)
    BY <1>1, TableTypes DEF SearchInv, SlicesInv, Behind, NULL, TypeOK, TaskType
  <2>2. Len(TasksOf(i)) = n /\ \A k \in 1..n : TasksOf(i)[k] = tasks[a + k - 1]
    BY <1>2 DEF TaskLists
  <2> HIDE DEF a, n
  <2>3. Len(tasks) \in Nat
    BY <2>1, LenProperties
  <2>4. ASSUME NEW k \in 1..n PROVE TasksOf(i)[k].pid <= MaxPidInUse
    <3>1. a + k - 1 \in 1..Len(tasks)
      BY <2>1, <2>3
    <3>2. tasks[a + k - 1].pid <= MaxPidInUse
      BY <1>1, <3>1, MaxPidIs
    <3> QED BY <2>2, <3>2
  <2>5. TasksOf(i) # <<>>
    <3> SUFFICES ASSUME TasksOf(i) = <<>> PROVE FALSE
      OBVIOUS
    <3>1. Len(TasksOf(i)) = 0
      OBVIOUS
    <3> QED BY <2>1, <2>2, <3>1
  <2> QED BY <2>1, <2>2, <2>4, <2>5
<1>5. Plan!IsHighest(MaxPidInUse)
  <2>1. \A p \in Plan!Pids : \E id \in 1..NoEvents : p \in Plan!PidsOf(PlanEvents[id])
    BY <1>3 DEF Plan!Pids, PlanEvents
  <2>2. ASSUME NEW id \in 1..NoEvents, NEW p \in Plan!PidsOf(PlanEvents[id])
        PROVE  p <= MaxPidInUse
    <3>1. PICK k \in 1..Len(PlanEvents[id].tasks) : p = PlanEvents[id].tasks[k].pid
      BY DEF Plan!PidsOf
    <3>2. PlanEvents[id].tasks = TasksOf(idMap[id]) /\ idMap[id] \in 1..NoEvents
      BY <1>3
    <3> QED BY <1>4, <3>1, <3>2
  <2> QED BY <2>1, <2>2 DEF Plan!IsHighest
<1>6. ASSUME NEW id \in 1..NoEvents
      PROVE  /\ PlanEvents[id].tasks # <<>>
             /\ PlanEvents[id].prio > MaxLockable =>
                  \A p \in Plan!PidsOf(PlanEvents[id]) : p = 0 \/ Plan!IsHighest(p)
  <2> DEFINE i == idMap[id]
  <2>1. /\ i \in 1..NoEvents /\ PlanEvents[id].tasks = TasksOf(i)
        /\ PlanEvents[id].prio = Prio(i)
    BY <1>3, TableTypes DEF SearchInv, EventOf
  <2> HIDE DEF i
  <2>2. PlanEvents[id].tasks # <<>>
    BY <1>4, <2>1
  <2>3. ASSUME PlanEvents[id].prio > MaxLockable, NEW p \in Plan!PidsOf(PlanEvents[id])
        PROVE  p = 0 \/ Plan!IsHighest(p)
    <3>1. PICK k \in 1..Len(TasksOf(i)) : p = TasksOf(i)[k].pid
      BY <2>1 DEF Plan!PidsOf
    <3>2. p \in {0, MaxPidInUse}
      BY <1>1, <2>1, <2>3, <3>1
    <3> QED BY <1>5, <3>2
  <2> QED BY <2>2, <2>3
<1>7. PlanEvents # <<>>
  <2> SUFFICES ASSUME PlanEvents = <<>> PROVE FALSE
    OBVIOUS
  <2>1. Len(PlanEvents) = 0
    OBVIOUS
  <2> QED BY <1>1, <1>2, <2>1 DEF PlanShape
<1> QED BY <1>3, <1>6, <1>7

LEMMA InitKernelStep ==
  ASSUME SearchInv, TimesInv, InitKernel
  PROVE  TimesInv' /\ Plan!Next
<1>1. /\ phase = "config" /\ UNCHANGED <<idMap, tasks, scan>>
      /\ \/ /\ ConfigurationOk /\ phase' = "init"
            /\ table' = [i \in 1..NoEvents |-> [table[i] EXCEPT !.next = Link(i)]]
            /\ tiOs' = Modulus - 1 /\ step' = 0
         \/ /\ ~ConfigurationOk /\ phase' = "failed"
            /\ UNCHANGED <<table, tiOs, step>>
  BY DEF InitKernel
<1>2. scan = 0 /\ UNCHANGED <<tiOs, step>>
  BY <1>1 DEF SearchInv, PhaseInv
<1>3. /\ NoEvents' = NoEvents
      /\ \A i \in 1..NoEvents :
           /\ table'[i].prio = table[i].prio /\ table'[i].cycle = table[i].cycle
           /\ table'[i].due = table[i].due /\ table'[i].state = table[i].state
           /\ table'[i].taskAry = table[i].taskAry /\ table'[i].noTasks = table[i].noTasks
  <2>1. CASE table' = table
    BY <2>1 DEF NoEvents
  <2>2. CASE table' = [i \in 1..NoEvents |-> [table[i] EXCEPT !.next = Link(i)]]
    <3> DEFINE n == NoEvents
    <3>1. n \in Nat /\ \A i \in 1..n : table[i] \in EventType
      BY TableTypes DEF SearchInv
    <3>2. table' = [i \in 1..n |-> [table[i] EXCEPT !.next = Link(i)]]
      BY <2>2
    <3> HIDE DEF n
    <3>3. Len(table') = n
      BY <3>1, <3>2
    <3>4. \A i \in 1..n : table'[i] = [table[i] EXCEPT !.next = Link(i)]
      BY <3>2
    <3>5. \A i \in 1..n :
           /\ table'[i].prio = table[i].prio /\ table'[i].cycle = table[i].cycle
           /\ table'[i].due = table[i].due /\ table'[i].state = table[i].state
           /\ table'[i].taskAry = table[i].taskAry /\ table'[i].noTasks = table[i].noTasks
      BY <3>1, <3>4 DEF EventType
    <3> QED BY <3>3, <3>5 DEF n, NoEvents
  <2> QED BY <1>1, <2>1, <2>2
<1>4. \A id \in 1..NoEvents : ~InTick(id)' /\ ~InTick(id)
  BY <1>1, <1>2 DEF InTick
<1>5. /\ TimesInv'
      /\ PlanEvents' = PlanEvents /\ PlanLeft' = PlanLeft /\ PlanPending' = PlanPending
  BY <1>1, <1>2, <1>3, <1>4, QuietPlan
<1>6. PlanTriggered' = PlanTriggered
  <2>1. \A id \in 1..NoEvents : idMap[id] \in 1..NoEvents
    BY DEF SearchInv, TypeOK
  <2> QED BY <1>1, <1>3, <2>1 DEF PlanTriggered, EventOf
<1>7. CASE ConfigurationOk /\ phase' = "init"
  <2>1. Plan!Start
    BY <1>1, <1>5, <1>6, <1>7, StartConditions
       DEF Plan!Start, PlanEvents, PlanLeft, PlanPending, PlanTriggered
  <2> QED BY <1>5, <2>1 DEF Plan!Next
<1>8. CASE phase' = "failed"
  <2>1. Plan!Fail
    BY <1>1, <1>5, <1>6, <1>8
       DEF Plan!Fail, PlanEvents, PlanLeft, PlanPending, PlanTriggered
  <2> QED BY <1>5, <2>1 DEF Plan!Next
<1> QED BY <1>1, <1>7, <1>8
-----------------------------------------------------------------------------
(* The clock tick *)

LEMMA SignedSame ==
  ASSUME NEW x \in Int, NEW y \in Int, SameTime(x, y)
  PROVE  Signed(x) = Signed(y)
<1> DEFINE s == Signed(y)
<1>1. SameTime(y, s) /\ s \in (-2 * Quarter)..(2 * Quarter - 1)
  BY SignedProperties
<1> HIDE DEF s
<1>2. s \in Int
  BY <1>1, QuarterProperties
<1>3. SameTime(x, s)
  BY <1>1, <1>2, SameTimeChain
<1>4. Signed(x) = s
  BY <1>1, <1>3, SignedIs
<1> QED BY <1>4 DEF s

(* The clock has gone on by s, and s is what is left of the tick.          *)
LEMMA TickedTime ==
  ASSUME NEW d \in Int, NEW t \in Int, NEW s \in Int
  PROVE  Signed(d - Wrapped(t + s) + s) = Signed(d - t)
<1> DEFINE w == Wrapped(t + s)
<1>1. t + s \in Int
  OBVIOUS
<1>2. SameTime(w, t + s) /\ w \in Int
  BY <1>1, WrappedIsSame
<1> HIDE DEF w
<1>3. SameTime(d - w, d - (t + s))
  BY <1>1, <1>2, SameTimeFrom
<1>4. d - w \in Int /\ d - (t + s) \in Int
  BY <1>1, <1>2
<1>5. SameTime((d - w) + s, (d - (t + s)) + s)
  BY <1>3, <1>4, SameTimeShift
<1>6. (d - (t + s)) + s = d - t /\ (d - w) + s \in Int /\ d - t \in Int
  BY <1>1, <1>4
<1>7. SameTime((d - w) + s, d - t)
  BY <1>5, <1>6
<1>8. Signed((d - w) + s) = Signed(d - t)
  BY <1>6, <1>7, SignedSame
<1> QED BY <1>8 DEF w

(* s is no longer left of the tick: the event has s less to wait.          *)
LEMMA ElapsedTime ==
  ASSUME NEW d \in Int, NEW t \in Int, NEW s \in Nat, s < Quarter,
         Signed(d - t + s) \in 1..Quarter
  PROVE  SameTime(d - t, Signed(d - t + s) - s) /\ Signed(d - t) = Signed(d - t + s) - s
<1> DEFINE x == d - t + s
           r == Signed(x)
<1>1. x \in Int /\ d - t \in Int /\ x - s = d - t
  OBVIOUS
<1>2. SameTime(x, r)
  BY <1>1, SignedProperties
<1>3. Quarter \in Nat \ {0} /\ r \in 1..Quarter /\ r \in Int
  BY QuarterProperties
<1> HIDE DEF r, x
<1>4. SameTime(x - s, r - s)
  <2>1. s \in Int
    OBVIOUS
  <2> QED BY <1>1, <1>2, <1>3, <2>1, SameTimeShift
<1>5. SameTime(d - t, r - s)
  BY <1>1, <1>4
<1>6. r - s \in (-2 * Quarter)..(2 * Quarter - 1)
  BY <1>3
<1>7. Signed(d - t) = r - s
  BY <1>1, <1>5, <1>6, SignedIs
<1> QED BY <1>5, <1>7 DEF r, x

(* The event was due and gets its next due time, c later.                  *)
LEMMA DueAgain ==
  ASSUME NEW d \in Int, NEW t \in Int, NEW c \in Int, NEW s \in Nat, s < Quarter,
         Signed(d - t + s) \in 1..Quarter, Signed(d - t + s) - s + c \in 1..Quarter
  PROVE  Signed(Wrapped(d + c) - t) = Signed(d - t + s) - s + c
<1> DEFINE r == Signed(d - t + s) - s
           w == Wrapped(d + c)
<1>1. SameTime(d - t, r)
  BY ElapsedTime
<1>2. Signed(d - t + s) \in Int
  BY QuarterProperties
<1>3. r \in Int /\ r + c \in 1..Quarter
  BY <1>2
<1>4. d + c \in Int /\ d - t \in Int /\ (d + c) - t = (d - t) + c
  OBVIOUS
<1>5. SameTime(w, d + c) /\ w \in Int
  BY <1>4, WrappedIsSame
<1> HIDE DEF r, w
<1>6. SameTime(w - t, (d + c) - t)
  BY <1>4, <1>5, SameTimeShift
<1>7. SameTime((d - t) + c, r + c)
  BY <1>1, <1>3, <1>4, SameTimeShift
<1>8. w - t \in Int /\ (d + c) - t \in Int /\ r + c \in Int
  BY <1>3, <1>4, <1>5
<1>9. SameTime((d + c) - t, r + c)
  BY <1>4, <1>7
<1>10. SameTime(w - t, r + c)
  BY <1>6, <1>8, <1>9, SameTimeChain
<1>11. r + c \in (-2 * Quarter)..(2 * Quarter - 1)
  BY <1>3, <1>8, QuarterProperties
<1>12. Signed(w - t) = r + c
  BY <1>8, <1>10, <1>11, SignedIs
<1> QED BY <1>12 DEF w, r

(* The types of what the tick reads.                                       *)
LEMMA EventTypes ==
  ASSUME SearchInv
  PROVE  /\ tiOs \in Int /\ step \in Int /\ NoEvents \in Nat /\ Step \in Nat \ {0}
         /\ \A id \in 1..NoEvents :
              /\ idMap[id] \in 1..NoEvents /\ EventOf(id) \in EventType
              /\ EventOf(id).cycle \in Nat /\ EventOf(id).due \in Int
<1>1. /\ tiOs \in 0..(Modulus - 1) /\ step \in {0, Step} /\ NoEvents \in Nat /\ Step \in Nat \ {0}
      /\ Modulus \in Nat
  BY TableTypes, TableAssumption, QuarterProperties DEF SearchInv, TypeOK
<1>2. ASSUME NEW id \in 1..NoEvents
      PROVE  /\ idMap[id] \in 1..NoEvents /\ EventOf(id) \in EventType
             /\ EventOf(id).cycle \in Nat /\ EventOf(id).due \in Int
  <2>1. idMap[id] \in 1..NoEvents /\ EventOf(id) \in EventType
    BY TableTypes DEF SearchInv, TypeOK, EventOf
  <2> QED BY <2>1 DEF EventType
<1> QED BY <1>1, <1>2

LEMMA InitTickStep ==
  ASSUME SearchInv, SearchInv', TimesInv, OnOsTimerTick, phase = "init"
  PROVE  TimesInv' /\ UNCHANGED Plan!vars
<1>1. UNCHANGED <<table, idMap, tasks, phase, step>>
  BY DEF OnOsTimerTick
<1>2. step = 0 /\ tiOs' = tiOs
  BY <1>1 DEF SearchInv, PhaseInv, Modulus
<1>3. NoEvents' = NoEvents /\ \A id \in 1..NoEvents : ~InTick(id)' /\ ~InTick(id)
  BY <1>1, <1>2 DEF NoEvents, InTick
<1>4. /\ TimesInv'
      /\ PlanEvents' = PlanEvents /\ PlanLeft' = PlanLeft /\ PlanPending' = PlanPending
  BY <1>1, <1>2, <1>3, QuietPlan
<1>5. PlanTriggered' = PlanTriggered
  BY <1>1, <1>3 DEF PlanTriggered, EventOf
<1> QED BY <1>1, <1>4, <1>5, PlanStutters

LEMMA RunTickStep ==
  ASSUME SearchInv, TimesInv, OnOsTimerTick, phase = "run"
  PROVE  TimesInv' /\ Plan!Next
<1>1. /\ UNCHANGED <<table, idMap, tasks, phase, step>> /\ scan = 0 /\ scan' = 1
      /\ tiOs' = Wrapped(tiOs + step)
  BY DEF OnOsTimerTick
<1>2. /\ tiOs \in Int /\ step \in Int /\ NoEvents \in Nat /\ Step \in Nat \ {0}
      /\ \A id \in 1..NoEvents :
              /\ idMap[id] \in 1..NoEvents /\ EventOf(id) \in EventType
              /\ EventOf(id).cycle \in Nat /\ EventOf(id).due \in Int
  BY EventTypes
<1>3. step = Step
  BY DEF SearchInv, PhaseInv
<1>4. NoEvents' = NoEvents /\ \A id \in 1..NoEvents : InTick(id)' /\ ~InTick(id)
  <2>1. NoEvents' = NoEvents
    BY <1>1 DEF NoEvents
  <2>2. ASSUME NEW id \in 1..NoEvents PROVE InTick(id)' /\ ~InTick(id)
    <3>1. idMap[id] \in 1..NoEvents
      BY <1>2
    <3>2. idMap[id] >= 1
      BY <1>2, <3>1
    <3> QED BY <1>1, <1>2, <1>3, <3>2 DEF InTick
  <2> QED BY <2>1, <2>2
<1>5. \A id \in 1..NoEvents : EventOf(id)' = EventOf(id) /\ TasksOf(idMap[id])' = TasksOf(idMap[id])
  BY <1>1 DEF EventOf, TasksOf
<1>6. ASSUME NEW id \in 1..NoEvents PROVE Remaining(id)' = Remaining(id)
  <2>1. EventOf(id)'.due = EventOf(id).due /\ EventOf(id).due \in Int
    BY <1>2, <1>5
  <2>2. Remaining(id)' = Signed(EventOf(id).due - Wrapped(tiOs + step) + step)
    <3>1. Remaining(id)' = Signed(EventOf(id)'.due - tiOs' + IF InTick(id)' THEN step' ELSE 0)
      BY DEF Remaining, Signed, Wrapped, Modulus
    <3>2. (IF InTick(id)' THEN step' ELSE 0) = step
      BY <1>1, <1>4
    <3> QED BY <1>1, <2>1, <3>1, <3>2
  <2>3. Remaining(id) = Signed(EventOf(id).due - tiOs)
    <3>1. (IF InTick(id) THEN step ELSE 0) = 0
      BY <1>4
    <3>2. EventOf(id).due - tiOs + 0 = EventOf(id).due - tiOs
      BY <1>2, <2>1
    <3> QED BY <3>1, <3>2 DEF Remaining
  <2> QED BY <1>2, <2>1, <2>2, <2>3, TickedTime
<1>7. PlanEvents' = PlanEvents
  BY <1>4, <1>5, SamePlanEvents
<1>8. PlanLeft' = PlanLeft /\ TimesInv'
  <2>1. PlanLeft' = PlanLeft
    BY <1>4, <1>5, <1>6 DEF PlanLeft
  <2>2. TimesInv'
    BY <1>4, <1>5, <1>6 DEF TimesInv, Quarter
  <2> QED BY <2>1, <2>2
<1>9. PlanPending = {} /\ PlanPending' = 1..NoEvents
  BY <1>4 DEF PlanPending
<1>10. PlanTriggered' = PlanTriggered
  BY <1>4, <1>5 DEF PlanTriggered
<1>11. Plan!IDs = 1..NoEvents
  <2>1. Plan!IDs = 1..Len(PlanEvents)
    BY DEF Plan!IDs, PlanEvents
  <2> QED BY <2>1, PlanShapeHolds DEF PlanShape
<1>12. Plan!Tick
  BY <1>1, <1>7, <1>8, <1>9, <1>10, <1>11
     DEF Plan!Tick, PlanEvents, PlanLeft, PlanPending, PlanTriggered
<1> QED BY <1>8, <1>12 DEF Plan!Next
(* During the init tasks no time passes: no event is due.                  *)
LEMMA InitCheckStep ==
  ASSUME SearchInv, IdsInv, TimesInv, CheckEventDue, phase = "init"
  PROVE  TimesInv' /\ UNCHANGED Plan!vars
<1> DEFINE e == table[scan]
<1>1. UNCHANGED <<idMap, tasks, phase, tiOs, step>>
  BY DEF CheckEventDue
<1>2. step = 0 /\ \A v \in 1..NoEvents : ~InTick(v)' /\ ~InTick(v)
  BY <1>1 DEF SearchInv, PhaseInv, InTick
<1>3. scan \in 1..NoEvents /\ e \in EventType
      /\ (table' = table \/ (e.cycle > 0 /\ IsDue(e)))
  BY CheckedEvent
<1>4. ASSUME e.cycle > 0, IsDue(e) PROVE FALSE
  <2>1. PICK id \in 1..NoEvents : idMap[id] = scan
    BY <1>3 DEF IdsInv
  <2>2. EventOf(id) = e /\ e.due \in Int /\ tiOs \in Int /\ Quarter \in Nat
    BY <2>1, EventTypes, QuarterProperties DEF EventOf
  <2>3. Remaining(id) \in 1..Quarter
    BY <1>4, <2>2 DEF TimesInv
  <2>4. Remaining(id) = Signed(e.due - tiOs)
    <3>1. (IF InTick(id) THEN step ELSE 0) = 0
      BY <1>2
    <3>2. e.due - tiOs + 0 = e.due - tiOs
      BY <2>2
    <3> QED BY <2>2, <3>1, <3>2 DEF Remaining
  <2> QED BY <1>4, <2>2, <2>3, <2>4 DEF IsDue
<1>5. table' = table
  BY <1>3, <1>4
<1>6. NoEvents' = NoEvents
  BY <1>5 DEF NoEvents
<1>7. /\ TimesInv'
      /\ PlanEvents' = PlanEvents /\ PlanLeft' = PlanLeft /\ PlanPending' = PlanPending
  BY <1>1, <1>2, <1>5, <1>6, QuietPlan
<1>8. PlanTriggered' = PlanTriggered
  BY <1>1, <1>5, <1>6 DEF PlanTriggered, EventOf
<1> QED BY <1>1, <1>7, <1>8, PlanStutters

(* The event in turn is the most urgent one that has not been looked at.   *)
LEMMA ScanIsInOrder ==
  ASSUME SearchInv, IdsInv, step # 0, scan # 0, NEW id \in 1..NoEvents, idMap[id] = scan
  PROVE  id \in PlanPending /\ \A v \in PlanPending \ {id} : idMap[v] > scan /\ Plan!Before(id, v)
<1>1. /\ scan \in 1..NoEvents /\ NoEvents \in Nat /\ \A v \in 1..NoEvents : idMap[v] \in 1..NoEvents
  BY EventTypes
<1>2. id \in PlanPending
  <2>1. idMap[id] >= scan
    BY <1>1
  <2> QED BY <2>1 DEF PlanPending, InTick
<1>3. ASSUME NEW v \in PlanPending, v # id
      PROVE  idMap[v] > scan /\ Plan!Before(id, v)
  <2>1. v \in 1..NoEvents /\ idMap[v] >= scan
    BY DEF PlanPending, InTick
  <2>2. (v < id \/ id < v) /\ idMap[v] # idMap[id]
        /\ (v < id => (table[idMap[v]].prio = table[idMap[id]].prio => idMap[v] < idMap[id]))
    <3>1. v < id \/ id < v
      BY <1>1, <1>3, <2>1
    <3> QED BY <2>1, <3>1 DEF IdsInv
  <2>3. idMap[v] > idMap[id] /\ idMap[v] \in 1..NoEvents /\ idMap[id] \in 1..NoEvents
    BY <1>1, <2>1, <2>2
  <2>4. EventOf(id).prio >= EventOf(v).prio
    BY <2>3 DEF SearchInv, Sorted, EventOf
  <2>5. EventOf(id).prio = EventOf(v).prio => id < v
    <3>1. ~(idMap[v] < idMap[id])
      BY <2>3
    <3> QED BY <2>2, <3>1 DEF EventOf
  <2>6. EventOf(id).prio \in Int /\ EventOf(v).prio \in Int
    <3>1. EventOf(id) \in EventType /\ EventOf(v) \in EventType
      BY <2>1, EventTypes
    <3> QED BY <3>1 DEF EventType
  <2>7. PlanEvents[id].prio = EventOf(id).prio /\ PlanEvents[v].prio = EventOf(v).prio
    BY <2>1, PlanShapeHolds DEF PlanShape
  <2>8. PlanEvents[id].prio > PlanEvents[v].prio
        \/ (PlanEvents[id].prio = PlanEvents[v].prio /\ id < v)
    BY <2>4, <2>5, <2>6, <2>7
  <2>9. Plan!Before(id, v)
    BY <2>8 DEF Plan!Before, PlanEvents
  <2> QED BY <2>3, <2>9
<1> QED BY <1>2, <1>3

LEMMA RunCheckStep ==
  ASSUME SearchInv, IdsInv, TimesInv, CheckEventDue, phase = "run"
  PROVE  TimesInv' /\ Plan!Next
<1> DEFINE e == table[scan]
           f == [Triggered(e) EXCEPT !.due = NextDue(e)]
           n == NoEvents
<1>1. /\ UNCHANGED <<idMap, tasks, phase, tiOs, step>> /\ scan # 0
      /\ scan' = IF scan < n THEN scan + 1 ELSE 0
  BY DEF CheckEventDue
<1>2. /\ scan \in 1..n /\ e \in EventType /\ f \in EventType
      /\ f.prio = e.prio /\ f.taskAry = e.taskAry /\ f.noTasks = e.noTasks
      /\ f.cycle = e.cycle /\ f.due = NextDue(e) /\ f.state = "triggered"
      /\ table' = IF e.cycle > 0 /\ IsDue(e) THEN [table EXCEPT ![scan] = f] ELSE table
  BY CheckedEvent
<1>3. /\ tiOs \in Int /\ n \in Nat /\ Step \in Nat \ {0} /\ step = Step
      /\ \A id \in 1..n : /\ idMap[id] \in 1..n /\ EventOf(id) \in EventType
                          /\ EventOf(id).cycle \in Nat /\ EventOf(id).due \in Int
  BY EventTypes DEF SearchInv, PhaseInv
<1>4. PICK id \in 1..n : idMap[id] = scan
  BY <1>2 DEF IdsInv
<1> DEFINE due == e.cycle > 0 /\ IsDue(e)
<1>5. /\ NoEvents' = n
      /\ \A k \in 1..n : table'[k] = IF k = scan /\ due THEN f ELSE table[k]
  <2>1. CASE due
    <3>1. table' = [table EXCEPT ![scan] = f]
      BY <1>2, <2>1
    <3> HIDE DEF f, due
    <3>2. /\ NoEvents' = NoEvents
          /\ \A k \in 1..NoEvents : table'[k] = IF k = scan THEN f ELSE table[k]
      BY <1>2, <3>1, EventChanged DEF SearchInv
    <3> QED BY <2>1, <3>2
  <2>2. CASE ~due
    BY <1>2, <2>2 DEF NoEvents
  <2> QED BY <2>1, <2>2
<1>6. EventOf(id) = e
  BY <1>4 DEF EventOf
<1>7. \A v \in 1..n : v # id => idMap[v] # scan
  <2> SUFFICES ASSUME NEW v \in 1..n, v # id PROVE idMap[v] # idMap[id]
    BY <1>4
  <2>1. v < id \/ id < v
    BY <1>3
  <2> QED BY <2>1 DEF IdsInv
<1> HIDE DEF e, f, due
<1>8. \A v \in 1..n : EventOf(v)' = IF v = id /\ due THEN f ELSE EventOf(v)
  BY <1>1, <1>3, <1>4, <1>5, <1>7 DEF EventOf
<1>9. \A v \in 1..n : /\ EventOf(v)'.prio = EventOf(v).prio /\ EventOf(v)'.cycle = EventOf(v).cycle
                      /\ TasksOf(idMap[v])' = TasksOf(idMap[v])
  <2>1. \A k \in 1..n : table'[k].taskAry = table[k].taskAry /\ table'[k].noTasks = table[k].noTasks
    BY <1>2, <1>5 DEF e
  <2>2. \A k \in 1..n : TasksOf(k)' = TasksOf(k)
    BY <1>1, <2>1 DEF TasksOf
  <2> QED BY <1>1, <1>2, <1>3, <1>6, <1>8, <2>2
<1>10. PlanEvents' = PlanEvents
  BY <1>5, <1>9, SamePlanEvents
<1>11. \A v \in 1..n : /\ InTick(v) <=> idMap[v] >= scan
                       /\ InTick(v)' <=> idMap[v] > scan
  <2> SUFFICES ASSUME NEW v \in 1..n
               PROVE  (InTick(v) <=> idMap[v] >= scan) /\ (InTick(v)' <=> idMap[v] > scan)
    OBVIOUS
  <2> DEFINE m == idMap[v]
  <2>1. m \in 1..n /\ step # 0
    BY <1>3
  <2>2. InTick(v) <=> m >= scan
    BY <1>1, <2>1 DEF InTick
  <2>3. InTick(v)' <=> scan' # 0 /\ m >= scan'
    BY <1>1, <2>1 DEF InTick
  <2> HIDE DEF m, n
  <2>4. (scan' # 0 /\ m >= scan') <=> m > scan
    BY <1>1, <1>2, <1>3, <2>1
  <2> QED BY <2>2, <2>3, <2>4 DEF m
<1>12. /\ id \in PlanPending /\ PlanPending' = PlanPending \ {id}
       /\ \A v \in PlanPending \ {id} : Plan!Before(id, v)
  <2>1. id \in PlanPending /\ \A v \in PlanPending \ {id} : idMap[v] > scan /\ Plan!Before(id, v)
    BY <1>1, <1>3, <1>4, ScanIsInOrder
  <2>2. PlanPending' = {v \in 1..n : idMap[v] > scan}
    BY <1>5, <1>11 DEF PlanPending
  <2>3. PlanPending = {v \in 1..n : idMap[v] >= scan}
    BY <1>11 DEF PlanPending
  <2>4. ~(idMap[id] > scan) /\ \A v \in 1..n : idMap[v] > scan => idMap[v] >= scan
    BY <1>2, <1>3, <1>4
  <2> QED BY <2>1, <2>2, <2>3, <2>4
<1>13. \A v \in 1..n : v # id => Remaining(v)' = Remaining(v)
  <2> SUFFICES ASSUME NEW v \in 1..n, v # id PROVE Remaining(v)' = Remaining(v)
    OBVIOUS
  <2>1. EventOf(v)' = EventOf(v)
    BY <1>8
  <2>2. InTick(v)' <=> InTick(v)
    BY <1>2, <1>3, <1>7, <1>11
  <2>3. Remaining(v)' = Signed(EventOf(v)'.due - tiOs' + IF InTick(v)' THEN step' ELSE 0)
    BY DEF Remaining, Signed, Wrapped, Modulus
  <2>4. (IF InTick(v)' THEN step' ELSE 0) = (IF InTick(v) THEN step ELSE 0)
    BY <1>1, <2>2
  <2> QED BY <1>1, <2>1, <2>3, <2>4 DEF Remaining
<1>14. /\ Remaining(id) = Signed(e.due - tiOs + Step)
       /\ Remaining(id)' = Signed(EventOf(id)'.due - tiOs)
  <2>1. InTick(id) /\ ~InTick(id)'
    BY <1>2, <1>3, <1>4, <1>11
  <2>2. Remaining(id) = Signed(e.due - tiOs + Step)
    BY <1>3, <1>6, <2>1 DEF Remaining
  <2>3. Remaining(id)' = Signed(EventOf(id)'.due - tiOs' + IF InTick(id)' THEN step' ELSE 0)
    BY DEF Remaining, Signed, Wrapped, Modulus
  <2>4. (IF InTick(id)' THEN step' ELSE 0) = 0 /\ EventOf(id)'.due \in Int
    <3>1. EventOf(id)' \in EventType
      BY <1>2, <1>3, <1>8
    <3>2. EventOf(id)'.due \in 0..(Modulus - 1) /\ Modulus \in Nat
      BY <3>1, QuarterProperties DEF EventType
    <3> QED BY <2>1, <3>2
  <2>5. EventOf(id)'.due - tiOs + 0 = EventOf(id)'.due - tiOs
    BY <1>3, <2>4
  <2> QED BY <1>1, <2>2, <2>3, <2>4, <2>5
<1>15. CASE e.cycle = 0
  <2>1. ~due /\ PlanEvents[id].cycle = 0
    BY <1>6, <1>15, PlanShapeHolds DEF due, PlanShape
  <2>2. \A v \in 1..n : EventOf(v)' = EventOf(v)
    BY <1>8, <2>1
  <2>3. PlanLeft' = PlanLeft /\ PlanTriggered' = PlanTriggered
    BY <1>5, <1>6, <1>13, <1>15, <2>2 DEF PlanLeft, PlanTriggered
  <2>4. TimesInv'
    BY <1>5, <1>6, <1>13, <1>15, <2>2 DEF TimesInv, Quarter
  <2>5. Plan!Elapse(id)
    BY <1>1, <1>10, <1>12, <2>1, <2>3
       DEF Plan!Elapse, PlanEvents, PlanLeft, PlanPending, PlanTriggered
  <2>6. id \in Plan!IDs
    BY PlanShapeHolds DEF PlanShape, Plan!IDs, PlanEvents
  <2> QED BY <2>4, <2>5, <2>6 DEF Plan!Next
<1>16. CASE e.cycle # 0
  <2> DEFINE r == Remaining(id)
             c == e.cycle
  <2>1. /\ c \in Step..(Quarter - 1) /\ r \in 1..Quarter /\ Quarter \in Nat /\ c \in Nat
        /\ e.due \in Int
    <3>1. c \in Nat /\ e.due \in Int
      BY <1>3, <1>6
    <3>2. c > 0
      BY <1>16, <3>1
    <3> QED BY <1>6, <3>1, <3>2, QuarterProperties DEF TimesInv
  <2>2. SameTime(e.due - tiOs, r - Step) /\ Signed(e.due - tiOs) = r - Step
    <3>1. Step < Quarter /\ Step \in Nat
      BY <1>3, <2>1
    <3> DEFINE d == e.due
    <3>2. d \in Int /\ tiOs \in Int /\ Signed(d - tiOs + Step) \in 1..Quarter
      BY <1>3, <1>14, <2>1
    <3> HIDE DEF d, r
    <3>3. /\ SameTime(d - tiOs, Signed(d - tiOs + Step) - Step)
          /\ Signed(d - tiOs) = Signed(d - tiOs + Step) - Step
      BY <3>1, <3>2, ElapsedTime
    <3>4. r = Signed(d - tiOs + Step)
      BY <1>14 DEF d, r
    <3> QED BY <3>3, <3>4 DEF d
  <2>3. due <=> r - Step <= 0
    <3>1. c > 0
      BY <1>3, <2>1
    <3> QED BY <2>2, <3>1 DEF due, IsDue
  <2>4. Remaining(id)' = IF r - Step > 0 THEN r - Step ELSE r - Step + c
    <3>1. CASE due
      <4>1. EventOf(id)'.due = Wrapped(e.due + c)
        BY <1>2, <1>8, <3>1 DEF NextDue
      <4>2. r - Step \in Int /\ (r - Step) + c \in 1..Quarter /\ c \in Int /\ ~(r - Step > 0)
        <5> HIDE DEF r, c
        <5> QED BY <1>3, <2>1, <2>3, <3>1
      <4>3. Signed(Wrapped(e.due + c) - tiOs) = (r - Step) + c
        <5> DEFINE d == e.due
        <5>1. d \in Int /\ tiOs \in Int /\ c \in Int /\ Step \in Nat /\ Step < Quarter
          BY <1>3, <2>1
        <5>2. r = Signed(d - tiOs + Step)
          BY <1>14
        <5> HIDE DEF d, c, r
        <5>3. /\ Signed(d - tiOs + Step) \in 1..Quarter
              /\ Signed(d - tiOs + Step) - Step + c \in 1..Quarter
          BY <2>1, <4>2, <5>2
        <5>4. Signed(Wrapped(d + c) - tiOs) = Signed(d - tiOs + Step) - Step + c
          BY <5>1, <5>3, DueAgain
        <5> QED BY <5>2, <5>4 DEF c, d
      <4> QED BY <1>14, <4>1, <4>2, <4>3
    <3>2. CASE ~due
      <4>1. EventOf(id)' = e
        BY <1>6, <1>8, <3>2
      <4>2. r - Step > 0
        <5> HIDE DEF r, c
        <5> QED BY <1>3, <2>1, <2>3, <3>2
      <4> QED BY <1>14, <2>2, <4>1, <4>2
    <3> QED BY <3>1, <3>2
  <2>5. Remaining(id)' \in 1..Quarter
    <3> HIDE DEF r, c
    <3> QED BY <1>3, <2>1, <2>4
  <2>6. TimesInv'
    <3> SUFFICES ASSUME NEW v \in 1..n, EventOf(v)'.cycle > 0
                 PROVE  /\ EventOf(v)'.cycle \in Step..(Quarter - 1)
                        /\ Remaining(v)' \in 1..Quarter
      BY <1>5 DEF TimesInv, Quarter
    <3>1. CASE v = id
      BY <1>6, <1>9, <2>1, <2>5, <3>1
    <3>2. CASE v # id
      BY <1>9, <1>13, <3>2 DEF TimesInv
    <3> QED BY <3>1, <3>2
  <2>7. PlanEvents[id].cycle = c /\ PlanLeft[id] = r
    BY <1>6, <1>16, PlanShapeHolds DEF PlanShape, PlanLeft
  <2>8. PlanLeft' = [PlanLeft EXCEPT ![id] = Remaining(id)']
    <3>1. PlanLeft' = [v \in 1..n |-> IF EventOf(v)'.cycle = 0 THEN 1 ELSE Remaining(v)']
      BY <1>5 DEF PlanLeft
    <3>2. PlanLeft = [v \in 1..n |-> IF EventOf(v).cycle = 0 THEN 1 ELSE Remaining(v)]
      BY DEF PlanLeft
    <3>3. EventOf(id)'.cycle # 0
      BY <1>6, <1>9, <1>16
    <3> QED BY <1>9, <1>13, <3>1, <3>2, <3>3
  <2>9. PlanTriggered' = IF due THEN PlanTriggered \cup {id} ELSE PlanTriggered
    <3>1. PlanTriggered' = {v \in 1..n : EventOf(v)'.state = "triggered"}
      BY <1>5 DEF PlanTriggered
    <3>2. \A v \in 1..n : EventOf(v)'.state = IF v = id /\ due THEN "triggered" ELSE EventOf(v).state
      BY <1>2, <1>8
    <3> QED BY <3>1, <3>2 DEF PlanTriggered
  <2>10. IF PlanEvents[id].cycle = 0 THEN UNCHANGED <<PlanLeft, PlanTriggered>>
         ELSE LET rest == PlanLeft[id] - Step IN
                IF rest > 0
                THEN PlanLeft' = [PlanLeft EXCEPT ![id] = rest] /\ UNCHANGED PlanTriggered
                ELSE /\ PlanLeft' = [PlanLeft EXCEPT ![id] = rest + PlanEvents[id].cycle]
                     /\ PlanTriggered' = PlanTriggered \cup {id}
    <3> HIDE DEF r, c
    <3>1. c # 0
      BY <1>3, <2>1
    <3>2. CASE r - Step > 0
      <4>1. ~due
        BY <1>3, <2>1, <2>3, <3>2
      <4> QED BY <2>4, <2>7, <2>8, <2>9, <3>1, <3>2, <4>1
    <3>3. CASE ~(r - Step > 0)
      <4>1. due
        BY <1>3, <2>1, <2>3, <3>3
      <4> QED BY <2>4, <2>7, <2>8, <2>9, <3>1, <3>3, <4>1
    <3> QED BY <3>2, <3>3
  <2>11. Plan!Elapse(id)
    BY <1>1, <1>10, <1>12, <2>10
       DEF Plan!Elapse, PlanEvents, PlanLeft, PlanPending, PlanTriggered
  <2>12. id \in Plan!IDs
    BY PlanShapeHolds DEF PlanShape, Plan!IDs, PlanEvents
  <2> QED BY <2>6, <2>11, <2>12 DEF Plan!Next
<1> QED BY <1>15, <1>16
-----------------------------------------------------------------------------
(* The configuration *)

LeftShape ==
  /\ PlanLeft \in Seq(Int) /\ Len(PlanLeft) = NoEvents
  /\ \A id \in 1..NoEvents : PlanLeft[id] = Left(id)

LEMMA LeftShapeHolds == SearchInv => LeftShape
<1> SUFFICES ASSUME SearchInv PROVE LeftShape
  OBVIOUS
<1> DEFINE n == NoEvents
<1>1. ASSUME NEW id \in 1..n PROVE Left(id) \in Int
  <2> DEFINE s == IF InTick(id) THEN step ELSE 0
             x == EventOf(id).due - tiOs + s
  <2>1. x \in Int
    <3>1. EventOf(id).due \in Int /\ tiOs \in Int /\ s \in Int
      BY EventTypes
    <3> HIDE DEF s
    <3> QED BY <3>1
  <2>2. Remaining(id) = Signed(x)
    BY DEF Remaining
  <2> HIDE DEF x
  <2>3. Signed(x) \in Int
    BY <2>1, SignedProperties, QuarterProperties
  <2> QED BY <2>2, <2>3 DEF Left
<1>2. n \in Nat /\ PlanLeft = [id \in 1..n |-> Left(id)]
  BY EventTypes DEF PlanLeft, Left
<1> HIDE DEF n
<1>3. PlanLeft \in Seq(Int) /\ Len(PlanLeft) = n
  BY <1>1, <1>2
<1>4. \A id \in 1..n : PlanLeft[id] = Left(id)
  BY <1>2
<1> QED BY <1>3, <1>4 DEF LeftShape, n

LEMMA NextLeftShape == SearchInv' => LeftShape'
BY LeftShapeHolds, PTL

(* Before the clock runs, an event has the time until its first trigger    *)
(* left, and the millisecond by which the clock is behind zero.            *)
LEMMA FirstTime ==
  ASSUME NEW d \in 0..(Quarter - 1)
  PROVE  Signed(d - (Modulus - 1)) = d + 1 /\ d + 1 \in 1..Quarter
<1> DEFINE m == Modulus
           x == d - (m - 1)
           r == d + 1
<1>1. Quarter \in Nat \ {0} /\ m = 4 * Quarter /\ m \in Nat
  BY QuarterProperties
<1>2. x - r = -m
  <2> HIDE DEF m
  <2> QED BY <1>1
<1>3. x \in Int /\ r \in (-2 * Quarter)..(2 * Quarter - 1) /\ r \in 1..Quarter
  <2> HIDE DEF m
  <2> QED BY <1>1
<1> HIDE DEF x, r, m
<1>4. (-1) * m = -m /\ -1 \in Int
  BY <1>1
<1>5. SameTime(x, r)
  BY <1>2, <1>4 DEF SameTime, m
<1>6. Signed(x) = r
  BY <1>3, <1>5, SignedIs
<1> QED BY <1>3, <1>6 DEF x, r, m

LEMMA CreateStep ==
  ASSUME SearchInv, SearchInv', TimesInv, NEW in \in EventInputs, CreateEvent(in)
  PROVE  TimesInv' /\ Plan!Next
<1> DEFINE n == NoEvents
           new == [prio |-> in.prio, cycle |-> in.cycle, tasks |-> <<>>]
<1>1. /\ phase = "config" /\ UNCHANGED <<tasks, phase, tiOs, step, scan>>
      /\ in.prio \in 1..MaxPriority /\ TimingOk(in)
  BY DEF CreateEvent, clock
<1>2. n \in Nat /\ step = 0 /\ tiOs = Modulus - 1 /\ Modulus \in Nat
  BY <1>1, TableTypes, QuarterProperties DEF SearchInv, PhaseInv
<1>3. /\ NoEvents' = n + 1
      /\ \A v \in 1..n : EventOf(v)' = EventOf(v)
      /\ \A v : v = n + 1 => EventOf(v)' = NewEvent(in)
  BY CreatedEvents DEF SearchInv
<1>4. \A v \in 1..n : v \in 1..(n + 1) /\ v # n + 1
  BY <1>2
<1>5. n + 1 \in 1..(n + 1) /\ \A v \in 1..(n + 1) : v \in 1..n \/ v = n + 1
  BY <1>2
<1>6. /\ NewEvent(in).prio = in.prio /\ NewEvent(in).cycle = in.cycle
      /\ NewEvent(in).due = in.first /\ NewEvent(in).state = "idle" /\ NewEvent(in).noTasks = 0
  BY DEF NewEvent
<1>7. /\ in.prio \in Nat /\ in.cycle \in Nat /\ in.first \in 0..(Quarter - 1)
      /\ in.cycle = 0 => in.first = 0
      /\ in.cycle # 0 => in.cycle \in Step..(Quarter - 1)
  <2>1. in.cycle \in 0..(Quarter - 1) /\ in.first \in 0..(Quarter - 1)
    BY <1>1, NewEventType
  <2>2. in.cycle = 0 \/ in.cycle >= Step
    BY TableAssumption
  <2>3. in.prio \in Nat /\ in.cycle \in Nat /\ Step \in Nat
    BY TableAssumption
  <2>4. in.cycle = 0 => in.first = 0
    BY <1>1 DEF TimingOk
  <2> QED BY <2>1, <2>2, <2>3, <2>4
<1>8. /\ PlanShape /\ PlanShape' /\ LeftShape /\ LeftShape' /\ TaskLists'
  BY PlanShapeHolds, NextPlanShape, LeftShapeHolds, NextLeftShape, NextTaskLists
<1> HIDE DEF n, new
<1>9. \A v \in 1..n : TasksOf(idMap[v])' = TasksOf(idMap[v])
  BY <1>1, <1>3 DEF TasksOf, EventOf
<1>10. ASSUME NEW v, v = n + 1
       PROVE  /\ EventOf(v)'.prio = in.prio /\ EventOf(v)'.cycle = in.cycle
              /\ TasksOf(idMap[v])' = <<>> /\ PlanEvents'[v] = new
  <2>1. EventOf(v)' = NewEvent(in) /\ v \in 1..(n + 1)
    BY <1>3, <1>5, <1>10
  <2>2. EventOf(v)'.noTasks = 0 /\ (idMap[v])' \in 1..NoEvents'
    <3>1. \A w \in 1..NoEvents' : idMap'[w] \in 1..NoEvents'
      BY DEF SearchInv, TypeOK
    <3> QED BY <1>3, <1>6, <2>1, <3>1
  <2>3. Len(TasksOf(idMap[v])') = 0 /\ TasksOf(idMap[v])' \in Seq(TaskType)
    <3>1. \A i \in 1..NoEvents' : TasksOf(i)' \in Seq(TaskType) /\ Len(TasksOf(i)') = table'[i].noTasks
      BY <1>8 DEF TaskLists, TaskType
    <3>2. PICK i \in 1..NoEvents' : i = idMap'[v]
      BY <2>2
    <3>3. TasksOf(i)' = TasksOf(idMap[v])'
      BY <3>2 DEF TasksOf
    <3>4. table'[i].noTasks = 0
      BY <2>2, <3>2 DEF EventOf
    <3> QED BY <3>1, <3>3, <3>4
  <2>4. TasksOf(idMap[v])' = <<>>
    BY <2>3, EmptySeq
  <2>5. PlanEvents'[v] = Planned(v)'
    BY <1>3, <1>8, <2>1 DEF PlanShape
  <2> QED BY <1>6, <2>1, <2>4, <2>5 DEF Planned, new
<1>11. new \in PlannedType
  BY <1>7 DEF new, PlannedType
<1>12. PlanEvents' = Append(PlanEvents, new)
  <2>1. /\ Append(PlanEvents, new) \in Seq(PlannedType) /\ Len(Append(PlanEvents, new)) = n + 1
        /\ \A v \in 1..n : Append(PlanEvents, new)[v] = PlanEvents[v]
        /\ Append(PlanEvents, new)[n + 1] = new
    <3>1. PlanEvents \in Seq(PlannedType) /\ Len(PlanEvents) = n
      BY <1>8 DEF PlanShape, n
    <3> QED BY <1>11, <3>1, AppendProperties
  <2>2. PlanEvents' \in Seq(PlannedType) /\ Len(PlanEvents') = n + 1
    BY <1>3, <1>8 DEF PlanShape, PlannedType, TaskType
  <2>3. ASSUME NEW v \in 1..n PROVE PlanEvents'[v] = PlanEvents[v]
    <3>1. PlanEvents'[v] = Planned(v)'
      BY <1>3, <1>4, <1>8 DEF PlanShape
    <3>2. PlanEvents[v] = Planned(v)
      BY <1>8 DEF PlanShape, n
    <3>3. Planned(v)' = Planned(v)
      BY <1>3, <1>9 DEF Planned
    <3> QED BY <3>1, <3>2, <3>3
  <2>4. \A v \in 1..(n + 1) : PlanEvents'[v] = Append(PlanEvents, new)[v]
    BY <1>5, <1>10, <2>1, <2>3
  <2> QED BY <2>1, <2>2, <2>4, SeqEqual
<1>13. \A v : ~InTick(v) /\ ~InTick(v)'
  BY <1>1, <1>2 DEF InTick
<1>14. \A v : /\ Remaining(v) = Signed(EventOf(v).due - tiOs + 0)
              /\ Remaining(v)' = Signed(EventOf(v)'.due - tiOs + 0)
  <2> SUFFICES ASSUME NEW v
               PROVE  /\ Remaining(v) = Signed(EventOf(v).due - tiOs + 0)
                      /\ Remaining(v)' = Signed(EventOf(v)'.due - tiOs + 0)
    OBVIOUS
  <2>1. (IF InTick(v) THEN step ELSE 0) = 0 /\ (IF InTick(v)' THEN step' ELSE 0) = 0
    BY <1>13
  <2>2. Remaining(v)' = Signed(EventOf(v)'.due - tiOs' + IF InTick(v)' THEN step' ELSE 0)
    BY DEF Remaining, Signed, Wrapped, Modulus
  <2> QED BY <1>1, <2>1, <2>2 DEF Remaining
<1>15. \A v \in 1..n : Remaining(v)' = Remaining(v)
  BY <1>3, <1>14
<1>16. \A v : v = n + 1 => Remaining(v)' = in.first + 1 /\ in.first + 1 \in 1..Quarter
  <2> SUFFICES ASSUME NEW v, v = n + 1
               PROVE  Remaining(v)' = in.first + 1 /\ in.first + 1 \in 1..Quarter
    OBVIOUS
  <2>1. EventOf(v)'.due = in.first
    BY <1>3, <1>6
  <2> DEFINE d == in.first
  <2>2. d \in 0..(Quarter - 1) /\ d \in Int
    BY <1>7, QuarterProperties
  <2> HIDE DEF d
  <2>3. Signed(d - (Modulus - 1)) = d + 1 /\ d + 1 \in 1..Quarter
    BY <2>2, FirstTime
  <2>4. d - (Modulus - 1) + 0 = d - (Modulus - 1)
    BY <1>2, <2>2
  <2>5. Remaining(v)' = Signed(d - (Modulus - 1) + 0)
    BY <1>2, <1>14, <2>1 DEF d
  <2> QED BY <2>3, <2>4, <2>5 DEF d
<1>17. PlanLeft' = Append(PlanLeft, in.first + 1)
  <2> DEFINE f == in.first + 1
  <2>1. f \in Int
    BY <1>7, QuarterProperties
  <2> HIDE DEF f
  <2>2. /\ Append(PlanLeft, f) \in Seq(Int) /\ Len(Append(PlanLeft, f)) = n + 1
        /\ \A v \in 1..n : Append(PlanLeft, f)[v] = PlanLeft[v]
        /\ Append(PlanLeft, f)[n + 1] = f
    <3>1. PlanLeft \in Seq(Int) /\ Len(PlanLeft) = n
      BY <1>8 DEF LeftShape, n
    <3> QED BY <2>1, <3>1, AppendProperties
  <2>3. /\ PlanLeft' \in Seq(Int) /\ Len(PlanLeft') = n + 1
        /\ \A v \in 1..(n + 1) : PlanLeft'[v] = Left(v)'
    BY <1>3, <1>8 DEF LeftShape
  <2>4. ASSUME NEW v \in 1..n PROVE PlanLeft'[v] = PlanLeft[v]
    <3>1. Left(v)' = Left(v)
      BY <1>3, <1>15 DEF Left
    <3>2. PlanLeft[v] = Left(v)
      BY <1>8 DEF LeftShape, n
    <3> QED BY <1>4, <2>3, <3>1, <3>2
  <2>5. ASSUME NEW v, v = n + 1 PROVE PlanLeft'[v] = f
    <3>1. Left(v)' = IF in.cycle = 0 THEN 1 ELSE in.first + 1
      BY <1>10, <1>16, <2>5 DEF Left
    <3>2. Left(v)' = in.first + 1
      BY <1>7, <3>1
    <3> QED BY <1>5, <2>3, <2>5, <3>2 DEF f
  <2>6. \A v \in 1..(n + 1) : PlanLeft'[v] = Append(PlanLeft, f)[v]
    BY <1>5, <2>2, <2>4, <2>5
  <2>7. PlanLeft' = Append(PlanLeft, f)
    BY <2>2, <2>3, <2>6, SeqEqual
  <2> QED BY <2>7 DEF f
<1>18. PlanPending' = PlanPending
  <2>1. PlanPending = {} /\ PlanPending' = {}
    BY <1>13 DEF PlanPending
  <2> QED BY <2>1
<1>19. PlanTriggered' = PlanTriggered
  <2>1. PlanTriggered' = {v \in 1..(n + 1) : EventOf(v)'.state = "triggered"}
    BY <1>3 DEF PlanTriggered
  <2>2. PlanTriggered = {v \in 1..n : EventOf(v).state = "triggered"}
    BY DEF PlanTriggered, n
  <2>3. \A v : v = n + 1 => EventOf(v)'.state = "idle"
    BY <1>3, <1>6
  <2> QED BY <1>3, <1>4, <1>5, <2>1, <2>2, <2>3
<1>20. TimesInv'
  <2> SUFFICES ASSUME NEW v \in 1..(n + 1), EventOf(v)'.cycle > 0
               PROVE  EventOf(v)'.cycle \in Step..(Quarter - 1) /\ Remaining(v)' \in 1..Quarter
    BY <1>3 DEF TimesInv, Quarter
  <2>1. CASE v \in 1..n
    BY <1>3, <1>15, <2>1 DEF TimesInv, n
  <2>2. CASE v = n + 1
    <3>1. EventOf(v)'.cycle = in.cycle
      BY <1>10, <2>2
    <3>2. in.cycle \in Step..(Quarter - 1)
      BY <1>7, <3>1
    <3> QED BY <1>16, <2>2, <3>1, <3>2
  <2> QED BY <1>5, <2>1, <2>2
<1>21. Plan!Create(in)
  BY <1>1, <1>12, <1>17, <1>18, <1>19
     DEF Plan!Create, PlanEvents, PlanLeft, PlanPending, PlanTriggered, new
<1> QED BY <1>20, <1>21 DEF Plan!Next
(* The list of tasks moves, but an event keeps its own ones; the new task  *)
(* comes behind those of its event.                                        *)
LEMMA RegisteredTasks ==
  ASSUME SearchInv, SearchInv', NEW in \in TaskInputs, RegisterTask(in)
  PROVE  LET e == idMap[in.id]
             new == [fct |-> in.fct, pid |-> in.pid]
         IN \A i \in 1..NoEvents :
              TasksOf(i)' = IF i = e THEN Append(TasksOf(i), new) ELSE TasksOf(i)
<1> DEFINE e == idMap[in.id]
           first == table[e].taskAry = NULL
           pos == IF first THEN Len(tasks) + 1 ELSE Behind(e)
           new == [fct |-> in.fct, pid |-> in.pid]
           n == NoEvents
<1>1. /\ e \in 1..n /\ n' = n /\ pos \in 1..(Len(tasks) + 1)
      /\ \A i \in 1..n :
           /\ table'[i].noTasks = table[i].noTasks + (IF i = e THEN 1 ELSE 0)
           /\ table'[i].taskAry =
                IF i = e THEN IF first THEN pos ELSE table[i].taskAry
                ELSE IF ~first /\ table[i].taskAry >= pos THEN table[i].taskAry + 1
                ELSE table[i].taskAry
      /\ \A k \in 1..(Len(tasks) + 1) :
           tasks'[k] = IF k < pos THEN tasks[k] ELSE IF k = pos THEN new ELSE tasks[k - 1]
  BY RegisteredTable DEF SearchInv
<1>2. /\ \A i \in 1..n : /\ table[i].taskAry \in Nat /\ table[i].noTasks \in Nat
                         /\ table[i].taskAry = 0 <=> table[i].noTasks = 0
                         /\ table[i].taskAry + table[i].noTasks <= Len(tasks) + 1
      /\ \A i, j \in 1..n :
           i # j /\ table[i].taskAry # 0 /\ table[j].taskAry # 0
             => \/ table[i].taskAry + table[i].noTasks <= table[j].taskAry
                \/ table[j].taskAry + table[j].noTasks <= table[i].taskAry
  BY TableTypes DEF SearchInv, SlicesInv, Behind, NULL
<1>3. Len(tasks) \in Nat /\ new \in TaskType
  <2>1. tasks \in Seq(TaskType)
    BY DEF SearchInv, TypeOK, TaskType
  <2>2. in.fct \in STRING /\ in.pid \in Nat /\ in.pid <= NoProcesses /\ NoProcesses \in Nat
    BY TableAssumption DEF RegisterTask, RegistrationOk
  <2> QED BY <2>1, <2>2, LenProperties DEF TaskType
<1>4. first <=> table[e].taskAry = 0
  BY DEF NULL
<1>5. pos = IF first THEN Len(tasks) + 1 ELSE table[e].taskAry + table[e].noTasks
  BY DEF Behind
<1> HIDE DEF e, first, pos, new, n
<1>6. ASSUME NEW i \in 1..n
      PROVE  /\ TasksOf(i) \in Seq(TaskType) /\ Len(TasksOf(i)) = table[i].noTasks
             /\ \A k \in 1..table[i].noTasks : TasksOf(i)[k] = tasks[table[i].taskAry + k - 1]
             /\ TasksOf(i)' \in Seq(TaskType) /\ Len(TasksOf(i)') = table'[i].noTasks
             /\ \A k \in 1..table'[i].noTasks : TasksOf(i)'[k] = tasks'[table'[i].taskAry + k - 1]
  <2>1. TaskLists /\ TaskLists'
    BY TaskListsHold, NextTaskLists
  <2>2. i \in 1..NoEvents /\ i \in 1..NoEvents'
    BY <1>1 DEF n
  <2> QED BY <2>1, <2>2 DEF TaskLists, TaskType
<1>7. ASSUME NEW i \in 1..n, i # e
      PROVE  TasksOf(i)' = TasksOf(i)
  <2> DEFINE a == table[i].taskAry
             m == table[i].noTasks
             aa == table'[i].taskAry
  <2>1. /\ a \in Nat /\ m \in Nat /\ (a = 0 <=> m = 0) /\ a + m <= Len(tasks) + 1
        /\ table'[i].noTasks = m
        /\ aa = IF ~first /\ a >= pos THEN a + 1 ELSE a
    BY <1>1, <1>2, <1>7
  <2>2. ~first => /\ table[e].taskAry \in Nat \ {0} /\ table[e].noTasks \in Nat
                  /\ a # 0 => \/ a + m <= table[e].taskAry
                              \/ table[e].taskAry + table[e].noTasks <= a
    BY <1>1, <1>2, <1>4, <1>7
  <2> DEFINE b == table[e].taskAry
             l == table[e].noTasks
  <2> HIDE DEF a, m, aa, b, l
  <2>3. ASSUME NEW k \in 1..m
        PROVE  tasks'[aa + k - 1] = tasks[a + k - 1]
    <3> DEFINE j == aa + k - 1
    <3>1. /\ j \in 1..(Len(tasks) + 1)
          /\ (j < pos /\ j = a + k - 1) \/ (j > pos /\ j - 1 = a + k - 1)
      <4>1. CASE first
        BY <1>1, <1>3, <1>5, <2>1, <4>1
      <4>2. CASE ~first
        <5>1. pos = b + l /\ b \in Nat \ {0} /\ l \in Nat /\ (a # 0 => a + m <= b \/ b + l <= a)
          BY <1>5, <2>2, <4>2 DEF b, l
        <5> QED BY <1>1, <1>3, <2>1, <4>2, <5>1
      <4> QED BY <4>1, <4>2
    <3> HIDE DEF j
    <3>2. CASE j < pos /\ j = a + k - 1
      <4>1. tasks'[j] = tasks[j]
        BY <1>1, <3>1, <3>2
      <4> QED BY <3>2, <4>1 DEF j
    <3>3. CASE j > pos /\ j - 1 = a + k - 1
      <4>1. ~(j < pos) /\ j # pos
        BY <1>1, <1>3, <3>1, <3>3
      <4>2. tasks'[j] = tasks[j - 1]
        BY <1>1, <3>1, <4>1
      <4> QED BY <3>3, <4>2 DEF j
    <3> QED BY <3>1, <3>2, <3>3
  <2>4. /\ Len(TasksOf(i)) = m /\ Len(TasksOf(i)') = m
        /\ \A k \in 1..m : TasksOf(i)[k] = TasksOf(i)'[k]
    BY <1>6, <2>1, <2>3 DEF a, m, aa
  <2> QED BY <1>6, <2>4, SeqEqual
<1>8. ASSUME NEW i \in 1..n, i = e
      PROVE  TasksOf(i)' = Append(TasksOf(i), new)
  <2> DEFINE a == table[i].taskAry
             m == table[i].noTasks
             aa == table'[i].taskAry
             s == TasksOf(i)
             ss == TasksOf(i)'
  <2>1. /\ a \in Nat /\ m \in Nat /\ (a = 0 <=> m = 0) /\ a + m <= Len(tasks) + 1
        /\ table'[i].noTasks = m + 1
        /\ aa = (IF first THEN pos ELSE a) /\ (first <=> a = 0)
        /\ pos = IF first THEN Len(tasks) + 1 ELSE a + m
    BY <1>1, <1>2, <1>4, <1>5, <1>8
  <2>2. /\ s \in Seq(TaskType) /\ Len(s) = m /\ \A k \in 1..m : s[k] = tasks[a + k - 1]
        /\ ss \in Seq(TaskType) /\ Len(ss) = m + 1
        /\ \A k \in 1..(m + 1) : ss[k] = tasks'[aa + k - 1]
    BY <1>6, <2>1
  <2> HIDE DEF a, m, aa, s, ss
  <2>3. Append(s, new) \in Seq(TaskType) /\ Len(Append(s, new)) = m + 1
        /\ (\A k \in 1..m : Append(s, new)[k] = s[k]) /\ Append(s, new)[m + 1] = new
    BY <1>3, <2>2, AppendProperties
  <2>4. ASSUME NEW k \in 1..m PROVE ss[k] = s[k]
    <3> DEFINE j == a + k - 1
    <3>1. j \in 1..(Len(tasks) + 1) /\ j < pos /\ aa = a /\ k \in 1..(m + 1)
      BY <1>1, <1>3, <2>1
    <3> HIDE DEF j
    <3>2. tasks'[j] = tasks[j]
      BY <1>1, <3>1
    <3> QED BY <2>2, <3>1, <3>2 DEF j
  <2>5. ss[m + 1] = new
    <3>1. aa + (m + 1) - 1 = pos /\ m + 1 \in 1..(m + 1)
      BY <1>1, <1>3, <2>1
    <3>2. tasks'[pos] = new
      <4>1. ~(pos < pos)
        BY <1>1, <1>3
      <4> QED BY <1>1, <4>1
    <3> QED BY <2>2, <3>1, <3>2
  <2>6. \A k \in 1..(m + 1) : ss[k] = Append(s, new)[k]
    <3>1. \A k \in 1..(m + 1) : k \in 1..m \/ k = m + 1
      BY <2>1
    <3> QED BY <2>3, <2>4, <2>5, <3>1
  <2>7. ss = Append(s, new)
    BY <2>2, <2>3, <2>6, SeqEqual
  <2> QED BY <2>7 DEF s, ss
<1> QED BY <1>7, <1>8 DEF e, new, n

LEMMA RegisterStep ==
  ASSUME SearchInv, SearchInv', IdsInv, TimesInv, NEW in \in TaskInputs, RegisterTask(in)
  PROVE  TimesInv' /\ Plan!Next
<1> DEFINE id == in.id
           e == idMap[id]
           new == [fct |-> in.fct, pid |-> in.pid]
           n == NoEvents
<1>1. phase = "config" /\ UNCHANGED <<idMap, phase, tiOs, step, scan>>
  BY DEF RegisterTask, clock
<1>2. /\ id \in 1..n /\ e \in 1..n /\ n' = n
      /\ \A i \in 1..n :
           /\ table'[i].prio = table[i].prio /\ table'[i].cycle = table[i].cycle
           /\ table'[i].due = table[i].due /\ table'[i].state = table[i].state
  BY RegisteredTable DEF SearchInv
<1>3. n \in Nat /\ \A v \in 1..n : idMap[v] \in 1..n
  BY EventTypes
<1>4. \A v \in 1..n : InTick(v)' <=> InTick(v)
  BY <1>1 DEF InTick
<1>5. TimesInv' /\ PlanLeft' = PlanLeft /\ PlanPending' = PlanPending
  BY <1>1, <1>2, <1>4, QuietTimes
<1>6. \A i \in 1..n : TasksOf(i)' = IF i = e THEN Append(TasksOf(i), new) ELSE TasksOf(i)
  BY RegisteredTasks
<1>7. \A v \in 1..n : v # id => idMap[v] # e
  <2> SUFFICES ASSUME NEW v \in 1..n, v # id PROVE idMap[v] # idMap[id]
    OBVIOUS
  <2>1. v < id \/ id < v
    BY <1>2, <1>3
  <2> QED BY <1>2, <2>1 DEF IdsInv
<1> HIDE DEF id, e, new, n
<1>8. \A v \in 1..n :
        /\ EventOf(v)'.prio = EventOf(v).prio /\ EventOf(v)'.cycle = EventOf(v).cycle
        /\ EventOf(v)'.state = EventOf(v).state
  BY <1>1, <1>2, <1>3 DEF EventOf
<1>9. \A v \in 1..n : TasksOf(idMap[v])' = IF v = id THEN Append(TasksOf(idMap[v]), new)
                                                     ELSE TasksOf(idMap[v])
  <2> SUFFICES ASSUME NEW v \in 1..n
               PROVE  TasksOf(idMap[v])' = IF v = id THEN Append(TasksOf(idMap[v]), new)
                                                     ELSE TasksOf(idMap[v])
    OBVIOUS
  <2>1. PICK i \in 1..n : i = idMap[v]
    BY <1>3
  <2>2. TasksOf(idMap[v])' = TasksOf(i)'
    BY <1>1, <2>1 DEF TasksOf
  <2>3. i = e <=> v = id
    BY <1>2, <1>7, <2>1 DEF e
  <2> QED BY <1>6, <2>1, <2>2, <2>3
<1>10. PlanEvents' = [PlanEvents EXCEPT ![id].tasks = Append(@, new)]
  <2>1. PlanEvents' = [v \in 1..n |-> [prio |-> EventOf(v)'.prio, cycle |-> EventOf(v)'.cycle,
                                       tasks |-> TasksOf(idMap[v])']]
    BY <1>2 DEF PlanEvents, n
  <2>2. PlanEvents = [v \in 1..n |-> [prio |-> EventOf(v).prio, cycle |-> EventOf(v).cycle,
                                      tasks |-> TasksOf(idMap[v])]]
    BY DEF PlanEvents, n
  <2>3. \A v \in 1..n : PlanEvents'[v] = [PlanEvents EXCEPT ![id].tasks = Append(@, new)][v]
    <3> TAKE v \in 1..n
    <3>1. PlanEvents'[v] = [prio |-> EventOf(v).prio, cycle |-> EventOf(v).cycle,
                            tasks |-> IF v = id THEN Append(TasksOf(idMap[v]), new)
                                                ELSE TasksOf(idMap[v])]
      BY <1>8, <1>9, <2>1
    <3>2. PlanEvents[v] = [prio |-> EventOf(v).prio, cycle |-> EventOf(v).cycle,
                           tasks |-> TasksOf(idMap[v])]
      BY <2>2
    <3>3. CASE v = id
      <4>1. [PlanEvents EXCEPT ![id].tasks = Append(@, new)][v]
              = [PlanEvents[v] EXCEPT !.tasks = Append(PlanEvents[v].tasks, new)]
        BY <2>2, <3>3
      <4> QED BY <3>1, <3>2, <3>3, <4>1
    <3>4. CASE v # id
      <4>1. [PlanEvents EXCEPT ![id].tasks = Append(@, new)][v] = PlanEvents[v]
        BY <2>2, <3>4
      <4> QED BY <3>1, <3>2, <3>4, <4>1
    <3> QED BY <3>3, <3>4
  <2> QED BY <2>1, <2>2, <2>3
<1>11. PlanTriggered' = PlanTriggered
  BY <1>2, <1>8 DEF PlanTriggered, n
<1>12. Plan!Register(id, new)
  BY <1>1, <1>5, <1>10, <1>11
     DEF Plan!Register, PlanEvents, PlanLeft, PlanPending, PlanTriggered
<1>13. id \in Plan!IDs
  BY <1>2, PlanShapeHolds DEF PlanShape, Plan!IDs, PlanEvents, n
<1>14. new \in {[fct |-> i.fct, pid |-> i.pid] : i \in TaskInputs}
  BY DEF new
<1> QED BY <1>5, <1>12, <1>13, <1>14 DEF Plan!Next

-----------------------------------------------------------------------------
LEMMA NextKeepsPlan ==
  ASSUME IInv, SearchInv', [Next]_vars
  PROVE  TimesInv' /\ [Plan!Next]_(Plan!vars)
<1> USE DEF IInv
<1>1. CASE \E in \in EventInputs : CreateEvent(in)
  BY <1>1, CreateStep
<1>2. CASE \E in \in TaskInputs : RegisterTask(in)
  BY <1>2, RegisterStep
<1>3. CASE (\E in \in TaskInputs : RegisterInitTask(in)) \/ UNCHANGED vars
  BY <1>3, InitTaskStep
<1>4. CASE InitKernel
  BY <1>4, InitKernelStep
<1>5. CASE ReleaseScheduler
  BY <1>5, ReleaseStep
<1>6. CASE OnOsTimerTick
  <2>1. phase = "init" \/ phase = "run"
    BY <1>6 DEF OnOsTimerTick
  <2> QED BY <1>6, <2>1, InitTickStep, RunTickStep
<1>7. CASE CheckEventDue
  <2>1. phase = "init" \/ phase = "run"
    BY <1>7 DEF CheckEventDue, SearchInv, PhaseInv, TypeOK
  <2> QED BY <1>7, <2>1, InitCheckStep, RunCheckStep
<1>8. CASE \E i \in 1..MaxEvents : TriggerEvent(i) \/ ServeEvent(i)
  BY <1>8, TriggerStep, ServeStep
<1> QED BY <1>1, <1>2, <1>3, <1>4, <1>5, <1>6, <1>7, <1>8 DEF Next

(* The tables keep the plan: whatever has been created and registered in   *)
(* which order, each event has its priority, its cycle and its tasks in    *)
(* order of registration, and is triggered at first, first + cycle, ...    *)
(* after the release, in order of priority within a tick, although events  *)
(* and tasks move while the tables are built (rtos_scheduler.c:1153) and   *)
(* the clock wraps (rtos_scheduler.c:331).                                 *)
THEOREM PlanIsKept == Spec => KeepsThePlan
<1>1. Init => IInv /\ Plan!Init
  BY InitSearch, InitPlan DEF IInv
<1>2. IInv /\ [Next]_vars => IInv' /\ [Plan!Next]_(Plan!vars)
  <2> SUFFICES ASSUME IInv, [Next]_vars PROVE IInv' /\ [Plan!Next]_(Plan!vars)
    OBVIOUS
  <2>1. SearchInv' /\ IdsInv'
    BY NextKeepsSearch, NextKeepsIds DEF IInv
  <2>2. TimesInv' /\ [Plan!Next]_(Plan!vars)
    BY <2>1, NextKeepsPlan
  <2> QED BY <2>1, <2>2 DEF IInv
<1> QED BY <1>1, <1>2, PTL DEF Spec, KeepsThePlan, Plan!Spec
=============================================================================
