---------------------------- MODULE RTuinOSProofs ----------------------------
(***************************************************************************)
(* What the kernel of RTuinOS guarantees for any number of tasks, classes  *)
(* and sync objects: IInv is an inductive invariant, and the safety        *)
(* properties of RTuinOS follow from it.                                   *)
(***************************************************************************)
EXTENDS RTuinOSLists, FiniteSetTheorems

-----------------------------------------------------------------------------
(* The due lists. *)

(* d has the tasks that are not in S, each one in the list of its class.   *)
DueOf(d, S) ==
  /\ d \in [1..NoClasses -> Seq(Task)]
  /\ \A c \in 1..NoClasses : /\ Injective(d[c])
                             /\ Elements(d[c]) = {t \in Task \ S : Class[t] = c}

LEMMA Constants ==
  /\ NoTasks \in Nat /\ NoClasses \in Nat \ {0} /\ MaxOverrun \in Nat
  /\ Idle \in Nat /\ Idle \notin Task /\ Task \subseteq 1..Idle /\ Idle \in 1..Idle
  /\ \A x \in 1..Idle : x # Idle => x \in Task
  /\ \A t \in Task : Class[t] \in 1..NoClasses
BY RTuinOSAssumption DEF Task, Idle

LEMMA DueElement ==
  ASSUME NEW d, NEW S, DueOf(d, S), NEW c \in 1..NoClasses, NEW i \in 1..Len(d[c])
  PROVE  d[c][i] \in Task \ S /\ Class[d[c][i]] = c
BY DEF DueOf, Elements

LEMMA HighestDueProperties ==
  ASSUME NEW d, NEW S, DueOf(d, S)
  PROVE  LET h == HighestDue(d) IN
         /\ h \in 1..Idle
         /\ h # Idle => h \in Task \ S /\ d[Class[h]] # <<>> /\ h = d[Class[h]][1]
<1> DEFINE classes == {c \in 1..NoClasses : d[c] # <<>>}
           top == Greatest(classes)
<1>1. CASE classes = {}
  BY <1>1, Constants DEF HighestDue
<1>2. CASE classes # {}
  <2>1. top \in classes
    <3> HIDE DEF classes
    <3>1. classes \in SUBSET (1..NoClasses)
      BY DEF classes
    <3> QED BY <1>2, <3>1, GreatestProperties, Constants
  <2>2. HighestDue(d) = d[top][1]
    BY <1>2 DEF HighestDue
  <2> HIDE DEF top
  <2>3. top \in 1..NoClasses /\ d[top] \in Seq(Task) /\ d[top] # <<>>
    BY <2>1 DEF DueOf
  <2>4. 1 \in 1..Len(d[top])
    BY <2>3, EmptySeq
  <2>5. d[top][1] \in Task \ S /\ Class[d[top][1]] = top
    BY <2>3, <2>4, DueElement
  <2> QED BY <2>2, <2>3, <2>5, Constants
<1> QED BY <1>1, <1>2

LEMMA DueNow ==
  ASSUME TypeOK, ListInv
  PROVE  DueOf(due, Suspended) /\ Suspended \subseteq Task
BY DEF TypeOK, ListInv, DueOf

(* The active task is due and at the head of its list.                     *)
LEMMA ActiveIsHead ==
  ASSUME TypeOK, ListInv, active # Idle
  PROVE  /\ active \in Task \ Suspended /\ Class[active] \in 1..NoClasses
         /\ due[Class[active]] # <<>> /\ active = due[Class[active]][1]
<1>1. active = HighestDue(due)
  BY DEF ListInv
<1> QED BY <1>1, DueNow, HighestDueProperties, Constants

(* Tasks that are resumed join the lists of their classes.                 *)
LEMMA DueWithProperties ==
  ASSUME TypeOK, ListInv, NEW R \in SUBSET Suspended
  PROVE  /\ DueOf(DueWith(R), Suspended \ R)
         /\ \A c \in 1..NoClasses : due[c] # <<>> =>
              DueWith(R)[c] # <<>> /\ DueWith(R)[c][1] = due[c][1]
         /\ R = {} => DueWith(R) = due
<1> DEFINE S(c) == {t \in R : Class[t] = c}
           q(c) == Those(susp, S(c))
           d == DueWith(R)
<1>1. DueOf(due, Suspended) /\ Suspended \subseteq Task
  BY DueNow
<1>2. d = [c \in 1..NoClasses |-> due[c] \o q(c)]
  BY DEF DueWith
<1> HIDE DEF d
<1>3. ASSUME NEW c \in 1..NoClasses
      PROVE  /\ d[c] \in Seq(Task) /\ Injective(d[c])
             /\ Elements(d[c]) = {t \in Task \ (Suspended \ R) : Class[t] = c}
             /\ due[c] # <<>> => d[c] # <<>> /\ d[c][1] = due[c][1]
             /\ R = {} => d[c] = due[c]
  <2>1. d[c] = due[c] \o q(c)
    BY <1>2
  <2>2. q(c) \in Seq(Task) /\ Injective(q(c)) /\ Elements(q(c)) = Elements(susp) \cap S(c)
    <3>1. susp \in Seq(Task) /\ Injective(susp)
      BY DEF ListInv
    <3> HIDE DEF S
    <3> QED BY <3>1, ThoseElements, ThoseOrder
  <2>3. Elements(q(c)) = S(c)
    BY <2>2 DEF Suspended
  <2> HIDE DEF q
  <2>4. /\ due[c] \in Seq(Task) /\ Injective(due[c])
        /\ Elements(due[c]) = {t \in Task \ Suspended : Class[t] = c}
    BY <1>1 DEF DueOf
  <2>5. Elements(due[c]) \cap Elements(q(c)) = {}
    BY <2>3, <2>4
  <2>6. /\ d[c] \in Seq(Task) /\ Injective(d[c])
        /\ Elements(d[c]) = Elements(due[c]) \cup Elements(q(c))
    BY <2>1, <2>2, <2>4, <2>5, ConcatOrder
  <2>7. Elements(d[c]) = {t \in Task \ (Suspended \ R) : Class[t] = c}
    BY <1>1, <2>3, <2>4, <2>6
  <2>8. ASSUME due[c] # <<>> PROVE d[c] # <<>> /\ d[c][1] = due[c][1]
    <3>1. /\ Len(d[c]) = Len(due[c]) + Len(q(c)) /\ Len(due[c]) \in Nat \ {0} /\ Len(q(c)) \in Nat
          /\ \A i \in 1..(Len(due[c]) + Len(q(c))) :
               d[c][i] = IF i <= Len(due[c]) THEN due[c][i] ELSE q(c)[i - Len(due[c])]
      BY <2>1, <2>2, <2>4, <2>8, ConcatProperties, EmptySeq, LenProperties
    <3>2. 1 \in 1..(Len(due[c]) + Len(q(c))) /\ 1 <= Len(due[c])
      BY <3>1
    <3>3. d[c] # <<>>
      BY <3>1, EmptySeq
    <3> QED BY <3>1, <3>2, <3>3
  <2>9. ASSUME R = {} PROVE d[c] = due[c]
    <3>1. Elements(q(c)) = {}
      BY <2>3, <2>9
    <3>2. q(c) = <<>>
      <4> SUFFICES ASSUME q(c) # <<>> PROVE FALSE
        OBVIOUS
      <4>1. 1 \in 1..Len(q(c))
        BY <2>2, EmptySeq
      <4> QED BY <3>1, <4>1 DEF Elements
    <3> QED BY <2>1, <2>4, <3>2, ConcatEmptySeq
  <2> QED BY <2>6, <2>7, <2>8, <2>9
<1>4. d \in [1..NoClasses -> Seq(Task)]
  <2>1. \A c \in 1..NoClasses : due[c] \o q(c) \in Seq(Task)
    BY <1>2, <1>3
  <2> QED BY <1>2, <2>1
<1>5. R = {} => d = due
  <2>1. due \in [1..NoClasses -> Seq(Task)]
    BY <1>1 DEF DueOf
  <2>2. ASSUME R = {} PROVE \A c \in 1..NoClasses : d[c] = due[c]
    BY <1>3, <2>2
  <2>3. due = [c \in 1..NoClasses |-> due[c]] /\ d = [c \in 1..NoClasses |-> d[c]]
    BY <1>4, <2>1
  <2> QED BY <2>2, <2>3, Zenon
<1> QED BY <1>3, <1>4, <1>5 DEF DueOf, d
(* The active task goes to the end of its list.                            *)
LEMMA RollProperties ==
  ASSUME TypeOK, ListInv, NEW R \in SUBSET Suspended, NEW s
  PROVE  /\ DueOf(Roll(DueWith(R), s), Suspended \ R)
         /\ ~Rolls(DueWith(R), s) => Roll(DueWith(R), s) = DueWith(R)
<1> DEFINE d == DueWith(R)
<1>1. DueOf(d, Suspended \ R)
  BY DueWithProperties
<1>2. CASE Rolls(d, s)
  <2> DEFINE c == Class[active]
             q == Append(Tail(d[c]), active)
             e == [d EXCEPT ![c] = q]
  <2>1. active # Idle
    BY <1>2 DEF Rolls, SliceElapsed
  <2>2. /\ active \in Task \ Suspended /\ c \in 1..NoClasses
        /\ d[c] # <<>> /\ d[c][1] = active
    BY <2>1, ActiveIsHead, DueWithProperties
  <2>3. Roll(d, s) = e
    BY <1>2 DEF Roll
  <2> HIDE DEF d, c
  <2>4. /\ d[c] \in Seq(Task) /\ Injective(d[c])
        /\ Elements(d[c]) = {t \in Task \ (Suspended \ R) : Class[t] = c}
    BY <1>1, <2>2 DEF DueOf
  <2>5. /\ active \in Elements(d[c]) /\ Tail(d[c]) \in Seq(Task) /\ Injective(Tail(d[c]))
        /\ Elements(Tail(d[c])) = Elements(d[c]) \ {active}
    BY <2>2, <2>4, TailElements
  <2>6. q \in Seq(Task) /\ Injective(q) /\ Elements(q) = Elements(d[c])
    <3>1. active \notin Elements(Tail(d[c])) /\ active \in Task
      BY <2>2, <2>5
    <3>2. /\ q \in Seq(Task) /\ Injective(q)
          /\ Elements(q) = Elements(Tail(d[c])) \cup {active}
      BY <2>5, <3>1, AppendOrder
    <3> QED BY <2>5, <3>2
  <2> HIDE DEF q
  <2>7. /\ e \in [1..NoClasses -> Seq(Task)]
        /\ \A k \in 1..NoClasses : e[k] = IF k = c THEN q ELSE d[k]
    BY <1>1, <2>2, <2>6 DEF DueOf
  <2> HIDE DEF e
  <2>8. DueOf(e, Suspended \ R)
    BY <1>1, <2>4, <2>6, <2>7 DEF DueOf
  <2> QED BY <1>2, <2>3, <2>8 DEF d
<1>3. CASE ~Rolls(d, s)
  <2>1. Roll(d, s) = d
    BY <1>3 DEF Roll
  <2> QED BY <1>1, <1>3, <2>1
<1> QED BY <1>2, <1>3

(* Where the kernel looks for no other task, the active one is the one.    *)
LEMMA NextActiveIsHighest ==
  ASSUME TypeOK, ListInv, NEW R \in SUBSET Suspended, NEW s
  PROVE  /\ NextActive(R, Roll(DueWith(R), s), Rolls(DueWith(R), s))
              = HighestDue(Roll(DueWith(R), s))
         /\ NextActive(R, DueWith(R), FALSE) = HighestDue(DueWith(R))
<1>1. R = {} => DueWith(R) = due
  BY DueWithProperties
<1>2. ~Rolls(DueWith(R), s) => Roll(DueWith(R), s) = DueWith(R)
  BY RollProperties
<1>3. active = HighestDue(due)
  BY DEF ListInv
<1> QED BY <1>1, <1>2, <1>3 DEF NextActive

(* Who has left the list of suspended tasks, leaves the others in order.   *)
LEMMA LeaveProperties ==
  ASSUME TypeOK, ListInv, OrderInv, NEW R \in SUBSET Suspended, Leave(R)
  PROVE  /\ Suspended' = Suspended \ R
         /\ susp' \in Seq(Task) /\ Injective(susp')
         /\ arrived' \in Seq(Task) /\ Injective(arrived') /\ Elements(arrived') = Suspended \ R
         /\ \A t, u \in Suspended \ R :
              /\ Precedes(susp', t, u) <=> Precedes(susp, t, u)
              /\ Precedes(arrived', t, u) <=> Precedes(arrived, t, u)
         /\ OrderInv'
<1> DEFINE S == Task \ R
<1>1. /\ susp \in Seq(Task) /\ Injective(susp)
      /\ arrived \in Seq(Task) /\ Injective(arrived) /\ Elements(arrived) = Suspended
      /\ Suspended = Elements(susp)
  BY DEF ListInv, Suspended
<1>2. susp' = Those(susp, S) /\ arrived' = Those(arrived, S)
  BY DEF Leave
<1>3. Suspended \cap S = Suspended \ R /\ Suspended \ R \subseteq S
  BY DueNow
<1> HIDE DEF S
<1>4. /\ susp' \in Seq(Task) /\ Elements(susp') = Suspended \ R /\ Injective(susp')
      /\ \A t, u \in S : Precedes(susp', t, u) <=> Precedes(susp, t, u)
  BY <1>1, <1>2, <1>3, ThoseElements, ThoseOrder
<1>5. /\ arrived' \in Seq(Task) /\ Elements(arrived') = Suspended \ R /\ Injective(arrived')
      /\ \A t, u \in S : Precedes(arrived', t, u) <=> Precedes(arrived, t, u)
  BY <1>1, <1>2, <1>3, ThoseElements, ThoseOrder
<1>6. Suspended' = Suspended \ R
  BY <1>4 DEF Suspended
<1>7. OrderInv'
  BY <1>3, <1>4, <1>5, <1>6 DEF OrderInv
<1> QED BY <1>3, <1>4, <1>5, <1>6, <1>7
-----------------------------------------------------------------------------
(* A step that posts events to suspended tasks. *)

(* What Tick and SendEvent have in common: p is what is posted then, d are *)
(* the due lists and h the sync objects that the tasks own before a switch.*)
Serves(p, d, h) ==
  /\ p \in [1..Idle -> SUBSET AnyEvent]
  /\ \A t \in 1..Idle : posted[t] \subseteq p[t] /\ (t \notin Suspended => p[t] = posted[t])
  /\ \A t \in Task : p[t] \subseteq mask[t]
  /\ h \in [Task -> SUBSET SyncObject]
  /\ \A t \in Task : h[t] \subseteq holds[t]
  /\ Leave(Resumed(p))
  /\ due' = d
  /\ DueOf(d, Suspended \ Resumed(p))
  /\ SwitchTo(HighestDue(d), p, ctx, h)
  /\ UNCHANGED <<mask, any>>

LEMMA ServedSwitch ==
  ASSUME IInv, NEW p, NEW d, NEW h, Serves(p, d, h)
  PROVE  /\ active' \in 1..Idle
         /\ active' # Idle => active' \in Task \ Suspended'
         /\ Suspended' = Suspended \ Resumed(p) /\ Suspended' \subseteq Suspended
         /\ posted' \in [1..Idle -> SUBSET AnyEvent]
         /\ \A t \in 1..Idle : posted'[t] = IF t = active' /\ t # active THEN {} ELSE p[t]
         /\ ctx' \in [Task -> {"new", "wait", "run"}]
         /\ \A t \in Task : ctx'[t] = IF t = active' THEN "run" ELSE ctx[t]
         /\ holds' \in [Task -> SUBSET SyncObject]
         /\ \A t \in Task : t # active' => holds'[t] = h[t]
         /\ \A t \in Task : posted'[t] \cup holds'[t] \subseteq p[t] \cup h[t]
         /\ \A t \in Task : (p[t] \cup h[t]) \cap SyncObject \subseteq posted'[t] \cup holds'[t]
<1> DEFINE n == HighestDue(d)
<1>1. /\ TypeOK /\ ListInv /\ OrderInv /\ WaitInv /\ SignalReachesTask
  BY DEF IInv
<1>2. Suspended' = Suspended \ Resumed(p) /\ Resumed(p) \subseteq Suspended
  <2>1. Resumed(p) \in SUBSET Suspended /\ Leave(Resumed(p))
    BY DEF Resumed, Serves
  <2> QED BY <1>1, <2>1, LeaveProperties
<1>3. n \in 1..Idle /\ (n # Idle => n \in Task \ (Suspended \ Resumed(p)))
  BY HighestDueProperties DEF Serves
<1> HIDE DEF n
<1>4. /\ active' = n
      /\ posted' = IF n = active THEN p ELSE [p EXCEPT ![n] = {}]
      /\ ctx' = IF n \in {active, Idle} THEN ctx ELSE [ctx EXCEPT ![n] = "run"]
      /\ holds' = IF n \in {active, Idle} \/ ctx[n] = "run" THEN h
                  ELSE [h EXCEPT ![n] = @ \cup (p[n] \cap SyncObject)]
  BY DEF Serves, SwitchTo, n
<1>5. /\ p \in [1..Idle -> SUBSET AnyEvent] /\ h \in [Task -> SUBSET SyncObject]
      /\ ctx \in [Task -> {"new", "wait", "run"}]
  BY <1>1 DEF Serves, TypeOK
<1>6. active # Idle => active \in Task /\ ctx[active] = "run"
  BY <1>1, ActiveIsHead DEF WaitInv
<1>7. /\ posted' \in [1..Idle -> SUBSET AnyEvent]
      /\ \A t \in 1..Idle : posted'[t] = IF t = active' /\ t # active THEN {} ELSE p[t]
  BY <1>3, <1>4, <1>5
<1>8. /\ ctx' \in [Task -> {"new", "wait", "run"}]
      /\ \A t \in Task : ctx'[t] = IF t = active' THEN "run" ELSE ctx[t]
  BY <1>3, <1>4, <1>5, <1>6, Constants
<1>9. /\ holds' \in [Task -> SUBSET SyncObject]
      /\ \A t \in Task : t # active' => holds'[t] = h[t]
      /\ \A t \in Task : t = active' => \/ holds'[t] = h[t] /\ (t = active \/ ctx[t] = "run")
                                        \/ holds'[t] = h[t] \cup (p[t] \cap SyncObject)
  BY <1>3, <1>4, <1>5, Constants
<1>10. \A t \in Task : t # active /\ ctx[t] = "run" => p[t] = {}
  <2> SUFFICES ASSUME NEW t \in Task, t # active, ctx[t] = "run"
               PROVE  p[t] = {}
    OBVIOUS
  <2>1. t \notin Suspended
    BY <1>1 DEF SignalReachesTask
  <2>2. posted[t] = {}
    BY <1>1, <2>1 DEF SignalReachesTask
  <2> QED BY <2>1, <2>2, Constants DEF Serves
<1>11. ASSUME NEW t \in Task
       PROVE  /\ posted'[t] \cup holds'[t] \subseteq p[t] \cup h[t]
              /\ (p[t] \cup h[t]) \cap SyncObject \subseteq posted'[t] \cup holds'[t]
  <2>1. t \in 1..Idle /\ h[t] \subseteq SyncObject
    BY <1>5, Constants
  <2>2. CASE t # active'
    BY <1>7, <1>9, <2>1, <2>2
  <2>3. CASE t = active' /\ t = active
    BY <1>7, <1>9, <2>1, <2>3
  <2>4. CASE t = active' /\ t # active /\ ctx[t] = "run"
    BY <1>7, <1>9, <1>10, <2>1, <2>4
  <2>5. CASE t = active' /\ t # active /\ ctx[t] # "run"
    BY <1>7, <1>9, <2>1, <2>5
  <2> QED BY <2>2, <2>3, <2>4, <2>5
<1> QED BY <1>2, <1>3, <1>4, <1>7, <1>8, <1>9, <1>11

LEMMA ServedLists ==
  ASSUME IInv, NEW p, NEW d, NEW h, Serves(p, d, h)
  PROVE  ListInv' /\ OrderInv'
<1>1. TypeOK /\ ListInv /\ OrderInv
  BY DEF IInv
<1>2. Resumed(p) \in SUBSET Suspended /\ Leave(Resumed(p))
  BY DEF Resumed, Serves
<1>3. /\ Suspended' = Suspended \ Resumed(p) /\ susp' \in Seq(Task) /\ Injective(susp')
      /\ arrived' \in Seq(Task) /\ Injective(arrived')
      /\ Elements(arrived') = Suspended \ Resumed(p) /\ OrderInv'
  BY <1>1, <1>2, LeaveProperties
<1>4. DueOf(due', Suspended') /\ active' = HighestDue(due')
  BY <1>3 DEF Serves, SwitchTo
<1> QED BY <1>3, <1>4 DEF ListInv, DueOf

LEMMA ServedWaits ==
  ASSUME IInv, NEW p, NEW d, NEW h, Serves(p, d, h)
  PROVE  /\ WaitInv' /\ SignalReachesTask'
         /\ \A t \in Suspended' : Misses(t)' /\ posted'[t] = p[t]
<1>1. /\ TypeOK /\ ListInv /\ WaitInv /\ SignalReachesTask /\ NobodyWaitsInVain
  BY DEF IInv
<1>2. /\ active' \in 1..Idle
      /\ active' # Idle => active' \in Task \ Suspended'
      /\ Suspended' = Suspended \ Resumed(p) /\ Suspended' \subseteq Suspended
      /\ \A t \in 1..Idle : posted'[t] = IF t = active' /\ t # active THEN {} ELSE p[t]
      /\ \A t \in Task : ctx'[t] = IF t = active' THEN "run" ELSE ctx[t]
      /\ \A t \in Task : t # active' => holds'[t] = h[t]
  BY ServedSwitch
<1>3. /\ \A t \in 1..Idle : posted[t] \subseteq p[t] /\ (t \notin Suspended => p[t] = posted[t])
      /\ \A t \in Task : p[t] \subseteq mask[t] /\ h[t] \subseteq holds[t]
      /\ mask' = mask /\ any' = any
  BY DEF Serves
<1>4. Suspended \subseteq Task /\ active \notin Suspended
  BY <1>1, ActiveIsHead, Constants, DueNow
<1>5. WaitInv'
  <2>1. active' # Idle => ctx'[active'] = "run"
    BY <1>2
  <2>2. \A t \in Task : posted'[t] \subseteq mask'[t]
    BY <1>2, <1>3, Constants
  <2>3. \A t \in Task : ctx'[t] # "run" => mask'[t] \cap holds'[t] = {}
    BY <1>1, <1>2, <1>3 DEF WaitInv
  <2> QED BY <2>1, <2>2, <2>3 DEF WaitInv
<1>6. ASSUME NEW t \in Suspended'
      PROVE  Misses(t)' /\ posted'[t] = p[t] /\ ctx'[t] # "run"
  <2>1. t \in Suspended /\ t \notin Resumed(p) /\ t \in Task /\ t \in 1..Idle /\ t # active'
    BY <1>2, <1>4, Constants
  <2>2. posted'[t] = p[t] /\ ctx'[t] = ctx[t]
    BY <1>2, <2>1
  <2>3. ctx'[t] # "run"
    BY <1>1, <2>1, <2>2 DEF SignalReachesTask
  <2>4. CASE p[t] = posted[t]
    <3>1. Misses(t)
      BY <1>1, <2>1 DEF NobodyWaitsInVain
    <3> QED BY <1>3, <2>2, <2>3, <2>4, <3>1 DEF Misses
  <2>5. CASE ~Fulfilled(any[t], mask[t], p[t])
    <3>1. p[t] \subseteq mask[t]
      BY <1>3, <2>1
    <3> QED BY <1>3, <2>2, <2>3, <2>5, <3>1 DEF Misses, Fulfilled
  <2> QED BY <2>1, <2>4, <2>5 DEF Resumed
<1>7. posted'[Idle] = {}
  <2>1. Idle \in 1..Idle /\ Idle \notin Suspended
    BY <1>4, Constants
  <2>2. p[Idle] = {}
    BY <1>1, <1>3, <2>1 DEF SignalReachesTask
  <2> QED BY <1>2, <2>1, <2>2
<1>8. ASSUME NEW t \in Task \ Suspended'
      PROVE  IF ctx'[t] = "run" THEN posted'[t] = {} ELSE ~Misses(t)'
  <2>0. t \in 1..Idle
    BY Constants
  <2>1. CASE t = active' /\ t # active
    BY <1>2, <2>0, <2>1
  <2>2. CASE t = active' /\ t = active
    <3>1. t \notin Suspended /\ ctx[t] = "run"
      BY <1>1, <1>4, <2>2, Constants DEF WaitInv
    <3>2. posted[t] = {}
      BY <1>1, <3>1 DEF SignalReachesTask
    <3> QED BY <1>2, <1>3, <2>0, <2>2, <3>1, <3>2
  <2>3. CASE t # active' /\ t \notin Suspended
    <3>1. posted'[t] = posted[t] /\ ctx'[t] = ctx[t]
      BY <1>2, <1>3, <2>0, <2>3
    <3>2. IF ctx[t] = "run" THEN posted[t] = {} ELSE ~Misses(t)
      BY <1>1, <2>3 DEF SignalReachesTask
    <3>3. Misses(t)' <=> Misses(t)
      BY <1>3, <3>1 DEF Misses
    <3> QED BY <3>1, <3>2, <3>3
  <2>4. CASE t # active' /\ t \in Suspended
    <3>1. Fulfilled(any[t], mask[t], p[t])
      BY <1>2, <2>4 DEF Resumed
    <3>2. posted'[t] = p[t] /\ ctx'[t] = ctx[t] /\ ctx[t] # "run"
      BY <1>1, <1>2, <2>0, <2>4 DEF SignalReachesTask
    <3>3. p[t] \subseteq mask[t]
      BY <1>3
    <3>4. ~Misses(t)'
      BY <1>3, <3>1, <3>2, <3>3 DEF Misses, Fulfilled
    <3> QED BY <3>2, <3>4
  <2> QED BY <2>1, <2>2, <2>3, <2>4
<1>9. SignalReachesTask'
  BY <1>6, <1>7, <1>8 DEF SignalReachesTask
<1> QED BY <1>5, <1>6, <1>9
-----------------------------------------------------------------------------
(* Sync objects on their way. *)

(* The tasks that have o when p is posted to them and h is what they own.  *)
Carriers(o, p, h) == {t \in Task : o \in p[t] \cup h[t]}

LEMMA HoldersFinite ==
  \A o : /\ IsFiniteSet(Holders(o)) /\ Holders(o) \subseteq Task
         /\ Holders(o) = Carriers(o, posted, holds)
<1> TAKE o
<1>1. Holders(o) = Carriers(o, posted, holds)
  BY DEF Holders, On, OwnedBy, Carriers
<1>2. Holders(o) \in SUBSET Task
  BY <1>1 DEF Carriers
<1>3. IsFiniteSet(Task)
  BY FS_Interval, Constants DEF Task
<1> QED BY <1>1, <1>2, <1>3, FS_Subset

LEMMA ServedCarriers ==
  ASSUME IInv, NEW p, NEW d, NEW h, Serves(p, d, h), NEW o \in SyncObject
  PROVE  Holders(o)' = Carriers(o, p, h)
<1>1. \A t \in Task : /\ posted'[t] \cup holds'[t] \subseteq p[t] \cup h[t]
                      /\ (p[t] \cup h[t]) \cap SyncObject \subseteq posted'[t] \cup holds'[t]
  BY ServedSwitch
<1>2. Holders(o)' = {t \in Task : o \in posted'[t] \cup holds'[t]}
  BY DEF Holders, On, OwnedBy
<1> QED BY <1>1, <1>2 DEF Carriers

-----------------------------------------------------------------------------
(* Types. *)

LEMMA TimeType ==
  /\ Modulus \in Nat \ {0} /\ Half \in Nat \ {0} /\ Modulus = 2 * Half /\ 0 \in Time
  /\ \A x \in Int : x % Modulus \in Time
  /\ \A x \in Time : DelayOf(x) \in Time /\ (x # 0 => x - 1 \in Time)
<1>1. Modulus \in Nat \ {0} /\ Half \in Nat \ {0} /\ Modulus = 2 * Half
  BY WidthAssumption
<1> DEFINE m == Modulus
<1>2. m \in Nat \ {0}
  BY <1>1
<1> HIDE DEF m
<1>3. \A x \in Int : x % m \in 0..(m - 1)
  BY <1>2
<1>4. \A x \in 0..(m - 1) : (IF x + 1 < m THEN x + 1 ELSE x) \in 0..(m - 1)
  BY <1>2
<1>5. 0 \in 0..(m - 1) /\ \A x \in 0..(m - 1) : x # 0 => x - 1 \in 0..(m - 1)
  BY <1>2
<1> QED BY <1>1, <1>3, <1>4, <1>5 DEF m, Time, DelayOf

LEMMA DueTimeType ==
  ASSUME time \in Time, NEW x \in Time, NEW y \in Time
  PROVE  DueTime(x, y) \in Time
<1>1. time + 1 \in Int /\ x + y \in Int
  BY DEF Time
<1>2. (time + 1) % Modulus \in Time /\ (x + y) % Modulus \in Time
  BY <1>1, TimeType
<1> QED BY <1>2 DEF DueTime

LEMMA RequestType ==
  \A t \in Task : \A r \in Requests[t] \cup {Start[t]} :
    /\ r.mask \in SUBSET AnyEvent /\ r.mask # {} /\ r.all \in BOOLEAN /\ r.timeout \in Time
    /\ Permitted(r)
<1> SUFFICES ASSUME NEW t \in Task, NEW r \in Requests[t] \cup {Start[t]}
             PROVE  /\ r.mask \in SUBSET AnyEvent /\ r.mask # {} /\ r.all \in BOOLEAN
                    /\ r.timeout \in Time /\ Permitted(r)
  OBVIOUS
<1>1. r \in Request
  BY RTuinOSAssumption
<1>2. Permitted(r)
  BY RTuinOSAssumption
<1> QED BY <1>1, <1>2 DEF Request

LEMMA TimersAreNoObjects ==
  /\ Timer \cap SyncObject = {} /\ Event \cap SyncObject = {} /\ Event \cap Timer = {}
  /\ Mutex \cap Semaphore = {} /\ SyncObject \subseteq AnyEvent /\ Event \subseteq AnyEvent
  /\ Timer \subseteq AnyEvent
BY RTuinOSAssumption DEF AnyEvent, SyncObject
-----------------------------------------------------------------------------
(* The tick. *)

TickPosted == [t \in 1..Idle |-> IF t \in Suspended
                                 THEN posted[t] \cup (Elapsed(t) \cap mask[t]) ELSE posted[t]]
TickDue == Roll(DueWith(Resumed(TickPosted)), SliceWith(Resumed(TickPosted)))

LEMMA TickServes ==
  ASSUME IInv, Tick
  PROVE  Serves(TickPosted, TickDue, holds)
<1> DEFINE p == TickPosted
           R == Resumed(p)
           s == SliceWith(R)
<1>1. TypeOK /\ ListInv /\ WaitInv
  BY DEF IInv
<1>2. R \in SUBSET Suspended
  BY DEF Resumed
<1>3. /\ Leave(R) /\ due' = TickDue /\ UNCHANGED <<mask, any>>
      /\ SwitchTo(NextActive(R, TickDue, Rolls(DueWith(R), s)), p, ctx, holds)
  BY DEF Tick, TickPosted, TickDue
<1>4. /\ DueOf(TickDue, Suspended \ R)
      /\ NextActive(R, TickDue, Rolls(DueWith(R), s)) = HighestDue(TickDue)
  <2> HIDE DEF p, R
  <2> QED BY <1>1, <1>2, RollProperties, NextActiveIsHighest DEF TickDue, R, p
<1>5. /\ posted \in [1..Idle -> SUBSET AnyEvent] /\ holds \in [Task -> SUBSET SyncObject]
      /\ mask \in [Task -> SUBSET AnyEvent] /\ Suspended \subseteq Task
  BY <1>1 DEF TypeOK
<1>6. p \in [1..Idle -> SUBSET AnyEvent]
  <2>1. \A t \in Suspended : mask[t] \subseteq AnyEvent
    BY <1>5
  <2> QED BY <1>5, <2>1 DEF TickPosted
<1>7. /\ \A t \in 1..Idle : posted[t] \subseteq p[t] /\ (t \notin Suspended => p[t] = posted[t])
      /\ \A t \in Task : p[t] \subseteq mask[t]
  BY <1>1, Constants DEF TickPosted, WaitInv
<1> HIDE DEF p, R
<1> QED BY <1>3, <1>4, <1>5, <1>6, <1>7 DEF Serves, R, p

LEMMA TickType ==
  ASSUME IInv, Tick
  PROVE  TypeOK'
<1>1. TypeOK /\ ListInv
  BY DEF IInv
<1>2. Serves(TickPosted, TickDue, holds)
  BY TickServes
<1>3. /\ active' \in 1..Idle /\ posted' \in [1..Idle -> SUBSET AnyEvent]
      /\ ctx' \in [Task -> {"new", "wait", "run"}] /\ holds' \in [Task -> SUBSET SyncObject]
      /\ Suspended' \subseteq Suspended
  BY <1>2, ServedSwitch
<1>4. Suspended' \subseteq Task /\ Elements(arrived') = Suspended'
  BY <1>1, <1>2, <1>3, DueNow, ServedLists DEF ListInv
<1>5. due' \in [1..NoClasses -> Seq(Task)]
  BY <1>2 DEF Serves, DueOf
<1>6. time' \in Time /\ delay' \in [Task -> Time]
  <2>1. time' = (time + 1) % Modulus /\ time + 1 \in Int
    BY <1>1 DEF Tick, TypeOK, Time
  <2>2. delay' = [t \in Task |-> IF t \in Suspended /\ delay[t] # 0
                                 THEN delay[t] - 1 ELSE delay[t]]
    BY DEF Tick
  <2>3. delay \in [Task -> Time]
    BY <1>1 DEF TypeOK
  <2> QED BY <2>1, <2>2, <2>3, TimeType
<1>7. slice' \in [Task -> Time]
  <2> DEFINE s == SliceWith(Resumed(TickPosted))
  <2>1. slice' = CountSlice(s)
    BY DEF Tick, TickPosted
  <2>2. slice \in [Task -> Time] /\ Slice \in [Task -> Time]
    BY <1>1, RTuinOSAssumption DEF TypeOK
  <2>3. s \in [Task -> Time]
    BY <2>2 DEF SliceWith
  <2> HIDE DEF s
  <2>4. CASE active = Idle \/ s[active] = 0
    BY <2>1, <2>3, <2>4 DEF CountSlice
  <2>5. CASE ~(active = Idle \/ s[active] = 0)
    <3>1. active \in Task
      BY <1>1, <2>5, ActiveIsHead
    <3>2. slice' = [s EXCEPT ![active] = IF @ = 1 THEN Slice[active] ELSE @ - 1]
      BY <2>1, <2>5 DEF CountSlice
    <3>3. (IF s[active] = 1 THEN Slice[active] ELSE s[active] - 1) \in Time
      BY <2>2, <2>3, <2>5, <3>1, TimeType
    <3> QED BY <2>3, <3>1, <3>2, <3>3
  <2> QED BY <2>4, <2>5
<1>8. late' \in [Regular -> -Modulus..Lost]
  <2>1. late' = [t \in Regular |-> IF Ages(t) /\ late[t] # Lost THEN late[t] + 1 ELSE late[t]]
    BY DEF Tick
  <2>2. late \in [Regular -> -Modulus..Lost]
    BY <1>1 DEF TypeOK
  <2>3. \A x \in -Modulus..Lost : x # Lost => x + 1 \in -Modulus..Lost
    <3>1. Modulus \in Int /\ Lost \in Int
      BY TimeType DEF Lost
    <3> QED BY <3>1
  <2> QED BY <2>1, <2>2, <2>3
<1> QED BY <1>1, <1>3, <1>4, <1>5, <1>6, <1>7, <1>8 DEF Tick, TypeOK

LEMMA TickKeepsInvariant == IInv /\ Tick => IInv'
<1> SUFFICES ASSUME IInv, Tick PROVE IInv'
  OBVIOUS
<1>1. Serves(TickPosted, TickDue, holds) /\ TypeOK'
  BY TickServes, TickType
<1>2. /\ TypeOK /\ ListInv /\ HoldersInv /\ NobodyWaitsInVain
  BY DEF IInv
<1>3. ListInv' /\ OrderInv' /\ WaitInv' /\ SignalReachesTask'
  BY <1>1, ServedLists, ServedWaits
<1>4. /\ \A t \in Suspended' : Misses(t)' /\ posted'[t] = TickPosted[t]
      /\ Suspended' \subseteq Suspended /\ Suspended \subseteq Task
  BY <1>1, <1>2, ServedWaits, ServedSwitch, DueNow
<1>5. free' = free /\ units' = units /\ mask' = mask
  BY DEF Tick
<1>6. NobodyWaitsInVain'
  <2> SUFFICES ASSUME NEW t \in Suspended'
               PROVE  /\ mask'[t] \cap free' = {}
                      /\ \A s \in (mask'[t] \cap Semaphore) \ posted'[t] : units'[s] = 0
    BY <1>4 DEF NobodyWaitsInVain
  <2>1. t \in Suspended /\ t \in 1..Idle
    BY <1>4, Constants
  <2>2. posted[t] \subseteq posted'[t]
    BY <1>4, <2>1 DEF TickPosted
  <2> QED BY <1>2, <1>5, <2>1, <2>2 DEF NobodyWaitsInVain
<1>7. HoldersInv'
  <2>1. ASSUME NEW o \in SyncObject PROVE Holders(o)' = Holders(o)
    <3>1. Holders(o)' = Carriers(o, TickPosted, holds)
      BY <1>1, ServedCarriers
    <3>2. \A t \in Task : o \in TickPosted[t] <=> o \in posted[t]
      BY TimersAreNoObjects, Constants DEF TickPosted, Elapsed, Timer
    <3> QED BY <3>1, <3>2, HoldersFinite DEF Carriers
  <2>2. \A o \in SyncObject : Cardinality(Holders(o))' = Cardinality(Holders(o))
    BY <2>1
  <2> QED BY <1>2, <1>5, <2>2 DEF HoldersInv, SyncObject
<1> QED BY <1>1, <1>3, <1>6, <1>7 DEF IInv
-----------------------------------------------------------------------------
(* rtos_sendEvent. *)

SendPosted(evs) == [t \in 1..Idle |-> IF t \in Suspended
                                      THEN posted[t] \cup Given(t, evs) ELSE posted[t]]
SendHolds(evs) == IF active = Idle THEN holds ELSE [holds EXCEPT ![active] = @ \ evs]

(* What may be sent: the sync objects that the active task owns.           *)
Sendable(evs) == evs \subseteq Event \cup IF active = Idle THEN {} ELSE holds[active]

LEMMA SenderOwnsObjects ==
  ASSUME TypeOK, ListInv, NEW evs, Sendable(evs)
  PROVE  /\ evs \subseteq AnyEvent
         /\ \A o \in evs \cap SyncObject : active \in Task /\ o \in holds[active]
<1>1. active # Idle => active \in Task
  BY ActiveIsHead
<1>2. active # Idle => holds[active] \subseteq SyncObject
  BY <1>1 DEF TypeOK
<1> QED BY <1>1, <1>2, TimersAreNoObjects DEF Sendable

LEMMA GivenType ==
  ASSUME TypeOK, ListInv, NEW evs, NEW t \in Suspended
  PROVE  Given(t, evs) \subseteq mask[t]
<1>1. ASSUME NEW o \in SyncObject, Waiting(o) # {}
      PROVE  Least(Waiting(o)) \in Waiting(o)
  <2>1. Len(susp) \in Nat
    BY DEF ListInv
  <2>2. Waiting(o) \in SUBSET Nat
    BY <2>1 DEF Waiting
  <2> QED BY <1>1, <2>2, LeastProperties
<1>2. \A o \in SyncObject : Waiting(o) # {} => o \in mask[susp[Least(Waiting(o))]]
  BY <1>1 DEF Waiting, Wants
<1> QED BY <1>2 DEF Given

LEMMA SendServes ==
  ASSUME IInv, NEW evs, Sendable(evs), SendEvent(evs)
  PROVE  Serves(SendPosted(evs), DueWith(Resumed(SendPosted(evs))), SendHolds(evs))
<1> DEFINE p == SendPosted(evs)
           R == Resumed(p)
           h == SendHolds(evs)
<1>1. TypeOK /\ ListInv /\ WaitInv
  BY DEF IInv
<1>2. R \in SUBSET Suspended
  BY DEF Resumed
<1>3. /\ Leave(R) /\ due' = DueWith(R) /\ UNCHANGED <<mask, any>>
      /\ SwitchTo(NextActive(R, DueWith(R), FALSE), p, ctx, h)
  BY DEF SendEvent, SendPosted, SendHolds, condition
<1>4. /\ DueOf(DueWith(R), Suspended \ R)
      /\ NextActive(R, DueWith(R), FALSE) = HighestDue(DueWith(R))
  <2> HIDE DEF p, R
  <2> QED BY <1>1, <1>2, DueWithProperties, NextActiveIsHighest
<1>5. /\ posted \in [1..Idle -> SUBSET AnyEvent] /\ holds \in [Task -> SUBSET SyncObject]
      /\ mask \in [Task -> SUBSET AnyEvent] /\ Suspended \subseteq Task
  BY <1>1 DEF TypeOK
<1>6. \A t \in Suspended : Given(t, evs) \subseteq mask[t] /\ mask[t] \subseteq AnyEvent
  BY <1>1, <1>5, GivenType
<1>7. p \in [1..Idle -> SUBSET AnyEvent]
  BY <1>5, <1>6 DEF SendPosted
<1>8. /\ \A t \in 1..Idle : posted[t] \subseteq p[t] /\ (t \notin Suspended => p[t] = posted[t])
      /\ \A t \in Task : p[t] \subseteq mask[t]
  BY <1>1, <1>6, Constants DEF SendPosted, WaitInv
<1>9. h \in [Task -> SUBSET SyncObject] /\ \A t \in Task : h[t] \subseteq holds[t]
  BY <1>1, <1>5, ActiveIsHead DEF SendHolds
<1> HIDE DEF p, R, h
<1> QED BY <1>3, <1>4, <1>7, <1>8, <1>9 DEF Serves, R, p, h

LEMMA SendType ==
  ASSUME IInv, NEW evs, Sendable(evs), SendEvent(evs)
  PROVE  TypeOK'
<1> DEFINE p == SendPosted(evs)
           d == DueWith(Resumed(p))
           h == SendHolds(evs)
<1>1. TypeOK /\ ListInv
  BY DEF IInv
<1>2. Serves(p, d, h)
  BY SendServes
<1> HIDE DEF p, d, h
<1>3. /\ active' \in 1..Idle /\ posted' \in [1..Idle -> SUBSET AnyEvent]
      /\ ctx' \in [Task -> {"new", "wait", "run"}] /\ holds' \in [Task -> SUBSET SyncObject]
      /\ Suspended' \subseteq Suspended
  BY <1>2, ServedSwitch
<1>4. Suspended' \subseteq Task /\ Elements(arrived') = Suspended'
  BY <1>1, <1>2, <1>3, DueNow, ServedLists DEF ListInv
<1>5. due' \in [1..NoClasses -> Seq(Task)]
  BY <1>2 DEF Serves, DueOf
<1>6. slice' \in [Task -> Time]
  <2>1. slice \in [Task -> Time] /\ Slice \in [Task -> Time]
    BY <1>1, RTuinOSAssumption DEF TypeOK
  <2> QED BY <2>1 DEF SendEvent, SliceWith
<1>7. free' \subseteq Mutex /\ units' \in [Semaphore -> Nat]
  BY <1>1 DEF SendEvent, TypeOK
<1> QED BY <1>1, <1>3, <1>4, <1>5, <1>6, <1>7 DEF SendEvent, TypeOK, condition

(* Who is given a sync object: the first in the list of those who want it. *)
LEMMA FirstWaiter ==
  ASSUME TypeOK, ListInv, NEW o \in SyncObject, Waiting(o) # {}
  PROVE  LET w == susp[Least(Waiting(o))] IN
         /\ w \in Suspended /\ Wants(w, o)
         /\ \A u \in Suspended : Wants(u, o) /\ u # w => Precedes(susp, w, u)
         /\ \A evs : o \in evs => \A t : o \in Given(t, evs) <=> t = w
<1> DEFINE m == Least(Waiting(o))
           w == susp[m]
<1>1. Waiting(o) \in SUBSET (1..Len(susp)) /\ Len(susp) \in Nat
  BY DEF Waiting, ListInv
<1>2. Waiting(o) \in SUBSET Nat
  BY <1>1
<1>3. m \in Waiting(o) /\ \A y \in Waiting(o) : m <= y
  BY <1>2, LeastProperties
<1> HIDE DEF m
<1>4. w \in Suspended /\ Wants(w, o)
  BY <1>3 DEF Waiting, Suspended, Elements
<1>5. ASSUME NEW u \in Suspended, Wants(u, o), u # w
      PROVE  Precedes(susp, w, u)
  <2>1. PICK i \in 1..Len(susp) : susp[i] = u
    BY DEF Suspended, Elements
  <2>2. i \in Waiting(o)
    BY <1>5, <2>1 DEF Waiting
  <2>3. m <= i /\ m # i /\ m \in 1..Len(susp)
    BY <1>1, <1>3, <1>5, <2>1, <2>2
  <2>4. m < i
    BY <1>1, <2>3
  <2> QED BY <2>1, <2>3, <2>4 DEF Precedes
<1>6. ASSUME NEW evs, o \in evs, NEW t
      PROVE  o \in Given(t, evs) <=> t = w
  BY <1>6, TimersAreNoObjects DEF Given, m
<1> QED BY <1>4, <1>5, <1>6 DEF m

LEMMA NobodyWaits ==
  ASSUME NEW o, Waiting(o) = {}
  PROVE  \A t \in Suspended : ~Wants(t, o)
BY DEF Waiting, Suspended, Elements

(* Sync objects move from the sender to the first who waits, or are free.  *)
LEMMA SendKeepsObjects ==
  ASSUME IInv, NEW evs, Sendable(evs), SendEvent(evs)
  PROVE  HoldersInv'
<1> DEFINE p == SendPosted(evs)
           h == SendHolds(evs)
           C(o) == Carriers(o, p, h)
<1>1. /\ TypeOK /\ ListInv /\ WaitInv /\ SignalReachesTask /\ HoldersInv
  BY DEF IInv
<1>2. \A o \in SyncObject : Holders(o)' = C(o)
  BY SendServes, ServedCarriers
<1>3. /\ free' = free \cup (Kept(evs) \cap Mutex)
      /\ units' = [s \in Semaphore |-> IF s \in Kept(evs) THEN units[s] + 1 ELSE units[s]]
  BY DEF SendEvent
<1>4. \A t \in Task : h[t] = IF t = active THEN holds[t] \ evs ELSE holds[t]
  BY <1>1, Constants DEF SendHolds, TypeOK
<1>5. \A t \in Task : p[t] = IF t \in Suspended THEN posted[t] \cup Given(t, evs) ELSE posted[t]
  BY Constants DEF SendPosted
<1> HIDE DEF p, h
<1>6. Suspended \subseteq Task
  BY <1>1, DueNow
<1>7. ASSUME NEW o \in SyncObject, o \notin evs
      PROVE  C(o) = Holders(o)
  <2>1. \A t \in Suspended : o \notin Given(t, evs)
    BY <1>7 DEF Given
  <2>2. \A t \in Task : o \in p[t] \cup h[t] <=> o \in posted[t] \cup holds[t]
    BY <1>4, <1>5, <1>7, <2>1
  <2> QED BY <2>2, HoldersFinite DEF Carriers
<1>8. ASSUME NEW o \in SyncObject, o \in evs
      PROVE  /\ active \in Holders(o)
             /\ Waiting(o) = {} => C(o) = Holders(o) \ {active}
             /\ Waiting(o) # {} => \E w \in Suspended : /\ Wants(w, o) /\ w # active
                                                        /\ C(o) = (Holders(o) \ {active}) \cup {w}
  <2>1. active \in Task /\ o \in holds[active] /\ active # Idle
    BY <1>1, <1>8, SenderOwnsObjects, Constants
  <2>2. active \notin Suspended /\ posted[active] = {}
    BY <1>1, <2>1, ActiveIsHead DEF WaitInv, SignalReachesTask
  <2>3. active \in Holders(o)
    BY <2>1, HoldersFinite DEF Carriers
  <2>4. o \notin p[active] /\ o \notin h[active]
    BY <1>4, <1>5, <1>8, <2>1, <2>2
  <2>5. CASE Waiting(o) = {}
    <3>1. \A t \in Suspended : o \notin Given(t, evs)
      BY <1>8, <2>5, TimersAreNoObjects DEF Given
    <3>2. \A t \in Task : t # active => (o \in p[t] \cup h[t] <=> o \in posted[t] \cup holds[t])
      BY <1>4, <1>5, <3>1
    <3> QED BY <2>3, <2>4, <2>5, <3>2, HoldersFinite DEF Carriers
  <2>6. CASE Waiting(o) # {}
    <3>1. PICK w \in Suspended : /\ Wants(w, o)
                                 /\ \A t : o \in Given(t, evs) <=> t = w
      BY <1>1, <1>8, <2>6, FirstWaiter
    <3>2. w # active /\ w \in Task
      BY <1>6, <2>2
    <3>3. \A t \in Task : t # active =>
            (o \in p[t] \cup h[t] <=> o \in posted[t] \cup holds[t] \/ t = w)
      BY <1>4, <1>5, <3>1
    <3>4. C(o) = (Holders(o) \ {active}) \cup {w}
      BY <2>4, <3>2, <3>3, HoldersFinite DEF Carriers
    <3> QED BY <2>3, <2>6, <3>1, <3>2, <3>4
  <2> QED BY <2>5, <2>6
<1> HIDE DEF C
<1>9. \A o \in SyncObject : o \in Kept(evs) <=> o \in evs /\ Waiting(o) = {}
  BY DEF Kept
<1>10. ASSUME NEW m \in Mutex
       PROVE  Cardinality(C(m)) = IF m \in free' THEN 0 ELSE 1
  <2>1. m \in SyncObject /\ Cardinality(Holders(m)) = (IF m \in free THEN 0 ELSE 1)
    BY <1>1 DEF HoldersInv, SyncObject
  <2>2. m \in free' <=> m \in free \/ m \in Kept(evs)
    BY <1>3
  <2>3. CASE m \notin evs
    BY <1>7, <1>9, <2>1, <2>2, <2>3
  <2>4. CASE m \in evs
    <3>1. IsFiniteSet(Holders(m)) /\ active \in Holders(m)
      BY <1>8, <2>1, <2>4, HoldersFinite
    <3>2. Cardinality(Holders(m)) # 0
      BY <3>1, FS_EmptySet
    <3>3. m \notin free /\ Cardinality(Holders(m)) = 1
      BY <2>1, <3>2
    <3>4. Holders(m) = {active}
      BY <3>1, <3>3, FS_Singleton
    <3>5. CASE Waiting(m) = {}
      <4>1. C(m) = {}
        BY <1>8, <2>1, <2>4, <3>4, <3>5
      <4> QED BY <1>9, <2>1, <2>2, <2>4, <3>5, <4>1, FS_EmptySet
    <3>6. CASE Waiting(m) # {}
      <4>1. \E w : C(m) = {w}
        BY <1>8, <2>1, <2>4, <3>4, <3>6
      <4>2. Cardinality(C(m)) = 1
        BY <4>1, FS_Singleton
      <4> QED BY <1>9, <2>1, <2>2, <3>3, <3>6, <4>2
    <3> QED BY <3>5, <3>6
  <2> QED BY <2>3, <2>4
<1>11. ASSUME NEW s \in Semaphore
       PROVE  units'[s] + Cardinality(C(s)) = Units[s]
  <2>1. s \in SyncObject /\ units[s] + Cardinality(Holders(s)) = Units[s] /\ units[s] \in Nat
    BY <1>1 DEF HoldersInv, SyncObject, TypeOK
  <2>2. units'[s] = IF s \in Kept(evs) THEN units[s] + 1 ELSE units[s]
    BY <1>3
  <2>3. CASE s \notin evs
    BY <1>7, <1>9, <2>1, <2>2, <2>3
  <2>4. CASE s \in evs
    <3> DEFINE H == Holders(s)
               G == H \ {active}
    <3>1. IsFiniteSet(H) /\ active \in H
      BY <1>8, <2>1, <2>4, HoldersFinite
    <3>2. IsFiniteSet(G) /\ Cardinality(G) = Cardinality(H) - 1 /\ Cardinality(H) \in Nat
      <4> HIDE DEF H
      <4> QED BY <3>1, FS_RemoveElement, FS_CardinalityType
    <3>3. CASE Waiting(s) = {}
      <4>1. C(s) = G /\ s \in Kept(evs)
        BY <1>8, <1>9, <2>1, <2>4, <3>3
      <4> HIDE DEF H, G
      <4> QED BY <2>1, <2>2, <3>2, <4>1 DEF H
    <3>4. CASE Waiting(s) # {}
      <4>1. PICK w \in Suspended : Wants(w, s) /\ w # active /\ C(s) = G \cup {w}
        BY <1>8, <2>1, <2>4, <3>4
      <4>2. s \notin posted[w] /\ s \in mask[w]
        BY <4>1, TimersAreNoObjects DEF Wants
      <4>3. s \notin holds[w]
        BY <1>1, <1>6, <4>2 DEF WaitInv, SignalReachesTask
      <4>4. w \notin G
        BY <4>2, <4>3, HoldersFinite DEF Carriers
      <4>5. s \notin Kept(evs)
        BY <1>9, <2>1, <3>4
      <4> HIDE DEF H, G
      <4>6. Cardinality(C(s)) = Cardinality(G) + 1
        BY <3>2, <4>1, <4>4, FS_AddElement
      <4> QED BY <2>1, <2>2, <3>2, <4>5, <4>6 DEF H
    <3> QED BY <3>3, <3>4
  <2> QED BY <2>3, <2>4
<1>12. \A o \in SyncObject : Cardinality(Holders(o))' = Cardinality(C(o))
  BY <1>2
<1> QED BY <1>10, <1>11, <1>12 DEF HoldersInv, SyncObject

LEMMA SendKeepsInvariant ==
  ASSUME IInv, NEW evs, Sendable(evs), SendEvent(evs)
  PROVE  IInv'
<1> DEFINE p == SendPosted(evs)
           d == DueWith(Resumed(p))
           h == SendHolds(evs)
<1>1. Serves(p, d, h) /\ TypeOK' /\ HoldersInv'
  BY SendServes, SendType, SendKeepsObjects
<1> HIDE DEF d, h
<1>2. /\ TypeOK /\ ListInv /\ NobodyWaitsInVain
  BY DEF IInv
<1>3. ListInv' /\ OrderInv' /\ WaitInv' /\ SignalReachesTask'
  BY <1>1, ServedLists, ServedWaits
<1>4. /\ \A t \in Suspended' : Misses(t)' /\ posted'[t] = p[t]
      /\ Suspended' \subseteq Suspended /\ Suspended \subseteq Task
  BY <1>1, <1>2, ServedWaits, ServedSwitch, DueNow
<1>5. /\ free' = free \cup (Kept(evs) \cap Mutex) /\ mask' = mask
      /\ units' = [s \in Semaphore |-> IF s \in Kept(evs) THEN units[s] + 1 ELSE units[s]]
  BY DEF SendEvent, condition
<1>6. NobodyWaitsInVain'
  <2> SUFFICES ASSUME NEW t \in Suspended'
               PROVE  /\ mask'[t] \cap free' = {}
                      /\ \A s \in (mask'[t] \cap Semaphore) \ posted'[t] : units'[s] = 0
    BY <1>4 DEF NobodyWaitsInVain
  <2>1. t \in Suspended /\ t \in 1..Idle
    BY <1>4, Constants
  <2>2. posted[t] \subseteq posted'[t]
    BY <1>4, <2>1 DEF SendPosted
  <2>3. \A o \in Kept(evs) : ~Wants(t, o)
    BY <2>1, NobodyWaits DEF Kept
  <2>4. mask[t] \cap Kept(evs) \cap Mutex = {}
    BY <2>3 DEF Wants
  <2>5. \A s \in (mask[t] \cap Semaphore) \ posted[t] : s \notin Kept(evs)
    BY <2>3 DEF Wants
  <2>6. /\ mask[t] \cap free = {}
        /\ \A s \in (mask[t] \cap Semaphore) \ posted[t] : units[s] = 0
    BY <1>2, <2>1 DEF NobodyWaitsInVain
  <2> QED BY <1>5, <2>2, <2>4, <2>5, <2>6
<1> QED BY <1>1, <1>3, <1>6 DEF IInv
-----------------------------------------------------------------------------
(* rtos_waitForEvent. *)

LEMMA AcquiredProperties ==
  ASSUME IInv, active # Idle, NEW r \in Requests[active], r.mask \cap holds[active] = {}, Acquire(r)
  PROVE  /\ active \in Task /\ active \in 1..Idle /\ active \notin Suspended
         /\ ctx[active] = "run" /\ posted[active] = {}
         /\ r.mask \in SUBSET AnyEvent /\ r.mask # {} /\ r.all \in BOOLEAN /\ r.timeout \in Time
         /\ Permitted(r)
         /\ Acquired(r) \subseteq r.mask \cap SyncObject
         /\ free' \subseteq free /\ units' \in [Semaphore -> Nat]
         /\ free' \cap r.mask = {}
         /\ \A s \in Semaphore : units[s] = 0 => units'[s] = 0
         /\ \A s \in (r.mask \cap Semaphore) \ Acquired(r) : units'[s] = 0
<1>1. TypeOK /\ ListInv /\ WaitInv /\ SignalReachesTask
  BY DEF IInv
<1>2. active \in Task /\ active \in 1..Idle /\ active \notin Suspended
  BY <1>1, ActiveIsHead, Constants
<1>3. ctx[active] = "run" /\ posted[active] = {}
  BY <1>1, <1>2 DEF WaitInv, SignalReachesTask
<1>4. free' = free \ r.mask
      /\ units' = [s \in Semaphore |-> IF s \in Acquired(r) THEN units[s] - 1 ELSE units[s]]
  BY DEF Acquire
<1>5. free \subseteq Mutex /\ units \in [Semaphore -> Nat]
  BY <1>1 DEF TypeOK
<1>6. \A s \in Semaphore : s \in Acquired(r) => units[s] > 0
  BY <1>5, TimersAreNoObjects DEF Acquired
<1>7. \A s \in (r.mask \cap Semaphore) \ Acquired(r) : units[s] = 0
  BY <1>5 DEF Acquired
<1>8. units' \in [Semaphore -> Nat]
  BY <1>4, <1>5, <1>6
<1>9. Acquired(r) \subseteq r.mask \cap SyncObject
  BY <1>5 DEF Acquired, SyncObject
<1>10. /\ r.mask \in SUBSET AnyEvent /\ r.mask # {} /\ r.all \in BOOLEAN /\ r.timeout \in Time
       /\ Permitted(r)
  BY <1>2, RequestType
<1>11. /\ \A s \in Semaphore : units[s] = 0 => units'[s] = 0
       /\ \A s \in (r.mask \cap Semaphore) \ Acquired(r) : units'[s] = 0
  BY <1>4, <1>6, <1>7
<1> QED BY <1>2, <1>3, <1>4, <1>8, <1>9, <1>10, <1>11

(* What is taken has been available and has one more task from now on.     *)
LEMMA AcquireKeepsObjects ==
  ASSUME IInv, active # Idle, NEW r \in Requests[active], r.mask \cap holds[active] = {}, Acquire(r),
         \A o \in SyncObject :
           Holders(o)' = IF o \in Acquired(r) THEN Holders(o) \cup {active} ELSE Holders(o)
  PROVE  HoldersInv'
<1>1. HoldersInv /\ free \subseteq Mutex /\ units \in [Semaphore -> Nat]
  BY DEF IInv, TypeOK
<1>2. /\ active \in Task /\ posted[active] = {} /\ Acquired(r) \subseteq r.mask \cap SyncObject
  BY AcquiredProperties
<1>3. /\ free' = free \ r.mask
      /\ units' = [s \in Semaphore |-> IF s \in Acquired(r) THEN units[s] - 1 ELSE units[s]]
  BY DEF Acquire
<1>4. \A o \in Acquired(r) : active \notin Holders(o)
  BY <1>2, HoldersFinite DEF Carriers
<1>5. ASSUME NEW m \in Mutex
      PROVE  Cardinality(Holders(m)') = IF m \in free' THEN 0 ELSE 1
  <2>1. m \in SyncObject /\ Cardinality(Holders(m)) = (IF m \in free THEN 0 ELSE 1)
    BY <1>1 DEF HoldersInv, SyncObject
  <2>2. m \in Acquired(r) <=> m \in r.mask /\ m \in free
    BY TimersAreNoObjects DEF Acquired
  <2>3. CASE m \notin Acquired(r)
    <3>1. Holders(m)' = Holders(m)
      BY <2>1, <2>3
    <3> QED BY <1>3, <2>1, <2>2, <2>3, <3>1
  <2>4. CASE m \in Acquired(r)
    <3>1. Holders(m) = {}
      BY <2>1, <2>2, <2>4, HoldersFinite, FS_EmptySet
    <3>2. Holders(m)' = {active}
      BY <2>1, <2>4, <3>1
    <3> QED BY <1>3, <2>2, <2>4, <3>2, FS_Singleton
  <2> QED BY <2>3, <2>4
<1>6. ASSUME NEW s \in Semaphore
      PROVE  units'[s] + Cardinality(Holders(s)') = Units[s]
  <2>1. s \in SyncObject /\ units[s] + Cardinality(Holders(s)) = Units[s] /\ units[s] \in Nat
    BY <1>1 DEF HoldersInv, SyncObject
  <2>2. CASE s \notin Acquired(r)
    <3>1. Holders(s)' = Holders(s)
      BY <2>1, <2>2
    <3> QED BY <1>3, <2>1, <2>2, <3>1
  <2>3. CASE s \in Acquired(r)
    <3> DEFINE H == Holders(s)
               G == Holders(s)'
    <3>1. active \notin H /\ IsFiniteSet(H) /\ G = H \cup {active} /\ units'[s] = units[s] - 1
      BY <1>3, <1>4, <2>1, <2>3, HoldersFinite
    <3>2. units[s] + Cardinality(H) = Units[s] /\ units[s] \in Nat
      BY <2>1
    <3> HIDE DEF H, G
    <3>3. Cardinality(G) = Cardinality(H) + 1 /\ Cardinality(H) \in Nat
      BY <3>1, FS_AddElement, FS_CardinalityType
    <3>4. units'[s] + Cardinality(G) = Units[s]
      BY <3>1, <3>2, <3>3
    <3> QED BY <3>4 DEF G
  <2> QED BY <2>2, <2>3
<1> QED BY <1>5, <1>6 DEF HoldersInv

LEMMA GoOnKeepsInvariant ==
  ASSUME IInv, active # Idle, NEW r \in Requests[active], r.mask \cap holds[active] = {},
         AcquireAndGoOn(r)
  PROVE  IInv'
<1>1. Acquire(r)
  BY DEF AcquireAndGoOn
<1>2. /\ active \in Task /\ active \in 1..Idle /\ active \notin Suspended
      /\ ctx[active] = "run" /\ posted[active] = {}
      /\ Acquired(r) \subseteq r.mask \cap SyncObject
      /\ free' \subseteq free /\ units' \in [Semaphore -> Nat]
      /\ \A s \in Semaphore : units[s] = 0 => units'[s] = 0
  BY <1>1, AcquiredProperties
<1>3. /\ holds' = [holds EXCEPT ![active] = @ \cup Acquired(r)]
      /\ UNCHANGED <<time, susp, due, active, posted, mask, any, delay, dueAt, overrun,
                     slice, ctx, arrived, late, missed>>
  BY DEF AcquireAndGoOn, lists, condition
<1>4. /\ TypeOK /\ ListInv /\ OrderInv /\ WaitInv /\ SignalReachesTask /\ NobodyWaitsInVain
      /\ HoldersInv
  BY DEF IInv
<1>5. Suspended' = Suspended
  BY <1>3 DEF Suspended
<1>6. TypeOK'
  <2>1. holds' \in [Task -> SUBSET SyncObject]
    BY <1>2, <1>3, <1>4 DEF TypeOK
  <2> QED BY <1>2, <1>3, <1>4, <1>5, <2>1 DEF TypeOK
<1>7. ListInv'
  BY <1>3, <1>4, <1>5 DEF ListInv
<1>8. OrderInv'
  BY <1>3, <1>4, <1>5 DEF OrderInv
<1>9. WaitInv'
  BY <1>2, <1>3, <1>4 DEF WaitInv, TypeOK
<1>10. \A t \in Task : Misses(t)' <=> Misses(t)
  BY <1>3 DEF Misses
<1>11. SignalReachesTask'
  BY <1>3, <1>4, <1>5, <1>10 DEF SignalReachesTask
<1>12. NobodyWaitsInVain'
  <2>1. Suspended \subseteq Task
    BY <1>4, DueNow
  <2> QED BY <1>2, <1>3, <1>4, <1>5, <1>10, <2>1 DEF NobodyWaitsInVain
<1>13. HoldersInv'
  <2>1. \A t \in Task : holds'[t] = IF t = active THEN holds[t] \cup Acquired(r) ELSE holds[t]
    BY <1>3, <1>4 DEF TypeOK
  <2>2. ASSUME NEW o \in SyncObject
        PROVE  Holders(o)' = IF o \in Acquired(r) THEN Holders(o) \cup {active} ELSE Holders(o)
    <3>1. Holders(o)' = {t \in Task : o \in posted[t] \cup holds'[t]}
      BY <1>3 DEF Holders, On, OwnedBy
    <3> QED BY <1>2, <2>1, <3>1, HoldersFinite DEF Carriers
  <2> QED BY <1>1, <2>2, AcquireKeepsObjects
<1> QED BY <1>6, <1>7, <1>8, <1>9, <1>11, <1>12, <1>13 DEF IInv

(* The task that is suspended is no longer due.                            *)
LEMMA TailOfActive ==
  ASSUME TypeOK, ListInv, active # Idle
  PROVE  DueOf([due EXCEPT ![Class[active]] = Tail(@)], Suspended \cup {active})
<1> DEFINE c == Class[active]
           q == Tail(due[c])
           e == [due EXCEPT ![c] = q]
<1>1. DueOf(due, Suspended)
  BY DueNow
<1>2. /\ active \in Task \ Suspended /\ c \in 1..NoClasses
      /\ due[c] # <<>> /\ active = due[c][1]
  BY ActiveIsHead
<1>3. /\ due[c] \in Seq(Task) /\ Injective(due[c])
      /\ Elements(due[c]) = {t \in Task \ Suspended : Class[t] = c}
  BY <1>1, <1>2 DEF DueOf
<1>4. q \in Seq(Task) /\ Injective(q) /\ Elements(q) = Elements(due[c]) \ {active}
  BY <1>2, <1>3, TailElements
<1>5. c = Class[active]
  OBVIOUS
<1> HIDE DEF q, c
<1>6. /\ e \in [1..NoClasses -> Seq(Task)]
      /\ \A k \in 1..NoClasses : e[k] = IF k = c THEN q ELSE due[k]
  BY <1>1, <1>2, <1>4 DEF DueOf
<1>7. e = [due EXCEPT ![Class[active]] = Tail(@)]
  BY DEF q, c
<1> HIDE DEF e
<1>8. DueOf(e, Suspended \cup {active})
  BY <1>1, <1>2, <1>3, <1>4, <1>5, <1>6 DEF DueOf
<1> QED BY <1>7, <1>8
SuspendDue == [due EXCEPT ![Class[active]] = Tail(@)]

LEMMA SuspendSwitch ==
  ASSUME IInv, active # Idle, NEW r \in Requests[active], r.mask \cap holds[active] = {}, Suspend(r)
  PROVE  /\ active' \in 1..Idle /\ active' # active
         /\ active' = HighestDue(due') /\ DueOf(due', Suspended \cup {active})
         /\ active' # Idle => active' \in Task \ (Suspended \cup {active})
         /\ posted' \in [1..Idle -> SUBSET AnyEvent]
         /\ posted'[active] = Acquired(r)
         /\ \A t \in 1..Idle : t # active => posted'[t] = IF t = active' THEN {} ELSE posted[t]
         /\ ctx' \in [Task -> {"new", "wait", "run"}]
         /\ \A t \in Task : ctx'[t] = IF t = active THEN "wait"
                                      ELSE IF t = active' THEN "run" ELSE ctx[t]
         /\ holds' \in [Task -> SUBSET SyncObject]
         /\ \A t \in Task : t # active' => holds'[t] = holds[t]
         /\ \A t \in Task \ {active} : posted'[t] \cup holds'[t] \subseteq posted[t] \cup holds[t]
         /\ \A t \in Task \ {active} :
              (posted[t] \cup holds[t]) \cap SyncObject \subseteq posted'[t] \cup holds'[t]
<1> DEFINE d == SuspendDue
           n == HighestDue(d)
           p == [posted EXCEPT ![active] = Acquired(r)]
           c == [ctx EXCEPT ![active] = "wait"]
<1>1. TypeOK /\ ListInv /\ WaitInv /\ SignalReachesTask
  BY DEF IInv
<1>2. Acquire(r) /\ due' = d /\ SwitchTo(n, p, c, holds)
  BY DEF Suspend, SuspendDue
<1>3. active \in Task /\ active \in 1..Idle /\ Acquired(r) \subseteq AnyEvent
  BY <1>2, AcquiredProperties, TimersAreNoObjects
<1>4. DueOf(d, Suspended \cup {active})
  BY <1>1, TailOfActive DEF SuspendDue
<1>5. n \in 1..Idle /\ (n # Idle => n \in Task \ (Suspended \cup {active}))
  BY <1>4, HighestDueProperties
<1>6. n # active
  BY <1>3, <1>5, Constants
<1> HIDE DEF d, n, p, c
<1>7. /\ active' = n
      /\ posted' = [p EXCEPT ![n] = {}]
      /\ ctx' = IF n = Idle THEN c ELSE [c EXCEPT ![n] = "run"]
      /\ holds' = IF n = Idle \/ c[n] = "run" THEN holds
                  ELSE [holds EXCEPT ![n] = @ \cup (p[n] \cap SyncObject)]
  BY <1>2, <1>6 DEF SwitchTo
<1>8. /\ posted \in [1..Idle -> SUBSET AnyEvent] /\ holds \in [Task -> SUBSET SyncObject]
      /\ ctx \in [Task -> {"new", "wait", "run"}]
  BY <1>1 DEF TypeOK
<1>9. /\ p \in [1..Idle -> SUBSET AnyEvent]
      /\ \A t \in 1..Idle : p[t] = IF t = active THEN Acquired(r) ELSE posted[t]
  BY <1>3, <1>8 DEF p
<1>10. /\ c \in [Task -> {"new", "wait", "run"}]
       /\ \A t \in Task : c[t] = IF t = active THEN "wait" ELSE ctx[t]
  BY <1>3, <1>8 DEF c
<1>11. /\ posted' \in [1..Idle -> SUBSET AnyEvent]
       /\ \A t \in 1..Idle : posted'[t] = IF t = n THEN {} ELSE p[t]
  BY <1>5, <1>7, <1>9
<1>12. /\ ctx' \in [Task -> {"new", "wait", "run"}]
       /\ \A t \in Task : ctx'[t] = IF t = n THEN "run" ELSE c[t]
  BY <1>5, <1>7, <1>10, Constants
<1>13. /\ holds' \in [Task -> SUBSET SyncObject]
       /\ \A t \in Task : t # n => holds'[t] = holds[t]
       /\ \A t \in Task : t = n => \/ holds'[t] = holds[t] /\ ctx[t] = "run"
                                   \/ holds'[t] = holds[t] \cup (posted[t] \cap SyncObject)
  BY <1>5, <1>6, <1>7, <1>8, <1>9, <1>10, Constants
<1>14. \A t \in Task : t \notin Suspended /\ ctx[t] = "run" => posted[t] = {}
  BY <1>1 DEF SignalReachesTask
<1>15. ASSUME NEW t \in Task \ {active}
       PROVE  /\ posted'[t] \cup holds'[t] \subseteq posted[t] \cup holds[t]
              /\ (posted[t] \cup holds[t]) \cap SyncObject \subseteq posted'[t] \cup holds'[t]
  <2>1. t \in 1..Idle
    BY Constants
  <2>2. CASE t # n
    BY <1>9, <1>11, <1>13, <2>1, <2>2
  <2>3. CASE t = n /\ ctx[t] = "run"
    <3>1. posted[t] = {}
      BY <1>5, <1>14, <2>3, Constants
    <3> QED BY <1>11, <1>13, <2>1, <2>3, <3>1
  <2>4. CASE t = n /\ ctx[t] # "run"
    BY <1>11, <1>13, <2>1, <2>4
  <2> QED BY <2>2, <2>3, <2>4
<1>16. posted'[active] = Acquired(r) /\ due' = d /\ n = HighestDue(d)
  BY <1>2, <1>3, <1>6, <1>9, <1>11 DEF n
<1> QED BY <1>4, <1>5, <1>6, <1>7, <1>9, <1>10, <1>11, <1>12, <1>13, <1>15, <1>16

LEMMA SuspendLists ==
  ASSUME IInv, active # Idle, NEW r \in Requests[active], r.mask \cap holds[active] = {}, Suspend(r)
  PROVE  /\ Suspended' = Suspended \cup {active} /\ ListInv' /\ OrderInv'
         /\ \A t, u \in Suspended : Precedes(arrived', t, u) <=> Precedes(arrived, t, u)
         /\ \A t \in Suspended : Precedes(arrived', t, active)
<1> DEFINE a == active
<1>1. TypeOK /\ ListInv /\ OrderInv
  BY DEF IInv
<1>2. susp' = Enqueue(susp, a) /\ arrived' = Append(arrived, a)
  BY DEF Suspend
<1>3. a \in Task /\ a \notin Suspended
  BY <1>1, ActiveIsHead
<1>4. /\ susp \in Seq(Task) /\ Injective(susp) /\ Suspended = Elements(susp)
      /\ arrived \in Seq(Task) /\ Injective(arrived) /\ Elements(arrived) = Suspended
      /\ Suspended \subseteq Task
  BY <1>1, DueNow DEF ListInv, Suspended
<1> HIDE DEF a
<1>5. Sorted(susp)
  BY <1>1, <1>4, ClassType DEF Sorted, OrderInv
<1>6. /\ susp' \in Seq(Task) /\ Injective(susp') /\ Elements(susp') = Suspended \cup {a}
      /\ \A x, y \in Suspended : Precedes(susp', x, y) <=> Precedes(susp, x, y)
      /\ \A x \in Suspended : /\ Precedes(susp', x, a) <=> Class[x] >= Class[a]
                              /\ Precedes(susp', a, x) <=> Class[x] < Class[a]
      /\ ~Precedes(susp', a, a)
  BY <1>2, <1>3, <1>4, <1>5, EnqueueOrder
<1>7. /\ arrived' \in Seq(Task) /\ Injective(arrived') /\ Elements(arrived') = Suspended \cup {a}
      /\ \A x, y : Precedes(arrived', x, y) <=>
           Precedes(arrived, x, y) \/ (x \in Suspended /\ y = a)
  BY <1>2, <1>3, <1>4, AppendOrder
<1>8. \A x : ~Precedes(arrived, x, a) /\ ~Precedes(arrived, a, x)
  BY <1>3, <1>4, PrecedesElements
<1>9. Suspended' = Suspended \cup {a}
  BY <1>6 DEF Suspended
<1>10. ListInv'
  <2>1. active' = HighestDue(due') /\ DueOf(due', Suspended')
    BY <1>9, SuspendSwitch DEF a
  <2> QED BY <1>6, <1>7, <1>9, <2>1 DEF ListInv, DueOf
<1>11. OrderInv'
  <2> SUFFICES ASSUME NEW t \in Suspended', NEW u \in Suspended'
               PROVE  Precedes(susp', t, u) <=> \/ Class[t] > Class[u]
                                                \/ Class[t] = Class[u] /\ Precedes(arrived', t, u)
    BY DEF OrderInv
  <2>1. Class[t] \in Int /\ Class[u] \in Int /\ Class[a] \in Int
    BY <1>3, <1>4, <1>9, ClassType
  <2>2. CASE t \in Suspended /\ u \in Suspended
    <3>1. Precedes(susp, t, u) <=> \/ Class[t] > Class[u]
                                   \/ Class[t] = Class[u] /\ Precedes(arrived, t, u)
      BY <1>1, <2>2 DEF OrderInv
    <3> QED BY <1>3, <1>6, <1>7, <2>2, <3>1
  <2>3. CASE t \in Suspended /\ u = a
    <3>1. Precedes(susp', t, a) <=> Class[t] >= Class[a]
      BY <1>6, <2>3
    <3>2. Precedes(arrived', t, a)
      BY <1>7, <2>3
    <3> QED BY <2>1, <2>3, <3>1, <3>2
  <2>4. CASE t = a /\ u \in Suspended
    <3>1. Precedes(susp', a, u) <=> Class[u] < Class[a]
      BY <1>6, <2>4
    <3>2. ~Precedes(arrived', a, u)
      BY <1>3, <1>7, <1>8, <2>4
    <3> QED BY <2>1, <2>4, <3>1, <3>2
  <2>5. CASE t = a /\ u = a
    BY <1>3, <1>6, <1>7, <1>8, <2>1, <2>5
  <2> QED BY <1>9, <2>2, <2>3, <2>4, <2>5
<1> QED BY <1>3, <1>7, <1>9, <1>10, <1>11 DEF a

LEMMA SuspendConditions ==
  ASSUME IInv, active # Idle, NEW r \in Requests[active], r.mask \cap holds[active] = {}, Suspend(r),
         NEW a, a = active
  PROVE  /\ mask' = [mask EXCEPT ![active] = r.mask] /\ any' = [any EXCEPT ![active] = ~r.all]
         /\ mask' \in [Task -> SUBSET AnyEvent] /\ any' \in [Task -> BOOLEAN]
         /\ Misses(a)'
         /\ \A t \in Suspended : mask'[t] = mask[t] /\ posted'[t] = posted[t] /\ Misses(t)'
<1>1. Acquire(r) /\ StoreResumeCondition(active, r) /\ ~Immediately(r)
  BY DEF Suspend
<1>2. /\ active \in Task /\ active \in 1..Idle /\ active \notin Suspended
      /\ r.mask \in SUBSET AnyEvent /\ r.all \in BOOLEAN
      /\ Acquired(r) \subseteq r.mask \cap SyncObject
  BY <1>1, AcquiredProperties
<1>3. /\ mask' = [mask EXCEPT ![active] = r.mask] /\ any' = [any EXCEPT ![active] = ~r.all]
  BY <1>1 DEF StoreResumeCondition
<1>4. /\ mask \in [Task -> SUBSET AnyEvent] /\ any \in [Task -> BOOLEAN] /\ Suspended \subseteq Task
  BY DEF IInv, TypeOK
<1>5. /\ posted'[active] = Acquired(r)
      /\ \A t \in Suspended : posted'[t] = posted[t]
  <2>1. \A t \in Suspended : t # active /\ t # active' /\ t \in 1..Idle
    BY <1>2, <1>4, SuspendSwitch, Constants
  <2> QED BY <2>1, SuspendSwitch
<1>6. mask'[a] = r.mask /\ any'[a] = ~r.all /\ posted'[a] = Acquired(r)
  BY <1>2, <1>3, <1>4, <1>5
<1>7. Acquired(r) \cap Timer = {}
  BY <1>2, TimersAreNoObjects
<1>8. Misses(a)'
  <2>1. CASE r.all
    BY <1>1, <1>2, <1>6, <1>7, <2>1 DEF Misses, Immediately
  <2>2. CASE ~r.all
    BY <1>1, <1>6, <2>2 DEF Misses, Immediately
  <2> QED BY <2>1, <2>2
<1>9. ASSUME NEW t \in Suspended PROVE mask'[t] = mask[t] /\ Misses(t)'
  <2>1. mask'[t] = mask[t] /\ any'[t] = any[t]
    BY <1>2, <1>3, <1>4
  <2>2. Misses(t)
    BY DEF IInv, NobodyWaitsInVain
  <2> QED BY <1>5, <2>1, <2>2 DEF Misses
<1> QED BY <1>2, <1>3, <1>4, <1>5, <1>8, <1>9
LEMMA SuspendType ==
  ASSUME IInv, active # Idle, NEW r \in Requests[active], r.mask \cap holds[active] = {}, Suspend(r)
  PROVE  TypeOK'
<1>1. /\ TypeOK /\ Acquire(r) /\ StoreResumeCondition(active, r) /\ ReferTo(active, r)
      /\ UNCHANGED <<time, slice>>
  BY DEF IInv, Suspend
<1>2. /\ active \in Task /\ r.timeout \in Time /\ free' \subseteq free
      /\ units' \in [Semaphore -> Nat] /\ Permitted(r)
  BY <1>1, AcquiredProperties
<1>3. /\ active' \in 1..Idle /\ posted' \in [1..Idle -> SUBSET AnyEvent]
      /\ ctx' \in [Task -> {"new", "wait", "run"}] /\ holds' \in [Task -> SUBSET SyncObject]
      /\ due' \in [1..NoClasses -> Seq(Task)]
  BY SuspendSwitch DEF DueOf
<1>4. Suspended' \subseteq Task /\ Elements(arrived') = Suspended'
  BY <1>1, <1>2, SuspendLists DEF ListInv, TypeOK
<1>5. mask' \in [Task -> SUBSET AnyEvent] /\ any' \in [Task -> BOOLEAN]
  BY SuspendConditions
<1>6. /\ delay \in [Task -> Time] /\ dueAt \in [Task -> Time] /\ time \in Time
      /\ overrun \in [Task -> 0..MaxOverrun] /\ late \in [Regular -> -Modulus..Lost]
      /\ missed \in [Regular -> 0..MaxOverrun]
  BY <1>1 DEF TypeOK
<1>7. \A x, y \in Time : DueTime(x, y) \in Time
  BY <1>6, DueTimeType
<1>8. \A x \in 0..MaxOverrun : CountUpTo(x) \in 0..MaxOverrun
  BY Constants DEF CountUpTo
<1>9. delay' \in [Task -> Time] /\ dueAt' \in [Task -> Time] /\ overrun' \in [Task -> 0..MaxOverrun]
  <2>1. CASE UsesAbsolute(r)
    <3>1. /\ dueAt' = [dueAt EXCEPT ![active] = DueTime(@, r.timeout)] /\ delay' = delay
          /\ \/ overrun' = [overrun EXCEPT ![active] = CountUpTo(@)]
             \/ overrun' = overrun
      BY <1>1, <2>1 DEF StoreResumeCondition
    <3> QED BY <1>2, <1>6, <1>7, <1>8, <3>1
  <2>2. CASE ~UsesAbsolute(r)
    <3>1. /\ delay' = [delay EXCEPT ![active] = DelayOf(r.timeout)]
          /\ dueAt' = dueAt /\ overrun' = overrun
      BY <1>1, <2>2 DEF StoreResumeCondition
    <3> QED BY <1>2, <1>6, <3>1, TimeType
  <2> QED BY <2>1, <2>2
<1>10. late' \in [Regular -> -Modulus..Lost] /\ missed' \in [Regular -> 0..MaxOverrun]
  <2> DEFINE ahead == r.timeout - late[active]
  <2>1. CASE ~UsesAbsolute(r)
    BY <1>1, <1>6, <2>1 DEF ReferTo
  <2>2. CASE UsesAbsolute(r)
    <3>1. active \in Regular
      BY <1>2, <2>2 DEF Regular, UsesAbsolute
    <3>2. late[active] \in Int /\ r.timeout \in Int /\ ahead \in Int
      BY <1>2, <1>6, <3>1, TimeType DEF Time, Lost
    <3>3. 0 \in 0..MaxOverrun /\ Lost \in -Modulus..Lost /\ -1 \in -Modulus..Lost
      BY Constants, TimeType DEF Lost
    <3>4. CASE late[active] = Lost \/ ahead >= Half
      <4>1. late' = [late EXCEPT ![active] = Lost] /\ missed' = [missed EXCEPT ![active] = 0]
        BY <1>1, <2>2, <3>4 DEF ReferTo
      <4> QED BY <1>6, <3>3, <4>1
    <3>5. CASE ~(late[active] = Lost \/ ahead >= Half)
      <4>1. /\ late' = [late EXCEPT ![active] = IF ahead <= 0 THEN -1 ELSE -ahead]
            /\ \/ missed' = [missed EXCEPT ![active] = CountUpTo(@)]
               \/ missed' = missed
        BY <1>1, <2>2, <3>5 DEF ReferTo
      <4> HIDE DEF ahead
      <4>2. (IF ahead <= 0 THEN -1 ELSE -ahead) \in -Modulus..Lost
        <5>1. Modulus \in Int /\ Half \in Nat /\ Modulus = 2 * Half /\ Lost = Half + 1
          BY TimeType DEF Lost
        <5>2. ~(ahead <= 0) => -ahead \in -Modulus..Lost
          BY <3>2, <3>5, <5>1
        <5> QED BY <3>3, <5>2
      <4>3. late' \in [Regular -> -Modulus..Lost]
        BY <1>6, <4>1, <4>2
      <4>4. missed' \in [Regular -> 0..MaxOverrun]
        BY <1>6, <1>8, <4>1
      <4> QED BY <4>3, <4>4
    <3> QED BY <3>4, <3>5
  <2> QED BY <2>1, <2>2
<1> QED BY <1>1, <1>2, <1>3, <1>4, <1>5, <1>9, <1>10 DEF TypeOK

LEMMA SuspendKeepsInvariant ==
  ASSUME IInv, active # Idle, NEW r \in Requests[active], r.mask \cap holds[active] = {}, Suspend(r)
  PROVE  IInv'
<1>1. Acquire(r)
  BY DEF Suspend
<1>2. /\ TypeOK /\ ListInv /\ OrderInv /\ WaitInv /\ SignalReachesTask /\ NobodyWaitsInVain
      /\ HoldersInv
  BY DEF IInv
<1>3. /\ active \in Task /\ active \in 1..Idle /\ active \notin Suspended
      /\ ctx[active] = "run" /\ posted[active] = {}
      /\ Acquired(r) \subseteq r.mask \cap SyncObject
      /\ free' \subseteq free /\ free' \cap r.mask = {}
      /\ \A s \in Semaphore : units[s] = 0 => units'[s] = 0
      /\ \A s \in (r.mask \cap Semaphore) \ Acquired(r) : units'[s] = 0
  BY <1>1, AcquiredProperties
<1>4. /\ active' \in 1..Idle /\ active' # active
      /\ active' # Idle => active' \in Task \ (Suspended \cup {active})
      /\ posted'[active] = Acquired(r)
      /\ \A t \in 1..Idle : t # active => posted'[t] = IF t = active' THEN {} ELSE posted[t]
      /\ \A t \in Task : ctx'[t] = IF t = active THEN "wait"
                                   ELSE IF t = active' THEN "run" ELSE ctx[t]
      /\ \A t \in Task : t # active' => holds'[t] = holds[t]
      /\ \A t \in Task \ {active} :
           /\ posted'[t] \cup holds'[t] \subseteq posted[t] \cup holds[t]
           /\ (posted[t] \cup holds[t]) \cap SyncObject \subseteq posted'[t] \cup holds'[t]
  BY SuspendSwitch
<1>5. Suspended' = Suspended \cup {active} /\ ListInv' /\ OrderInv' /\ TypeOK'
  BY SuspendLists, SuspendType
<1>6. /\ mask' = [mask EXCEPT ![active] = r.mask] /\ any' = [any EXCEPT ![active] = ~r.all]
      /\ \A t \in Suspended : mask'[t] = mask[t] /\ posted'[t] = posted[t] /\ Misses(t)'
  BY SuspendConditions
<1>7. /\ mask \in [Task -> SUBSET AnyEvent] /\ any \in [Task -> BOOLEAN] /\ Suspended \subseteq Task
  BY <1>2 DEF TypeOK
<1>8. /\ mask'[active] = r.mask
      /\ \A t \in Task : t # active => mask'[t] = mask[t] /\ any'[t] = any[t]
  BY <1>3, <1>6, <1>7
<1>9. WaitInv'
  <2>1. active' # Idle => ctx'[active'] = "run"
    BY <1>4
  <2>2. \A t \in Task : posted'[t] \subseteq mask'[t]
    BY <1>2, <1>3, <1>4, <1>8, Constants DEF WaitInv
  <2>3. ASSUME NEW t \in Task, ctx'[t] # "run" PROVE mask'[t] \cap holds'[t] = {}
    <3>1. t # active' /\ holds'[t] = holds[t]
      BY <1>4, <2>3
    <3>2. CASE t = active
      BY <1>8, <3>1, <3>2
    <3>3. CASE t # active
      <4>1. ctx[t] # "run"
        BY <1>4, <2>3, <3>1, <3>3
      <4> QED BY <1>2, <1>8, <3>1, <3>3, <4>1 DEF WaitInv
    <3> QED BY <3>2, <3>3
  <2> QED BY <2>1, <2>2, <2>3 DEF WaitInv
<1>10. SignalReachesTask'
  <2>1. posted'[Idle] = {}
    BY <1>2, <1>3, <1>4, Constants DEF SignalReachesTask
  <2>2. ASSUME NEW t \in Task \ Suspended'
        PROVE  IF ctx'[t] = "run" THEN posted'[t] = {} ELSE ~Misses(t)'
    <3>1. t # active /\ t \notin Suspended /\ t \in 1..Idle
      BY <1>5, Constants
    <3>2. CASE t = active'
      BY <1>4, <3>1, <3>2
    <3>3. CASE t # active'
      <4>1. /\ posted'[t] = posted[t] /\ ctx'[t] = ctx[t]
            /\ mask'[t] = mask[t] /\ any'[t] = any[t]
        BY <1>4, <1>8, <3>1, <3>3
      <4>2. IF ctx[t] = "run" THEN posted[t] = {} ELSE ~Misses(t)
        BY <1>2, <3>1 DEF SignalReachesTask
      <4>3. Misses(t)' <=> Misses(t)
        BY <4>1 DEF Misses
      <4> QED BY <4>1, <4>2, <4>3
    <3> QED BY <3>2, <3>3
  <2>3. ASSUME NEW t \in Suspended' PROVE ctx'[t] # "run"
    <3>1. CASE t = active
      BY <1>3, <1>4, <3>1
    <3>2. CASE t \in Suspended
      <4>1. t # active' /\ t # active /\ t \in Task
        BY <1>3, <1>4, <1>7, <3>2, Constants
      <4> QED BY <1>2, <1>4, <3>2, <4>1 DEF SignalReachesTask
    <3> QED BY <1>5, <3>1, <3>2
  <2> QED BY <2>1, <2>2, <2>3 DEF SignalReachesTask
<1>11. NobodyWaitsInVain'
  <2> SUFFICES ASSUME NEW t \in Suspended'
               PROVE  /\ Misses(t)'
                      /\ mask'[t] \cap free' = {}
                      /\ \A s \in (mask'[t] \cap Semaphore) \ posted'[t] : units'[s] = 0
    BY DEF NobodyWaitsInVain
  <2>1. CASE t = active
    <3>1. Misses(t)'
      BY <2>1, SuspendConditions
    <3> QED BY <1>3, <1>4, <1>8, <2>1, <3>1
  <2>2. CASE t \in Suspended
    <3>1. /\ mask[t] \cap free = {}
          /\ \A s \in (mask[t] \cap Semaphore) \ posted[t] : units[s] = 0
      BY <1>2, <2>2 DEF NobodyWaitsInVain
    <3> QED BY <1>3, <1>6, <2>2, <3>1
  <2> QED BY <1>5, <2>1, <2>2
<1>12. HoldersInv'
  <2>1. ASSUME NEW o \in SyncObject
        PROVE  Holders(o)' = IF o \in Acquired(r) THEN Holders(o) \cup {active} ELSE Holders(o)
    <3>1. Holders(o)' = {t \in Task : o \in posted'[t] \cup holds'[t]}
      BY DEF Holders, On, OwnedBy
    <3>2. \A t \in Task \ {active} : o \in posted'[t] \cup holds'[t] <=> o \in posted[t] \cup holds[t]
      BY <1>4
    <3>3. posted'[active] \cup holds'[active] = Acquired(r) \cup holds[active]
      BY <1>3, <1>4
    <3>4. o \in posted'[active] \cup holds'[active] <=>
            o \in Acquired(r) \/ o \in posted[active] \cup holds[active]
      BY <1>3, <3>3
    <3> QED BY <1>3, <3>1, <3>2, <3>4, HoldersFinite DEF Carriers
  <2> QED BY <1>1, <2>1, AcquireKeepsObjects
<1> QED BY <1>5, <1>9, <1>10, <1>11, <1>12 DEF IInv
-----------------------------------------------------------------------------
(* The invariant. *)

LEMMA ResetKeepsInvariant ==
  ASSUME IInv, NEW t \in Regular, ResetOverrun(t)
  PROVE  IInv'
<1>1. /\ overrun' = [overrun EXCEPT ![t] = 0] /\ missed' = [missed EXCEPT ![t] = 0]
      /\ UNCHANGED <<time, susp, due, active, posted, mask, any, delay, dueAt, slice, free, units,
                     ctx, holds, arrived, late>>
  BY DEF ResetOverrun, lists
<1>2. Suspended' = Suspended
  BY <1>1 DEF Suspended
<1>3. \A u : Misses(u)' <=> Misses(u)
  BY <1>1 DEF Misses
<1>4. \A o : Holders(o)' = Holders(o)
  BY <1>1 DEF Holders, On, OwnedBy
<1>5. TypeOK'
  <2>1. 0 \in 0..MaxOverrun
    BY Constants
  <2> QED BY <1>1, <1>2, <2>1 DEF IInv, TypeOK
<1>6. ListInv' /\ OrderInv'
  BY <1>1, <1>2 DEF IInv, ListInv, OrderInv
<1>7. WaitInv' /\ SignalReachesTask'
  BY <1>1, <1>2, <1>3 DEF IInv, WaitInv, SignalReachesTask
<1>8. NobodyWaitsInVain'
  BY <1>1, <1>2, <1>3 DEF IInv, NobodyWaitsInVain
<1>9. HoldersInv'
  BY <1>1, <1>4 DEF IInv, HoldersInv
<1> QED BY <1>5, <1>6, <1>7, <1>8, <1>9 DEF IInv

LEMMA StutterKeepsInvariant == IInv /\ UNCHANGED vars => IInv'
<1> SUFFICES ASSUME IInv, UNCHANGED vars PROVE IInv'
  OBVIOUS
<1>1. UNCHANGED <<time, susp, due, active, posted, mask, any, delay, dueAt, slice, overrun, free,
                  units, ctx, holds, arrived, late, missed>>
  BY DEF vars
<1>2. Suspended' = Suspended
  BY <1>1 DEF Suspended
<1>3. \A u : Misses(u)' <=> Misses(u)
  BY <1>1 DEF Misses
<1>4. \A o : Holders(o)' = Holders(o)
  BY <1>1 DEF Holders, On, OwnedBy
<1>5. TypeOK'
  BY <1>1, <1>2 DEF IInv, TypeOK
<1>6. ListInv' /\ OrderInv'
  BY <1>1, <1>2 DEF IInv, ListInv, OrderInv
<1>7. WaitInv' /\ SignalReachesTask'
  BY <1>1, <1>2, <1>3 DEF IInv, WaitInv, SignalReachesTask
<1>8. NobodyWaitsInVain'
  BY <1>1, <1>2, <1>3 DEF IInv, NobodyWaitsInVain
<1>9. HoldersInv'
  BY <1>1, <1>4 DEF IInv, HoldersInv
<1> QED BY <1>5, <1>6, <1>7, <1>8, <1>9 DEF IInv

LEMMA InvariantAtStart == Init => IInv
<1> SUFFICES ASSUME Init PROVE IInv
  OBVIOUS
<1>1. /\ susp \in Seq(Task) /\ Injective(susp) /\ Sorted(susp) /\ Elements(susp) = Task
      /\ arrived = susp /\ Suspended = Task
  BY EnqueuedAll DEF Init, Suspended
<1>2. /\ due = [c \in 1..NoClasses |-> <<>>] /\ active = Idle
      /\ posted = [t \in 1..Idle |-> {}]
      /\ mask = [t \in Task |-> Start[t].mask] /\ any = [t \in Task |-> ~Start[t].all]
      /\ free = Mutex /\ units = Units
      /\ ctx = [t \in Task |-> "new"] /\ holds = [t \in Task |-> {}]
  BY DEF Init
<1>3. \A t \in Task : /\ Start[t].mask \in SUBSET AnyEvent /\ Start[t].mask # {}
                      /\ Start[t].all \in BOOLEAN /\ Start[t].timeout \in Time
                      /\ Permitted(Start[t]) /\ Start[t].mask \cap SyncObject = {}
  BY RequestType, RTuinOSAssumption
<1>4. time \in Time
  BY TimeType DEF Init, InitTime, Time
<1>5. TypeOK
  <2>1. delay \in [Task -> Time]
    BY <1>3, TimeType DEF Init
  <2>2. dueAt \in [Task -> Time]
    <3>1. \A x \in Time : DueTime(0, x) \in Time
      BY <1>4, TimeType, DueTimeType
    <3> QED BY <1>3, <3>1, TimeType DEF Init
  <2>3. late \in [Regular -> -Modulus..Lost]
    <3>1. 0 \in -Modulus..Lost /\ Lost \in -Modulus..Lost
      BY TimeType DEF Lost
    <3>2. \A x \in Time : ~(x + 1 >= Half) => -1 - x \in -Modulus..Lost
      BY TimeType DEF Lost, Time
    <3>3. \A t \in Regular : Start[t].timeout \in Time
      BY <1>3 DEF Regular
    <3>4. late = [t \in Regular |-> IF ~UsesAbsolute(Start[t]) THEN 0
                                    ELSE IF Start[t].timeout + 1 >= Half THEN Lost
                                    ELSE -1 - Start[t].timeout]
      BY DEF Init
    <3> QED BY <3>1, <3>2, <3>3, <3>4
  <2>4. /\ slice \in [Task -> Time] /\ overrun \in [Task -> 0..MaxOverrun]
        /\ missed \in [Regular -> 0..MaxOverrun]
    BY TimeType, Constants DEF Init
  <2>5. due \in [1..NoClasses -> Seq(Task)]
    BY <1>2
  <2>6. /\ posted \in [1..Idle -> SUBSET AnyEvent] /\ mask \in [Task -> SUBSET AnyEvent]
        /\ any \in [Task -> BOOLEAN] /\ ctx \in [Task -> {"new", "wait", "run"}]
        /\ holds \in [Task -> SUBSET SyncObject]
    BY <1>2, <1>3
  <2>7. free \subseteq Mutex /\ units \in [Semaphore -> Nat] /\ active \in 1..Idle
    BY <1>2, RTuinOSAssumption, Constants
  <2> QED BY <1>1, <1>4, <2>1, <2>2, <2>3, <2>4, <2>5, <2>6, <2>7 DEF TypeOK
<1>6. ListInv
  <2>1. \A c \in 1..NoClasses : due[c] = <<>>
    BY <1>2
  <2>2. HighestDue(due) = Idle
    BY <2>1 DEF HighestDue
  <2>3. <<>> \in Seq(Task) /\ Injective(<<>>) /\ Elements(<<>>) = {}
    BY DEF Injective, Elements
  <2> QED BY <1>1, <1>2, <2>1, <2>2, <2>3 DEF ListInv
<1>7. OrderInv
  <2> SUFFICES ASSUME NEW t \in Task, NEW u \in Task
               PROVE  Precedes(susp, t, u) <=> \/ Class[t] > Class[u]
                                               \/ Class[t] = Class[u] /\ Precedes(susp, t, u)
    BY <1>1 DEF OrderInv
  <2>1. Class[t] \in Int /\ Class[u] \in Int
    BY ClassType
  <2>2. /\ Precedes(susp, t, u) => Class[t] >= Class[u]
        /\ Class[t] > Class[u] => Precedes(susp, t, u)
    BY <1>1 DEF Sorted
  <2> QED BY <2>1, <2>2
<1>8. \A t \in Task : posted[t] = {}
  BY <1>2, Constants
<1>9. WaitInv
  BY <1>2, <1>8 DEF WaitInv
<1>10. SignalReachesTask
  BY <1>1, <1>2, Constants DEF SignalReachesTask
<1>11. NobodyWaitsInVain
  <2> SUFFICES ASSUME NEW t \in Task
               PROVE  /\ Misses(t) /\ mask[t] \cap free = {}
                      /\ \A s \in (mask[t] \cap Semaphore) \ posted[t] : units[s] = 0
    BY <1>1 DEF NobodyWaitsInVain
  <2>1. mask[t] = Start[t].mask /\ any[t] = ~Start[t].all
    BY <1>2
  <2>2. mask[t] \cap free = {} /\ mask[t] \cap Semaphore = {}
    BY <1>2, <1>3, <2>1 DEF SyncObject
  <2>3. Misses(t)
    BY <1>3, <1>8, <2>1 DEF Misses, Permitted
  <2> QED BY <2>2, <2>3
<1>12. HoldersInv
  <2>1. \A o : Holders(o) = {}
    BY <1>2, <1>8, HoldersFinite DEF Carriers
  <2>2. \A o : Cardinality(Holders(o)) = 0
    BY <2>1, FS_EmptySet
  <2>3. Units \in [Semaphore -> Nat]
    BY RTuinOSAssumption
  <2> QED BY <1>2, <2>2, <2>3 DEF HoldersInv
<1> QED BY <1>5, <1>6, <1>7, <1>9, <1>10, <1>11, <1>12 DEF IInv
LEMMA NextKeepsInvariant == IInv /\ [Next]_vars => IInv'
<1> SUFFICES ASSUME IInv, [Next]_vars PROVE IInv'
  OBVIOUS
<1>1. CASE Tick
  BY <1>1, TickKeepsInvariant
<1>2. CASE TaskSends
  <2>1. PICK evs : Sendable(evs) /\ SendEvent(evs)
    BY <1>2 DEF TaskSends, Sendable
  <2> QED BY <2>1, SendKeepsInvariant
<1>3. CASE IsrSends
  <2>1. PICK e \in IsrEvents : SendEvent({e})
    BY <1>3 DEF IsrSends
  <2>2. Sendable({e})
    BY RTuinOSAssumption DEF Sendable
  <2> QED BY <2>1, <2>2, SendKeepsInvariant
<1>4. ASSUME NEW t \in Task, TaskWaits(t) PROVE IInv'
  <2>1. active = t /\ active # Idle
    BY <1>4, Constants DEF TaskWaits
  <2>2. PICK r \in Requests[active] : /\ r.mask \cap holds[active] = {}
                                      /\ AcquireAndGoOn(r) \/ Suspend(r)
    BY <1>4, <2>1 DEF TaskWaits
  <2> QED BY <2>1, <2>2, GoOnKeepsInvariant, SuspendKeepsInvariant
<1>5. ASSUME NEW t \in Regular, ResetOverrun(t) PROVE IInv'
  BY <1>5, ResetKeepsInvariant
<1>6. CASE UNCHANGED vars
  BY <1>6, StutterKeepsInvariant
<1> QED BY <1>1, <1>2, <1>3, <1>4, <1>5, <1>6 DEF Next

(* The kernel never leaves the states that IInv describes, whatever the    *)
(* tasks and the interrupts ask of it.                                     *)
THEOREM KernelIsConsistent == Spec => []IInv
BY InvariantAtStart, NextKeepsInvariant, PTL DEF Spec

-----------------------------------------------------------------------------
(* What follows from it. *)

LEMMA IndexOnce ==
  ASSUME NEW A, NEW s \in Seq(A), Injective(s), NEW x
  PROVE  Cardinality({i \in 1..Len(s) : s[i] = x}) = IF x \in Elements(s) THEN 1 ELSE 0
<1>1. CASE x \in Elements(s)
  <2>1. PICK i \in 1..Len(s) : s[i] = x
    BY <1>1 DEF Elements
  <2>2. {j \in 1..Len(s) : s[j] = x} = {i}
    BY <2>1 DEF Injective
  <2> QED BY <1>1, <2>2, FS_Singleton
<1>2. CASE x \notin Elements(s)
  <2>1. {j \in 1..Len(s) : s[j] = x} = {}
    BY <1>2 DEF Elements
  <2> QED BY <1>2, <2>1, FS_EmptySet
<1> QED BY <1>1, <1>2

(* A list in which no task is twice is no longer than the number of tasks. *)
LEMMA ListFits ==
  ASSUME NEW s \in Seq(Task), Injective(s)
  PROVE  Len(s) <= NoTasks
<1>1. s \in [1..Len(s) -> Task] /\ Len(s) \in Nat
  BY LenProperties
<1>2. s \in Injection(1..Len(s), Task)
  <2>1. s \in [1..Len(s) -> Task] /\ \A i, j \in 1..Len(s) : s[i] = s[j] => i = j
    BY <1>1 DEF Injective
  <2> QED BY <2>1, Zenon DEF Injection, IsInjective
<1>3. IsFiniteSet(Task) /\ Cardinality(Task) = NoTasks
  BY FS_Interval, Constants DEF Task
<1>4. Cardinality(1..Len(s)) = Len(s)
  <2> DEFINE n == Len(s)
  <2>1. n \in Nat /\ 1 \in Int
    BY <1>1
  <2> HIDE DEF n
  <2>2. Cardinality(1..n) = IF 1 > n THEN 0 ELSE n - 1 + 1
    BY <2>1, FS_Interval
  <2>3. Cardinality(1..n) = n
    BY <2>1, <2>2
  <2> QED BY <2>3 DEF n
<1>5. Cardinality(1..Len(s)) <= Cardinality(Task)
  BY <1>2, <1>3, FS_Injection
<1> QED BY <1>3, <1>4, <1>5

LEMMA OneList == TypeOK /\ ListInv => TaskInOneList
<1> SUFFICES ASSUME TypeOK, ListInv PROVE TaskInOneList
  OBVIOUS
<1>1. DueOf(due, Suspended) /\ Suspended \subseteq Task
  BY DueNow
<1>2. ASSUME NEW t \in Task
      PROVE  Cardinality({i \in 1..Len(susp) : susp[i] = t})
               + Cardinality({x \in (1..NoClasses) \X (1..NoTasks) :
                                x[2] <= Len(due[x[1]]) /\ due[x[1]][x[2]] = t}) = 1
  <2> DEFINE D == {x \in (1..NoClasses) \X (1..NoTasks) :
                     x[2] <= Len(due[x[1]]) /\ due[x[1]][x[2]] = t}
  <2>1. Cardinality({i \in 1..Len(susp) : susp[i] = t}) = IF t \in Suspended THEN 1 ELSE 0
    BY IndexOnce DEF ListInv, Suspended
  <2>2. \A c \in 1..NoClasses : /\ due[c] \in Seq(Task) /\ Injective(due[c]) /\ Len(due[c]) \in Nat
                                /\ Elements(due[c]) = {u \in Task \ Suspended : Class[u] = c}
    BY <1>1 DEF DueOf
  <2>3. \A x \in D : /\ x[1] \in 1..NoClasses /\ x[2] \in 1..Len(due[x[1]]) /\ due[x[1]][x[2]] = t
                     /\ x = <<x[1], x[2]>>
    BY <2>2, Constants
  <2>4. \A x \in D : t \notin Suspended /\ Class[t] = x[1]
    <3> SUFFICES ASSUME NEW x \in D PROVE t \notin Suspended /\ Class[t] = x[1]
      OBVIOUS
    <3>1. due[x[1]][x[2]] = t /\ x[1] \in 1..NoClasses /\ x[2] \in 1..Len(due[x[1]])
      BY <2>3
    <3> QED BY <1>1, <3>1, DueElement
  <2>5. CASE t \in Suspended
    <3>1. D = {}
      BY <2>4, <2>5
    <3> HIDE DEF D
    <3>2. Cardinality(D) = 0
      BY <3>1, FS_EmptySet
    <3> QED BY <2>1, <2>5, <3>2 DEF D
  <2>6. CASE t \notin Suspended
    <3> DEFINE c == Class[t]
    <3>1. c \in 1..NoClasses /\ t \in Elements(due[c])
      BY <2>2, <2>6, Constants
    <3> HIDE DEF c
    <3>2. PICK i \in 1..Len(due[c]) : due[c][i] = t
      BY <3>1 DEF Elements
    <3>3. i \in 1..NoTasks /\ i <= Len(due[c])
      <4>1. Len(due[c]) <= NoTasks /\ Len(due[c]) \in Nat /\ NoTasks \in Nat
        BY <2>2, <3>1, ListFits, Constants
      <4> QED BY <4>1
    <3>4. <<c, i>> \in D
      BY <3>1, <3>2, <3>3
    <3>5. \A x \in D : x = <<c, i>>
      <4> SUFFICES ASSUME NEW x \in D PROVE x = <<c, i>>
        OBVIOUS
      <4>1. /\ x[1] = c /\ x[2] \in 1..Len(due[c]) /\ due[c][x[2]] = t /\ x = <<x[1], x[2]>>
        BY <2>3, <2>4 DEF c
      <4>2. x[2] = i
        BY <2>2, <3>1, <3>2, <4>1 DEF Injective
      <4> QED BY <4>1, <4>2
    <3> HIDE DEF D
    <3>6. D = {<<c, i>>}
      BY <3>4, <3>5
    <3>7. Cardinality(D) = 1
      BY <3>6, FS_Singleton
    <3> QED BY <2>1, <2>6, <3>7 DEF D
  <2> QED BY <2>5, <2>6
<1>3. \A c \in 1..NoClasses : \A i \in 1..Len(due[c]) : Class[due[c][i]] = c
  BY <1>1, DueElement
<1>4. active = HighestDue(due)
  BY DEF ListInv
<1> QED BY <1>2, <1>3, <1>4 DEF TaskInOneList

(* Every task is always in exactly one list and once, and the active task  *)
(* is the first of the highest class - where the kernel functions found no *)
(* reason to look for it, too.                                             *)
THEOREM TasksAreInOneList == Spec => []ListsAgree
<1>1. IInv => ListsAgree
  BY OneList DEF IInv, ListsAgree
<1> QED BY <1>1, KernelIsConsistent, PTL

LEMMA ObjectsCounted == IInv => SyncObjectsConserved
<1> SUFFICES ASSUME IInv PROVE SyncObjectsConserved
  OBVIOUS
<1>1. WaitInv /\ SignalReachesTask /\ HoldersInv
  BY DEF IInv
<1>2. ASSUME NEW o
      PROVE  Cardinality(Holders(o)) = Cardinality(On(o)) + Cardinality(OwnedBy(o))
  <2>1. IsFiniteSet(On(o)) /\ IsFiniteSet(OwnedBy(o))
    <3>1. IsFiniteSet(Holders(o)) /\ On(o) \in SUBSET Holders(o) /\ OwnedBy(o) \in SUBSET Holders(o)
      BY HoldersFinite DEF Holders
    <3> QED BY <3>1, FS_Subset
  <2>2. On(o) \cap OwnedBy(o) = {}
    <3> SUFFICES ASSUME NEW t \in Task, o \in posted[t], o \in holds[t] PROVE FALSE
      BY DEF On, OwnedBy
    <3>1. ctx[t] = "run"
      BY <1>1 DEF WaitInv
    <3>2. posted[t] = {}
      BY <1>1, <3>1 DEF SignalReachesTask
    <3> QED BY <3>2
  <2>3. Cardinality({}) = 0 /\ Cardinality(On(o)) \in Nat /\ Cardinality(OwnedBy(o)) \in Nat
    BY <2>1, FS_EmptySet, FS_CardinalityType
  <2> DEFINE A == On(o)
             B == OwnedBy(o)
  <2>4. Holders(o) = A \cup B /\ IsFiniteSet(A) /\ IsFiniteSet(B) /\ A \cap B = {}
    BY <2>1, <2>2 DEF Holders
  <2> HIDE DEF A, B
  <2>5. Cardinality(A \cup B) = Cardinality(A) + Cardinality(B) - Cardinality(A \cap B)
    BY <2>4, FS_Union
  <2>6. Cardinality(A \cap B) = 0 /\ Cardinality(A) \in Nat /\ Cardinality(B) \in Nat
    BY <2>3, <2>4 DEF A, B
  <2>7. Cardinality(Holders(o)) = Cardinality(A) + Cardinality(B)
    <3>1. Cardinality(Holders(o)) = Cardinality(A) + Cardinality(B) - 0
      BY <2>4, <2>5, <2>6
    <3> QED BY <2>6, <3>1
  <2> QED BY <2>7 DEF A, B
<1>3. \A o : Cardinality(On(o)) \in Nat /\ Cardinality(OwnedBy(o)) \in Nat
  <2> TAKE o
  <2>1. IsFiniteSet(Holders(o)) /\ On(o) \in SUBSET Holders(o) /\ OwnedBy(o) \in SUBSET Holders(o)
    BY HoldersFinite DEF Holders
  <2> QED BY <2>1, FS_Subset, FS_CardinalityType
<1>4. ASSUME NEW s \in Semaphore
      PROVE  units[s] + Cardinality(On(s)) + Cardinality(OwnedBy(s)) = Units[s]
  <2>1. units[s] \in Nat /\ units[s] + Cardinality(Holders(s)) = Units[s]
    BY <1>1 DEF HoldersInv, IInv, TypeOK
  <2> QED BY <1>2, <1>3, <2>1
<1> QED BY <1>1, <1>2, <1>4 DEF HoldersInv, SyncObjectsConserved

(* No mutex and no unit of a semaphore is ever lost, given away twice or   *)
(* made up: acquireFreeSyncObjs, rtos_sendEvent and the switch of contexts *)
(* only move them.                                                         *)
THEOREM SyncObjectsAreConserved == Spec => []SyncObjectsConserved
BY ObjectsCounted, KernelIsConsistent, PTL

(* No task is suspended whose condition is fulfilled, and none for a sync  *)
(* object that is available.                                               *)
THEOREM NobodyIsForgotten == Spec => []NobodyWaitsInVain
<1>1. IInv => NobodyWaitsInVain
  BY DEF IInv
<1> QED BY <1>1, KernelIsConsistent, PTL

(* What ends the wait of a task is delivered to it when it is resumed, and *)
(* never to a context that was interrupted and would lose it.              *)
THEOREM SignalsReachTasks == Spec => []SignalReachesTask
<1>1. IInv => SignalReachesTask
  BY DEF IInv
<1> QED BY <1>1, KernelIsConsistent, PTL
-----------------------------------------------------------------------------
(* Who is served first. *)

LEMMA ArrivalOrder ==
  ASSUME ListInv, NEW x \in Suspended, NEW y \in Suspended
  PROVE  Precedes(arrived, x, y) <=> Arrival(x) < Arrival(y)
<1>1. Injective(arrived) /\ Elements(arrived) = Suspended
  BY DEF ListInv
<1>2. ASSUME NEW t \in Suspended
      PROVE  Arrival(t) \in 1..Len(arrived) /\ arrived[Arrival(t)] = t
  <2>1. \E i \in 1..Len(arrived) : arrived[i] = t
    BY <1>1 DEF Elements
  <2> QED BY <2>1 DEF Arrival
<1>3. \A t \in Suspended : \A i \in 1..Len(arrived) : arrived[i] = t => i = Arrival(t)
  BY <1>1, <1>2 DEF Injective
<1>4. ASSUME Precedes(arrived, x, y) PROVE Arrival(x) < Arrival(y)
  <2>1. PICK i, j \in 1..Len(arrived) : i < j /\ arrived[i] = x /\ arrived[j] = y
    BY <1>4 DEF Precedes
  <2> QED BY <1>3, <2>1
<1>5. ASSUME Arrival(x) < Arrival(y) PROVE Precedes(arrived, x, y)
  BY <1>2, <1>5 DEF Precedes
<1> QED BY <1>4, <1>5

(* Only rtos_sendEvent takes a sync object from a task.                    *)
LEMMA ReleasedBySend ==
  ASSUME IInv, Next, active # Idle, NEW o \in holds[active] \ holds'[active]
  PROVE  \E evs : Sendable(evs) /\ SendEvent(evs) /\ o \in evs
<1>1. TypeOK /\ ListInv
  BY DEF IInv
<1>2. active \in Task /\ holds[active] \subseteq SyncObject
  BY <1>1, ActiveIsHead DEF TypeOK
<1>3. ASSUME Tick PROVE FALSE
  <2>1. Serves(TickPosted, TickDue, holds)
    BY <1>3, TickServes
  <2>2. ctx[active] = "run"
    BY DEF IInv, WaitInv
  <2>3. holds'[active] = holds[active] \/ active' = active
    BY <1>2, <2>1, ServedSwitch
  <2>4. active' = active => holds' = holds
    BY <2>1 DEF Serves, SwitchTo
  <2> QED BY <2>3, <2>4
<1>4. ASSUME NEW evs, Sendable(evs), SendEvent(evs) PROVE o \in evs
  <2>1. Serves(SendPosted(evs), DueWith(Resumed(SendPosted(evs))), SendHolds(evs))
    BY <1>4, SendServes
  <2>2. active' = active => holds' = SendHolds(evs)
    BY <2>1 DEF Serves, SwitchTo
  <2>3. holds'[active] = SendHolds(evs)[active]
    BY <1>2, <2>1, <2>2, ServedSwitch
  <2>4. SendHolds(evs)[active] = holds[active] \ evs
    BY <1>1, <1>2 DEF SendHolds, TypeOK
  <2> QED BY <2>3, <2>4
<1>5. ASSUME NEW t \in Task, TaskWaits(t) PROVE FALSE
  <2>1. PICK r \in Requests[active] : /\ r.mask \cap holds[active] = {}
                                      /\ AcquireAndGoOn(r) \/ Suspend(r)
    BY <1>5 DEF TaskWaits
  <2>2. CASE AcquireAndGoOn(r)
    BY <1>1, <1>2, <2>2 DEF AcquireAndGoOn, TypeOK
  <2>3. CASE Suspend(r)
    BY <1>2, <2>1, <2>3, SuspendSwitch
  <2> QED BY <2>1, <2>2, <2>3
<1>6. ASSUME NEW t \in Regular, ResetOverrun(t) PROVE FALSE
  BY <1>6 DEF ResetOverrun
<1>7. CASE TaskSends
  <2>1. PICK evs : Sendable(evs) /\ SendEvent(evs)
    BY <1>7 DEF TaskSends, Sendable
  <2> QED BY <1>4, <2>1
<1>8. CASE IsrSends
  <2>1. PICK e \in IsrEvents : SendEvent({e})
    BY <1>8 DEF IsrSends
  <2>2. Sendable({e})
    BY RTuinOSAssumption DEF Sendable
  <2> QED BY <1>4, <2>1, <2>2
<1> QED BY <1>3, <1>5, <1>6, <1>7, <1>8 DEF Next

LEMMA FirstIsServed ==
  ASSUME IInv, NEW evs, Sendable(evs), SendEvent(evs), NEW o \in evs \cap SyncObject,
         NEW W, W = {t \in Suspended : Wants(t, o)}, W # {}
  PROVE  \E t \in W : /\ \A u \in W \ {t} : Before(t, u)
                      /\ o \in posted'[t] \cup holds'[t]
<1>1. TypeOK /\ ListInv /\ OrderInv /\ Suspended \subseteq Task
  BY DueNow DEF IInv
<1>2. Waiting(o) # {}
  BY NobodyWaits
<1>3. PICK w \in Suspended : /\ Wants(w, o)
                             /\ \A u \in Suspended : Wants(u, o) /\ u # w => Precedes(susp, w, u)
                             /\ \A es : o \in es => \A t : o \in Given(t, es) <=> t = w
  BY <1>1, <1>2, FirstWaiter
<1>4. ASSUME NEW u \in W \ {w} PROVE Before(w, u)
  <2>1. Precedes(susp, w, u) /\ u \in Suspended
    BY <1>3
  <2>2. \/ Class[w] > Class[u]
        \/ Class[w] = Class[u] /\ Precedes(arrived, w, u)
    BY <1>1, <2>1 DEF OrderInv
  <2> QED BY <1>1, <2>1, <2>2, ArrivalOrder DEF Before
<1>5. o \in SendPosted(evs)[w]
  BY <1>1, <1>3, Constants DEF SendPosted
<1>6. Serves(SendPosted(evs), DueWith(Resumed(SendPosted(evs))), SendHolds(evs))
  BY SendServes
<1>7. o \in posted'[w] \cup holds'[w]
  <2> DEFINE p == SendPosted(evs)
             d == DueWith(Resumed(p))
             h == SendHolds(evs)
  <2>1. w \in Task /\ o \in p[w] /\ Serves(p, d, h)
    BY <1>1, <1>5, <1>6
  <2> HIDE DEF p, d, h
  <2>2. (p[w] \cup h[w]) \cap SyncObject \subseteq posted'[w] \cup holds'[w]
    BY <2>1, ServedSwitch
  <2> QED BY <2>1, <2>2
<1> QED BY <1>3, <1>4, <1>7

(* A released mutex or semaphore goes straight to the waiting task of the  *)
(* highest class, and within the class to the one that waits longest.      *)
THEOREM ReleasedObjectsGoToTheFirst == Spec => HandedToFirst
<1> DEFINE Handed ==
      active # Idle =>
        \A o \in holds[active] \ holds'[active] :
          LET W == {t \in Suspended : Wants(t, o)}
          IN  W # {} => \E t \in W : /\ \A u \in W \ {t} : Before(t, u)
                                     /\ o \in posted'[t] \cup holds'[t]
<1>1. IInv /\ [Next]_vars => [Handed]_vars
  <2> SUFFICES ASSUME IInv, Next, active # Idle, NEW o \in holds[active] \ holds'[active],
                      NEW W, W = {t \in Suspended : Wants(t, o)}, W # {}
               PROVE  \E t \in W : /\ \A u \in W \ {t} : Before(t, u)
                                   /\ o \in posted'[t] \cup holds'[t]
    OBVIOUS
  <2>1. PICK evs : Sendable(evs) /\ SendEvent(evs) /\ o \in evs
    BY ReleasedBySend
  <2>2. o \in SyncObject
    BY ActiveIsHead DEF IInv, TypeOK
  <2> QED BY <2>1, <2>2, FirstIsServed
<1>2. IInv /\ [Next]_vars => [active # Idle =>
         \A o \in holds[active] \ holds'[active] :
           LET W == {t \in Suspended : Wants(t, o)}
           IN  W # {} => \E t \in W : /\ \A u \in W \ {t} : Before(t, u)
                                      /\ o \in posted'[t] \cup holds'[t]]_vars
  BY <1>1
<1> QED BY <1>2, KernelIsConsistent, PTL DEF Spec, HandedToFirst

(* Who goes on collecting sync objects was there before the others of its  *)
(* class that want them.                                                   *)
CollectsInv ==
  \A t, u \in Suspended :
    (Class[t] = Class[u] /\ \E o \in posted[u] \cap SyncObject : o \in mask[t] \ posted[t])
      => Precedes(arrived, u, t)

LEMMA ServedCollects ==
  ASSUME IInv, CollectsInv, NEW p, NEW d, NEW h, Serves(p, d, h),
         \A t, u \in Suspended : \A o \in SyncObject :
           Class[t] = Class[u] /\ o \in p[u] \ posted[u] /\ o \in mask[t] \ p[t]
             => Precedes(arrived, u, t)
  PROVE  CollectsInv'
<1>1. TypeOK /\ ListInv /\ OrderInv /\ Suspended \subseteq Task
  BY DueNow DEF IInv
<1>2. Resumed(p) \in SUBSET Suspended /\ Leave(Resumed(p)) /\ mask' = mask
  BY DEF Resumed, Serves
<1>3. /\ Suspended' = Suspended \ Resumed(p)
      /\ \A t, u \in Suspended \ Resumed(p) : Precedes(arrived', t, u) <=> Precedes(arrived, t, u)
  BY <1>1, <1>2, LeaveProperties
<1>4. \A t \in Suspended' : posted'[t] = p[t]
  BY ServedWaits
<1>5. \A t \in Suspended : posted[t] \subseteq p[t]
  BY <1>1, Constants DEF Serves
<1> SUFFICES ASSUME NEW t \in Suspended', NEW u \in Suspended', Class[t] = Class[u],
                    NEW o \in posted'[u] \cap SyncObject, o \in mask'[t] \ posted'[t]
             PROVE  Precedes(arrived', u, t)
  BY DEF CollectsInv
<1>6. /\ t \in Suspended /\ u \in Suspended /\ o \in p[u] /\ o \in mask[t] \ p[t]
      /\ o \notin posted[t]
  BY <1>2, <1>3, <1>4, <1>5
<1>7. Precedes(arrived, u, t)
  BY <1>6 DEF CollectsInv
<1> QED BY <1>3, <1>7

LEMMA NextKeepsCollects == IInv /\ CollectsInv /\ [Next]_vars => CollectsInv'
<1> SUFFICES ASSUME IInv, CollectsInv, [Next]_vars PROVE CollectsInv'
  OBVIOUS
<1>1. TypeOK /\ ListInv /\ OrderInv /\ Suspended \subseteq Task
  BY DueNow DEF IInv
<1>2. CASE Tick
  <2>1. Serves(TickPosted, TickDue, holds)
    BY <1>2, TickServes
  <2>2. \A u \in Suspended : \A o \in SyncObject : o \notin TickPosted[u] \ posted[u]
    BY <1>1, TimersAreNoObjects, Constants DEF TickPosted, Elapsed, Timer
  <2> QED BY <2>1, <2>2, ServedCollects
<1>3. ASSUME NEW evs, Sendable(evs), SendEvent(evs) PROVE CollectsInv'
  <2> DEFINE p == SendPosted(evs)
             d == DueWith(Resumed(p))
             h == SendHolds(evs)
  <2>1. Serves(p, d, h)
    BY <1>3, SendServes
  <2>2. \A t \in Suspended : p[t] = posted[t] \cup Given(t, evs)
    BY <1>1, Constants DEF SendPosted
  <2> HIDE DEF p, d, h
  <2>3. ASSUME NEW t \in Suspended, NEW u \in Suspended, NEW o \in SyncObject,
               Class[t] = Class[u], o \in p[u] \ posted[u], o \in mask[t] \ p[t]
        PROVE  Precedes(arrived, u, t)
    <3>1. o \in Given(u, evs) /\ o \notin Given(t, evs) /\ o \notin posted[t]
      BY <2>2, <2>3
    <3>2. o \in evs /\ Waiting(o) # {}
      BY <3>1, TimersAreNoObjects DEF Given
    <3>3. PICK w \in Suspended : /\ \A x \in Suspended : Wants(x, o) /\ x # w => Precedes(susp, w, x)
                                 /\ \A es : o \in es => \A x : o \in Given(x, es) <=> x = w
      BY <1>1, <3>2, FirstWaiter
    <3>4. u = w /\ t # w /\ Wants(t, o)
      BY <2>3, <3>1, <3>2, <3>3 DEF Wants
    <3>5. Precedes(susp, u, t)
      BY <3>3, <3>4
    <3>6. \/ Class[u] > Class[t]
          \/ Class[u] = Class[t] /\ Precedes(arrived, u, t)
      BY <1>1, <3>5 DEF OrderInv
    <3>7. ~(Class[u] > Class[t])
      BY <1>1, <2>3, ClassType
    <3> QED BY <3>6, <3>7
  <2> QED BY <2>1, <2>3, ServedCollects
<1>4. CASE TaskSends
  <2>1. PICK evs : Sendable(evs) /\ SendEvent(evs)
    BY <1>4 DEF TaskSends, Sendable
  <2> QED BY <1>3, <2>1
<1>5. CASE IsrSends
  <2>1. PICK e \in IsrEvents : SendEvent({e})
    BY <1>5 DEF IsrSends
  <2>2. Sendable({e})
    BY RTuinOSAssumption DEF Sendable
  <2> QED BY <1>3, <2>1, <2>2
<1>6. ASSUME active # Idle, NEW r \in Requests[active], r.mask \cap holds[active] = {}, Suspend(r)
      PROVE  CollectsInv'
  <2>1. /\ Suspended' = Suspended \cup {active}
        /\ \A t, u \in Suspended : Precedes(arrived', t, u) <=> Precedes(arrived, t, u)
        /\ \A t \in Suspended : Precedes(arrived', t, active)
    BY <1>6, SuspendLists
  <2>2. \A t \in Suspended : mask'[t] = mask[t] /\ posted'[t] = posted[t]
    BY <1>6, SuspendConditions
  <2>3. /\ mask'[active] = r.mask /\ posted'[active] = Acquired(r)
        /\ Acquired(r) \subseteq r.mask
    <3>1. Acquire(r) /\ mask' = [mask EXCEPT ![active] = r.mask]
      BY <1>6, SuspendConditions DEF Suspend
    <3>2. active \in Task /\ Acquired(r) \subseteq r.mask \cap SyncObject
      BY <1>6, <3>1, AcquiredProperties
    <3> QED BY <1>1, <1>6, <3>1, <3>2, SuspendSwitch DEF TypeOK
  <2> SUFFICES ASSUME NEW t \in Suspended', NEW u \in Suspended', Class[t] = Class[u],
                      NEW o \in posted'[u] \cap SyncObject, o \in mask'[t] \ posted'[t]
               PROVE  Precedes(arrived', u, t)
    BY DEF CollectsInv
  <2>4. CASE t \in Suspended /\ u \in Suspended
    <3>1. Precedes(arrived, u, t)
      BY <2>2, <2>4 DEF CollectsInv
    <3> QED BY <2>1, <2>4, <3>1
  <2>5. CASE t = active /\ u \in Suspended
    BY <2>1, <2>5
  <2>6. CASE t \in Suspended /\ u = active
    <3>1. o \in Acquired(r) /\ o \in mask[t] \ posted[t]
      BY <2>2, <2>3, <2>6
    <3>2. o \in free \/ (o \in Semaphore /\ units[o] > 0)
      BY <3>1 DEF Acquired
    <3>3. /\ mask[t] \cap free = {}
          /\ \A s \in (mask[t] \cap Semaphore) \ posted[t] : units[s] = 0
      BY <2>6 DEF IInv, NobodyWaitsInVain
    <3> QED BY <3>1, <3>2, <3>3
  <2>7. CASE t = active /\ u = active
    BY <2>3, <2>7
  <2> QED BY <2>1, <2>4, <2>5, <2>6, <2>7
<1>7. ASSUME UNCHANGED <<susp, posted, mask, arrived>> PROVE CollectsInv'
  BY <1>7 DEF CollectsInv, Suspended
<1>8. ASSUME NEW t \in Task, TaskWaits(t) PROVE CollectsInv'
  <2>1. active = t /\ active # Idle
    BY <1>8, Constants DEF TaskWaits
  <2>2. PICK r \in Requests[active] : /\ r.mask \cap holds[active] = {}
                                      /\ AcquireAndGoOn(r) \/ Suspend(r)
    BY <1>8, <2>1 DEF TaskWaits
  <2>3. AcquireAndGoOn(r) => UNCHANGED <<susp, posted, mask, arrived>>
    BY DEF AcquireAndGoOn, lists, condition
  <2> QED BY <1>6, <1>7, <2>1, <2>2, <2>3
<1>9. ASSUME NEW t \in Regular, ResetOverrun(t) PROVE CollectsInv'
  BY <1>7, <1>9 DEF ResetOverrun, lists
<1>10. CASE UNCHANGED vars
  BY <1>7, <1>10 DEF vars
<1> QED BY <1>2, <1>4, <1>5, <1>8, <1>9, <1>10 DEF Next

(* A task that has part of its sync objects and waits for the others was   *)
(* suspended before all tasks of its class that miss one of those it has:  *)
(* the tasks of a class cannot wait for each other in a circle.            *)
THEOREM CollectorsWereFirst == Spec => []CollectsBeforeLaterOnes
<1>1. Init => CollectsInv
  <2> SUFFICES ASSUME Init PROVE CollectsInv
    OBVIOUS
  <2>1. \A t \in Suspended : posted[t] = {}
    BY InvariantAtStart, DueNow, Constants DEF Init, IInv
  <2> QED BY <2>1 DEF CollectsInv
<1>2. IInv /\ CollectsInv => CollectsBeforeLaterOnes
  BY ArrivalOrder DEF CollectsInv, CollectsBeforeLaterOnes, IInv
<1> QED BY <1>1, <1>2, NextKeepsCollects, KernelIsConsistent, PTL DEF Spec
-----------------------------------------------------------------------------
(* The system time and the overruns. *)

(* x and y are the same time as far as an unsigned int can tell.           *)
SameTime(x, y) == \E k \in Int : x - y = k * Modulus

LEMMA SameTimeModulo ==
  ASSUME NEW x \in Int, NEW y \in Int, SameTime(x, y)
  PROVE  SameTime(x % Modulus, y)
<1> DEFINE m == Modulus
           z == x % m
<1>1. m \in Nat \ {0}
  BY TimeType
<1>2. PICK k \in Int : x - y = k * m
  BY DEF SameTime
<1> HIDE DEF m
<1>3. z \in Int /\ x = (x \div m) * m + z /\ x \div m \in Int
  BY <1>1
<1> HIDE DEF z
<1>4. z - y = k * m - (x \div m) * m
  <2> DEFINE u == k * m
             v == (x \div m) * m
  <2>1. u \in Int /\ v \in Int /\ x - y = u /\ x = v + z
    BY <1>1, <1>2, <1>3
  <2> HIDE DEF u, v
  <2>2. z - y = u - v
    BY <1>3, <2>1
  <2> QED BY <2>2 DEF u, v
<1>5. z - y = (k - (x \div m)) * m /\ k - (x \div m) \in Int
  BY <1>1, <1>3, <1>4
<1>6. SameTime(z, y)
  BY <1>5 DEF SameTime, m
<1> QED BY <1>6 DEF z, m

(* A difference of two times that are less than half the range apart.      *)
LEMMA SignedDifference ==
  ASSUME NEW d \in Int, NEW a \in Int, SameTime(d, a), -Half < a, a < Half
  PROVE  Signed(d) = a
<1> DEFINE m == Modulus
           r == d % m
<1>1. m \in Nat \ {0} /\ Half \in Nat /\ m = 2 * Half
  BY TimeType
<1>2. r \in 0..(m - 1)
  BY <1>1
<1>3. SameTime(r, a)
  BY SameTimeModulo
<1> HIDE DEF m, r
<1>4. PICK j \in Int : r - a = j * m
  BY <1>3 DEF SameTime, m
<1>5. r - a > -m /\ r - a < 2 * m /\ r - a \in Int
  BY <1>1, <1>2
<1>6. j >= 0
  BY <1>1, <1>4, <1>5
<1>7. j <= 1
  BY <1>1, <1>4, <1>5
<1>8. j = 0 \/ j = 1
  BY <1>6, <1>7
<1>9. r = a \/ r = a + m
  <2>1. 0 * m = 0 /\ 1 * m = m
    BY <1>1
  <2>2. r - a = 0 \/ r - a = m
    BY <1>4, <1>8, <2>1
  <2> QED BY <1>1, <1>2, <2>2
<1>10. (IF r < Half THEN r ELSE r - m) = a
  BY <1>1, <1>2, <1>9
<1> QED BY <1>10 DEF Signed, m, r

(* The time that the next use of the absolute timer refers to is late[t]   *)
(* ticks ago.                                                              *)
AgeInv ==
  \A t \in Regular : late[t] # Lost => SameTime(time - dueAt[t], late[t]) /\ overrun[t] = missed[t]

LEMMA RegularTypes ==
  ASSUME TypeOK, NEW t \in Regular
  PROVE  /\ t \in Task /\ late[t] \in Int /\ dueAt[t] \in Int /\ time \in Int
         /\ late[t] # Lost => late[t] <= Half
<1>1. t \in Task /\ time \in Time /\ dueAt[t] \in Time /\ late[t] \in -Modulus..Lost
  BY DEF TypeOK, Regular
<1>2. time \in Int /\ dueAt[t] \in Int
  BY <1>1 DEF Time
<1>3. late[t] \in Int /\ (late[t] # Lost => late[t] <= Half)
  <2>1. -Modulus \in Int /\ Half \in Int /\ Lost = Half + 1
    BY WidthAssumption DEF Lost
  <2> QED BY <1>1, <2>1
<1> QED BY <1>1, <1>2, <1>3

(* storeResumeCondition recognizes the overruns, and no others.            *)
LEMMA OverrunRecognized ==
  ASSUME TypeOK, NEW t \in Regular, NEW n \in 1..(Half - 1), late[t] # Lost,
         SameTime(time - dueAt[t], late[t]), n - late[t] < Half
  PROVE  IsOver(dueAt[t], n) <=> n - late[t] <= 0
<1>1. late[t] \in Int /\ dueAt[t] \in Int /\ time \in Int /\ late[t] <= Half /\ n \in Int
  BY RegularTypes
<1>2. PICK k \in Int : (time - dueAt[t]) - late[t] = k * Modulus
  BY DEF SameTime
<1> DEFINE d == dueAt[t] + n - time
           a == n - late[t]
           m == Modulus
<1>3. d \in Int /\ a \in Int /\ m \in Int /\ d - a = -(k * m)
  <2>1. m \in Int
    BY WidthAssumption
  <2> DEFINE u == k * m
  <2>2. u \in Int /\ (time - dueAt[t]) - late[t] = u
    BY <1>2, <2>1
  <2> HIDE DEF u, m
  <2>3. d \in Int /\ a \in Int /\ d - a = -((time - dueAt[t]) - late[t])
    BY <1>1
  <2>4. d - a = -u
    BY <2>2, <2>3
  <2> QED BY <2>1, <2>3, <2>4 DEF u
<1>4. -(k * m) = (-k) * m /\ -k \in Int
  BY <1>3
<1>5. SameTime(d, a)
  BY <1>3, <1>4 DEF SameTime
<1>6. -Half < a /\ a < Half
  <2>1. Half \in Nat
    BY WidthAssumption
  <2> QED BY <1>1, <2>1
<1> HIDE DEF a, d
<1>7. Signed(d) = a
  BY <1>3, <1>5, <1>6, SignedDifference
<1> QED BY <1>7 DEF IsOver, a, d

LEMMA WaitCountsOverruns ==
  ASSUME IInv, AgeInv, active # Idle, NEW r \in Requests[active],
         r.mask \cap holds[active] = {}, Suspend(r)
  PROVE  AgeInv'
<1>1. /\ TypeOK /\ StoreResumeCondition(active, r) /\ ReferTo(active, r) /\ Acquire(r)
      /\ time' = time
  BY DEF IInv, Suspend
<1>2. active \in Task /\ Permitted(r)
  BY <1>1, AcquiredProperties
<1>3. CASE ~UsesAbsolute(r)
  <2>1. UNCHANGED <<time, dueAt, overrun, late, missed>>
    BY <1>1, <1>3 DEF StoreResumeCondition, ReferTo
  <2> QED BY <2>1 DEF AgeInv
<1>4. CASE UsesAbsolute(r)
  <2> DEFINE ahead == r.timeout - late[active]
             over == IsOver(dueAt[active], r.timeout)
  <2>1. active \in Regular /\ r.timeout \in 1..(Half - 1)
    BY <1>2, <1>4 DEF Regular, UsesAbsolute, Permitted
  <2>2. /\ dueAt' = [dueAt EXCEPT ![active] = DueTime(@, r.timeout)]
        /\ overrun' = IF over THEN [overrun EXCEPT ![active] = CountUpTo(@)] ELSE overrun
    BY <1>1, <1>4 DEF StoreResumeCondition
  <2>3. /\ dueAt \in [Task -> Time] /\ overrun \in [Task -> 0..MaxOverrun]
        /\ late \in [Regular -> -Modulus..Lost] /\ missed \in [Regular -> 0..MaxOverrun]
        /\ Regular \subseteq Task
    BY <1>1 DEF TypeOK, Regular
  <2>4. /\ dueAt'[active] = DueTime(dueAt[active], r.timeout)
        /\ overrun'[active] = IF over THEN CountUpTo(overrun[active]) ELSE overrun[active]
        /\ \A t \in Regular : t # active => dueAt'[t] = dueAt[t] /\ overrun'[t] = overrun[t]
    BY <1>2, <2>2, <2>3
  <2>5. CASE late[active] = Lost \/ ahead >= Half
    <3>1. late' = [late EXCEPT ![active] = Lost] /\ missed' = [missed EXCEPT ![active] = 0]
      BY <1>1, <1>4, <2>5 DEF ReferTo
    <3>2. /\ late'[active] = Lost
          /\ \A t \in Regular : t # active => late'[t] = late[t] /\ missed'[t] = missed[t]
      BY <2>1, <2>3, <3>1
    <3> QED BY <1>1, <2>4, <3>2 DEF AgeInv
  <2>6. CASE ~(late[active] = Lost \/ ahead >= Half)
    <3>1. /\ late' = [late EXCEPT ![active] = IF ahead <= 0 THEN -1 ELSE -ahead]
          /\ missed' = IF ahead <= 0 THEN [missed EXCEPT ![active] = CountUpTo(@)] ELSE missed
      BY <1>1, <1>4, <2>6 DEF ReferTo
    <3>2. /\ late'[active] = IF ahead <= 0 THEN -1 ELSE -ahead
          /\ missed'[active] = IF ahead <= 0 THEN CountUpTo(missed[active]) ELSE missed[active]
          /\ \A t \in Regular : t # active => late'[t] = late[t] /\ missed'[t] = missed[t]
      BY <2>1, <2>3, <3>1
    <3>3. SameTime(time - dueAt[active], late[active]) /\ overrun[active] = missed[active]
      BY <2>1, <2>6 DEF AgeInv
    <3>4. /\ late[active] \in Int /\ dueAt[active] \in Int /\ time \in Int /\ r.timeout \in Int
          /\ Half \in Int
      BY <1>1, <2>1, RegularTypes, TimeType
    <3>5. over <=> ahead <= 0
      BY <1>1, <2>1, <2>6, <3>3, <3>4, OverrunRecognized
    <3>6. overrun'[active] = missed'[active]
      BY <2>4, <3>2, <3>3, <3>5
    <3>7. CASE over
      <4>1. dueAt'[active] = (time + 1) % Modulus /\ late'[active] = -1
        BY <2>4, <3>2, <3>5, <3>7 DEF DueTime
      <4>2. SameTime(time + 1, time + 1)
        <5>1. (time + 1) - (time + 1) = 0 * Modulus
          BY <3>4, TimeType
        <5> QED BY <5>1 DEF SameTime
      <4>3. SameTime((time + 1) % Modulus, time + 1)
        BY <3>4, <4>2, SameTimeModulo
      <4> DEFINE z == (time + 1) % Modulus
                 m == Modulus
      <4>4. PICK k \in Int : z - (time + 1) = k * m
        BY <4>3 DEF SameTime
      <4>5. z \in Int /\ m \in Int
        BY <3>4, TimeType DEF Time
      <4> HIDE DEF z, m
      <4>6. (time - z) - (-1) = -(k * m)
        BY <3>4, <4>4, <4>5
      <4>7. -(k * m) = (-k) * m /\ -k \in Int
        BY <4>5
      <4>8. SameTime(time - z, -1)
        BY <4>6, <4>7 DEF SameTime, m
      <4>9. SameTime(time' - dueAt'[active], late'[active])
        BY <1>1, <4>1, <4>8 DEF z
      <4> QED BY <1>1, <2>4, <3>2, <3>6, <4>9 DEF AgeInv
    <3>8. CASE ~over
      <4> DEFINE x == dueAt[active] + r.timeout
                 z == x % Modulus
                 m == Modulus
      <4>1. dueAt'[active] = z /\ late'[active] = -ahead
        BY <2>4, <3>2, <3>5, <3>8 DEF DueTime
      <4>2. x \in Int /\ m \in Int
        BY <3>4, TimeType
      <4>3. SameTime(x, x)
        <5>1. x - x = 0 * Modulus
          BY <4>2
        <5> QED BY <5>1 DEF SameTime
      <4>4. SameTime(z, x)
        BY <4>2, <4>3, SameTimeModulo
      <4>5. PICK k \in Int : z - x = k * m
        BY <4>4 DEF SameTime
      <4>6. PICK j \in Int : (time - dueAt[active]) - late[active] = j * m
        BY <3>3 DEF SameTime
      <4>7. z \in Int
        BY <4>2, TimeType DEF Time
      <4> HIDE DEF z, m
      <4>8. (time - z) - (-ahead) = j * m - k * m
        BY <3>4, <4>2, <4>5, <4>6, <4>7
      <4>9. j * m - k * m = (j - k) * m /\ j - k \in Int
        BY <4>2
      <4>10. SameTime(time - z, -ahead)
        BY <4>8, <4>9 DEF SameTime, m
      <4>11. SameTime(time' - dueAt'[active], late'[active])
        BY <1>1, <4>1, <4>10
      <4> QED BY <1>1, <2>4, <3>2, <3>6, <4>11 DEF AgeInv
    <3> QED BY <3>7, <3>8
  <2> QED BY <2>5, <2>6
<1> QED BY <1>3, <1>4

LEMMA TickKeepsAges ==
  ASSUME IInv, AgeInv, Tick, RegularFromStart
  PROVE  AgeInv'
<1>1. TypeOK
  BY DEF IInv
<1>2. /\ time' = (time + 1) % Modulus /\ UNCHANGED <<dueAt, overrun, missed>>
      /\ late' = [t \in Regular |-> IF Ages(t) /\ late[t] # Lost THEN late[t] + 1 ELSE late[t]]
  BY DEF Tick
<1> SUFFICES ASSUME NEW t \in Regular, late'[t] # Lost
             PROVE  SameTime(time' - dueAt'[t], late'[t]) /\ overrun'[t] = missed'[t]
  BY DEF AgeInv
<1>3. late[t] # Lost /\ late'[t] = late[t] + 1
  BY <1>2 DEF Ages, RegularFromStart
<1>4. SameTime(time - dueAt[t], late[t]) /\ overrun[t] = missed[t]
  BY <1>3 DEF AgeInv
<1>5. late[t] \in Int /\ dueAt[t] \in Int /\ time \in Int
  BY <1>1, RegularTypes
<1> DEFINE m == Modulus
           y == dueAt[t] + late[t] + 1
           z == (time + 1) % m
<1>6. PICK k \in Int : (time - dueAt[t]) - late[t] = k * m
  BY <1>4 DEF SameTime
<1>7. m \in Int /\ y \in Int /\ time + 1 \in Int /\ (time + 1) - y = k * m
  <2>1. m \in Int
    BY WidthAssumption
  <2> DEFINE u == k * m
  <2>2. u \in Int /\ (time - dueAt[t]) - late[t] = u
    BY <1>6, <2>1
  <2> HIDE DEF u, m
  <2>3. y \in Int /\ time + 1 \in Int /\ (time + 1) - y = u
    BY <1>5, <2>2
  <2> QED BY <2>1, <2>3 DEF u
<1>8. SameTime(z, y)
  <2>1. SameTime(time + 1, y)
    BY <1>7 DEF SameTime
  <2> HIDE DEF y
  <2> QED BY <1>7, <2>1, SameTimeModulo
<1>9. PICK j \in Int : z - y = j * m
  BY <1>8 DEF SameTime
<1>10. z \in Int
  BY <1>5, TimeType DEF Time
<1> HIDE DEF z, m
<1>11. (z - dueAt[t]) - (late[t] + 1) = j * m
  BY <1>5, <1>9, <1>10
<1>12. SameTime(z - dueAt[t], late[t] + 1)
  BY <1>11 DEF SameTime, m
<1>13. time' = z /\ dueAt' = dueAt
  BY <1>2 DEF z, m
<1> QED BY <1>2, <1>3, <1>4, <1>12, <1>13

LEMMA NextKeepsAges == RegularFromStart /\ IInv /\ AgeInv /\ [Next]_vars => AgeInv'
<1> SUFFICES ASSUME RegularFromStart, IInv, AgeInv, [Next]_vars PROVE AgeInv'
  OBVIOUS
<1>1. ASSUME UNCHANGED <<time, dueAt, overrun, late, missed>> PROVE AgeInv'
  BY <1>1 DEF AgeInv
<1>2. CASE TaskSends \/ IsrSends
  BY <1>1, <1>2 DEF TaskSends, IsrSends, SendEvent, condition
<1>3. ASSUME NEW t \in Task, TaskWaits(t) PROVE AgeInv'
  <2>1. active = t /\ active # Idle
    BY <1>3, Constants DEF TaskWaits
  <2>2. PICK r \in Requests[active] : /\ r.mask \cap holds[active] = {}
                                      /\ AcquireAndGoOn(r) \/ Suspend(r)
    BY <1>3, <2>1 DEF TaskWaits
  <2>3. AcquireAndGoOn(r) => UNCHANGED <<time, dueAt, overrun, late, missed>>
    BY DEF AcquireAndGoOn, condition
  <2> QED BY <1>1, <2>1, <2>2, <2>3, WaitCountsOverruns
<1>4. ASSUME NEW t \in Regular, ResetOverrun(t) PROVE AgeInv'
  <2>1. /\ overrun' = [overrun EXCEPT ![t] = 0] /\ missed' = [missed EXCEPT ![t] = 0]
        /\ UNCHANGED <<time, dueAt, late>>
    BY <1>4 DEF ResetOverrun
  <2>2. \A u \in Regular : overrun[u] = missed[u] => overrun'[u] = missed'[u]
    BY <2>1 DEF IInv, TypeOK, Regular
  <2> QED BY <2>1, <2>2 DEF AgeInv
<1>5. CASE UNCHANGED vars
  BY <1>1, <1>5 DEF vars
<1>6. CASE Tick
  BY <1>6, TickKeepsAges
<1> QED BY <1>2, <1>3, <1>4, <1>5, <1>6 DEF Next

LEMMA AgesAtStart == RegularFromStart /\ Init => AgeInv
<1> SUFFICES ASSUME RegularFromStart, Init, NEW t \in Regular, late[t] # Lost
             PROVE  SameTime(time - dueAt[t], late[t]) /\ overrun[t] = missed[t]
  BY DEF AgeInv
<1> DEFINE n == Start[t].timeout
           m == Modulus
<1>1. t \in Task /\ UsesAbsolute(Start[t]) /\ n \in 1..(Half - 1)
  <2>1. t \in Task /\ UsesAbsolute(Start[t])
    BY DEF RegularFromStart, Regular
  <2> QED BY <2>1, RequestType DEF Permitted, UsesAbsolute
<1>2. m \in Nat \ {0} /\ Half \in Nat /\ m = 2 * Half
  BY TimeType
<1>3. late[t] = (IF n + 1 >= Half THEN Lost ELSE -1 - n) /\ time = m - 1
  BY <1>1 DEF Init, InitTime
<1>4. late[t] = -1 - n /\ n + 1 < Half
  BY <1>1, <1>2, <1>3
<1>5. dueAt[t] = DueTime(0, n) /\ overrun[t] = missed[t]
  BY <1>1 DEF Init
<1> HIDE DEF m, n
<1>6. Signed(0 + n - time) = n + 1
  <2>1. (0 + n - time) - (n + 1) = (-1) * m
    BY <1>1, <1>2, <1>3
  <2>2. SameTime(0 + n - time, n + 1)
    BY <2>1 DEF SameTime, m
  <2>3. 0 + n - time \in Int /\ n + 1 \in Int /\ -Half < n + 1 /\ n + 1 < Half
    BY <1>1, <1>2, <1>3, <1>4
  <2> QED BY <2>2, <2>3, SignedDifference
<1>7. ~IsOver(0, n)
  <2>1. ~(n + 1 <= 0)
    BY <1>1
  <2> QED BY <1>6, <2>1 DEF IsOver
<1>8. dueAt[t] = n
  <2>1. (0 + n) % m = n
    BY <1>1, <1>2
  <2> QED BY <1>5, <1>7, <2>1 DEF DueTime, m
<1>9. (time - dueAt[t]) - late[t] = 1 * m
  BY <1>1, <1>2, <1>3, <1>4, <1>8
<1>10. SameTime(time - dueAt[t], late[t])
  BY <1>9 DEF SameTime, m
<1> QED BY <1>5, <1>10

(* For tasks that use the absolute timer from their start, the counter of  *)
(* overruns counts every overrun and nothing else, whatever the width of   *)
(* the system time, across its wrap around.                                *)
THEOREM OverrunsAreCounted == RegularFromStart => (Spec => []OverrunsCounted)
<1>1. AgeInv => OverrunsCounted
  BY DEF AgeInv, OverrunsCounted
<1>2. ASSUME RegularFromStart PROVE Spec => []OverrunsCounted
  <2>1. Init => AgeInv
    BY <1>2, AgesAtStart
  <2>2. IInv /\ AgeInv /\ [Next]_vars => AgeInv'
    BY <1>2, NextKeepsAges
  <2> QED BY <1>1, <2>1, <2>2, KernelIsConsistent, PTL DEF Spec
<1> QED BY <1>2
=============================================================================
