------------------------ MODULE SafeSchedulerProofs ------------------------
(***************************************************************************)
(* Proofs about the scheduler of safe-RTOS, for any number of events,      *)
(* priorities, tasks, interrupts and levels.                               *)
(*                                                                         *)
(* The argument: every context on the stack starts at the level of the one *)
(* below it and goes back to it before it leaves (Nested, TopInv). Levels  *)
(* therefore never decrease from the bottom of the stack to its top, and   *)
(* each invocation of the scheduler that serves an event lifts them. What  *)
(* the theorems say are consequences of this order.                        *)
(***************************************************************************)
EXTENDS SafeScheduler, WellFoundedInduction, TLAPS

-----------------------------------------------------------------------------
(* Searching the table of events. *)

(* A set of natural numbers that is not empty has a first element.         *)
LEMMA NatLessWellFounded ==
  IsWellFoundedOn({ss \in Nat \X Nat : ss[1] < ss[2]}, Nat)
BY NatLessThanWellFounded, Zenon DEF OpToRel

LEMMA FirstProperties ==
  ASSUME NEW S \in SUBSET Nat, S # {}
  PROVE  First(S) \in S /\ \A y \in S : First(S) <= y
<1> DEFINE R == {ss \in Nat \X Nat : ss[1] < ss[2]}
<1>1. IsWellFoundedOn(R, Nat)
  BY NatLessWellFounded
<1> HIDE DEF R
<1>2. PICK x \in S : \A y \in S : ~(<<y, x>> \in R)
  BY <1>1, WFMin
<1>3. \A y \in S : x <= y
  <2> TAKE y \in S
  <2>1. ~(y < x)
    BY <1>2 DEF R
  <2> QED BY <2>1
<1> QED BY <1>3 DEF First

(* The search for an event always ends at the guard at the latest.         *)
LEMMA EventByPriorityType ==
  ASSUME NEW p \in Nat
  PROVE  EventByPriority(p) \in 1..Guard
<1> DEFINE S == {e \in 1..Guard : Prio(e) <= p}
<1>1. Guard \in S
  BY EventAssumption DEF Guard, Prio
<1>2. S \in SUBSET Nat /\ S # {}
  BY <1>1, EventAssumption DEF Guard
<1>3. First(S) \in S
  BY <1>2, FirstProperties
<1> QED BY <1>3 DEF EventByPriority

LEMMA NextScheduledType ==
  ASSUME NEW e \in Event
  PROVE  NextScheduled(e) \in 1..Guard
<1> DEFINE S == {x \in Event : Priority[x] = Priority[e]}
<1>1. e \in S /\ S \subseteq Event
  OBVIOUS
<1> HIDE DEF S
<1>2. Event \subseteq Nat
  BY EventAssumption DEF Event
<1>3. First(S) \in S
  BY <1>1, <1>2, FirstProperties
<1>4. \A x \in Event : x \in 1..Guard /\ x + 1 \in 1..Guard
  BY EventAssumption DEF Event, Guard
<1>5. First(S) \in Event
  BY <1>1, <1>3
<1> QED BY <1>4, <1>5 DEF NextScheduled, S

(* What the scheduler takes up is a triggered event above its level.       *)
LEMMA DueFromHit ==
  ASSUME NEW e \in Nat, NEW p \in Nat, DueFrom(e, p) # {}
  PROVE  /\ First(DueFrom(e, p)) \in Event
         /\ Prio(First(DueFrom(e, p))) > p
         /\ evState[First(DueFrom(e, p))] = "triggered"
<1>1. DueFrom(e, p) \in SUBSET Nat
  BY EventAssumption DEF DueFrom, Event
<1>2. First(DueFrom(e, p)) \in DueFrom(e, p)
  BY <1>1, FirstProperties
<1> QED BY <1>2 DEF DueFrom

LEMMA PrioType ==
  /\ \A e \in 1..Guard : Prio(e) \in 0..MaxPriority
  /\ \A e \in Event : Prio(e) \in 1..MaxPriority /\ e # Guard /\ e \in 1..Guard
BY EventAssumption DEF Prio, Guard, Event

LEMMA IndexType ==
  /\ Guard \in 1..Guard /\ Guard \in Nat
  /\ Unset = Guard + 1 /\ Unset \in 1..Unset
BY EventAssumption DEF Guard, Unset

-----------------------------------------------------------------------------
(* Changing the stack. *)

StackType(s) == s \in Seq(FrameType) /\ s # <<>>

LEMMA StackLength ==
  ASSUME NEW s, StackType(s)
  PROVE  /\ Len(s) \in Nat \ {0}
         /\ \A i \in 1..Len(s) : s[i] \in FrameType
BY DEF StackType

LEMMA FrameFields ==
  ASSUME NEW f \in FrameType
  PROVE  /\ f.prio \in 0..MaxPriority /\ f.lock \in 0..MaxPriority
         /\ f.prio \in Nat /\ f.lock \in Nat
         /\ f.ev \in 1..Guard /\ f.hint \in 1..Guard
         /\ f.n \in Nat
BY EventAssumption DEF FrameType

(* A frame runs at the level it was entered with or above.                 *)
LEMMA LockAbovePrio ==
  ASSUME NEW f \in FrameType, WellFormed(f)
  PROVE  f.prio <= f.lock
BY FrameFields DEF WellFormed, FrameType, Kinds

(* A new context on top: it starts at the level of the interrupted one and *)
(* is an interrupt if any interrupt is unfinished.                         *)
LEMMA PushNested ==
  ASSUME NEW s, StackType(s), Nested(s),
         NEW f \in FrameType, WellFormed(f), f.kind # "idle",
         FitsOn(f, s[Len(s)]),
         f.kind = "isr" \/ Unfinished(s) = {}
  PROVE  StackType(Append(s, f)) /\ Nested(Append(s, f))
<1> DEFINE t == Append(s, f)
           n == Len(s)
<1>1. /\ n \in Nat \ {0}
      /\ \A i \in 1..n : s[i] \in FrameType
  BY StackLength
<1>2. /\ t \in Seq(FrameType) /\ t # <<>> /\ Len(t) = n + 1
      /\ t[n + 1] = f
      /\ \A i \in 1..n : t[i] = s[i]
  BY <1>1 DEF StackType
<1> HIDE DEF t, n
<1>3. \A i \in 1..Len(t) : WellFormed(t[i]) /\ (t[i].kind = "idle" <=> i = 1)
  BY <1>1, <1>2 DEF Nested, n
<1>4. \A i \in 1..(Len(t) - 1) : FitsOn(t[i + 1], t[i])
  <2> TAKE i \in 1..(Len(t) - 1)
  <2>1. CASE i = n
    BY <2>1, <1>1, <1>2 DEF n
  <2>2. CASE i < n
    BY <2>2, <1>1, <1>2 DEF Nested, n
  <2> QED BY <2>1, <2>2, <1>1, <1>2
<1>5. f.prio = s[n].lock
  BY DEF FitsOn, n
<1>6. \A i \in 1..n : s[i].lock <= s[n].lock
  <2> TAKE i \in 1..n
  <2>1. CASE i = n
    BY <2>1, <1>1, FrameFields
  <2>2. CASE i < n
    <3>1. s[i].lock <= s[n].prio
      BY <2>2, <1>1 DEF Nested, n
    <3>2. s[n].prio <= s[n].lock
      BY <1>1, LockAbovePrio DEF Nested, n
    <3>3. s[i] \in FrameType /\ s[n] \in FrameType
      BY <1>1
    <3> QED BY <3>1, <3>2, <3>3, FrameFields
  <2> QED BY <2>1, <2>2, <1>1
<1>7. \A i \in 1..n : s[i].kind = "isr" /\ s[i].pc = "run" => f.kind = "isr"
  BY DEF Unfinished, n
<1>8. \A i, j \in 1..Len(t) :
        i < j => /\ t[i].lock <= t[j].prio
                 /\ t[i].kind = "isr" /\ t[i].pc = "run" => t[j].kind = "isr"
  <2> SUFFICES ASSUME NEW i \in 1..Len(t), NEW j \in 1..Len(t), i < j
               PROVE  /\ t[i].lock <= t[j].prio
                      /\ t[i].kind = "isr" /\ t[i].pc = "run" => t[j].kind = "isr"
    OBVIOUS
  <2>1. CASE j = n + 1
    BY <2>1, <1>1, <1>2, <1>5, <1>6, <1>7
  <2>2. CASE j <= n
    BY <2>2, <1>1, <1>2 DEF Nested, n
  <2> QED BY <2>1, <2>2, <1>1, <1>2
<1> QED BY <1>2, <1>3, <1>4, <1>8 DEF Nested, StackType, t

(* The top context leaves. *)
LEMMA PopNested ==
  ASSUME NEW s, StackType(s), Nested(s), s[Len(s)].kind # "idle"
  PROVE  /\ StackType(Front(s)) /\ Nested(Front(s))
         /\ Len(s) > 1
         /\ Len(Front(s)) = Len(s) - 1
         /\ \A i \in 1..(Len(s) - 1) : Front(s)[i] = s[i]
<1>1. /\ Len(s) \in Nat \ {0}
      /\ \A i \in 1..Len(s) : s[i] \in FrameType
  BY StackLength
<1>2. Len(s) > 1
  BY <1>1 DEF Nested
<1>3. /\ Front(s) \in Seq(FrameType)
      /\ Len(Front(s)) = Len(s) - 1
      /\ \A i \in 1..(Len(s) - 1) : Front(s)[i] = s[i]
  BY <1>1, <1>2 DEF Front, StackType
<1>4. StackType(Front(s))
  BY <1>2, <1>3 DEF StackType
<1>5. Nested(Front(s))
  BY <1>1, <1>2, <1>3 DEF Nested
<1> QED BY <1>2, <1>3, <1>4, <1>5

(* The top context goes on, at a level of its own.                         *)
LEMMA ReplaceNested ==
  ASSUME NEW s, StackType(s), Nested(s),
         NEW g \in FrameType, WellFormed(g),
         g.kind = s[Len(s)].kind,
         g.prio = s[Len(s)].prio,
         g.kind = "task" => g.ev = s[Len(s)].ev
  PROVE  /\ StackType([s EXCEPT ![Len(s)] = g])
         /\ Nested([s EXCEPT ![Len(s)] = g])
         /\ Len([s EXCEPT ![Len(s)] = g]) = Len(s)
         /\ [s EXCEPT ![Len(s)] = g][Len(s)] = g
         /\ \A i \in 1..(Len(s) - 1) : [s EXCEPT ![Len(s)] = g][i] = s[i]
<1> DEFINE n == Len(s)
           t == [s EXCEPT ![n] = g]
<1>1. /\ n \in Nat \ {0}
      /\ \A i \in 1..n : s[i] \in FrameType
  BY StackLength
<1>2. /\ t \in Seq(FrameType) /\ t # <<>> /\ Len(t) = n
      /\ t[n] = g
      /\ \A i \in 1..(n - 1) : t[i] = s[i]
  BY <1>1 DEF StackType
<1> HIDE DEF t, n
<1>3. \A i \in 1..n : t[i].kind = s[i].kind /\ t[i].prio = s[i].prio
  BY <1>1, <1>2 DEF n
<1>4. \A i \in 1..n : WellFormed(t[i]) /\ (t[i].kind = "idle" <=> i = 1)
  BY <1>1, <1>2, <1>3 DEF Nested, n
<1>5. \A i \in 1..(n - 1) : FitsOn(t[i + 1], t[i])
  <2> TAKE i \in 1..(n - 1)
  <2>1. FitsOn(s[i + 1], s[i]) /\ t[i] = s[i]
    BY <1>1, <1>2 DEF Nested, n
  <2>2. t[i + 1].kind = s[i + 1].kind /\ t[i + 1].prio = s[i + 1].prio
    BY <1>1, <1>3
  <2>3. t[i + 1].kind = "task" => t[i + 1].ev = s[i + 1].ev
    BY <1>1, <1>2, <2>2 DEF n
  <2> QED BY <2>1, <2>2, <2>3 DEF FitsOn
<1>6. \A i, j \in 1..n :
        i < j => /\ t[i].lock <= t[j].prio
                 /\ t[i].kind = "isr" /\ t[i].pc = "run" => t[j].kind = "isr"
  BY <1>1, <1>2, <1>3 DEF Nested, n
<1> QED BY <1>2, <1>4, <1>5, <1>6 DEF Nested, StackType, t, n

-----------------------------------------------------------------------------
(* Which events the invocations of the scheduler on the stack serve. *)

Serves(f) == f.kind = "sched" /\ f.pc = "launch"

(* No two invocations serve the same event: their levels differ.           *)
LEMMA ServedOnce ==
  ASSUME NEW s, StackType(s), Nested(s),
         NEW i \in 1..Len(s), NEW j \in 1..Len(s), i < j,
         Serves(s[i]), Serves(s[j])
  PROVE  Prio(s[i].ev) < Prio(s[j].ev)
<1>1. s[i] \in FrameType /\ s[j] \in FrameType
  BY StackLength
<1>2. WellFormed(s[i]) /\ WellFormed(s[j]) /\ s[i].lock <= s[j].prio
  BY DEF Nested
<1>3. s[i].lock = Prio(s[i].ev) /\ s[j].lock = Prio(s[j].ev) /\ s[j].prio < s[j].lock
  BY <1>2 DEF WellFormed, Serves
<1> QED BY <1>1, <1>2, <1>3, FrameFields

LEMMA PushServes ==
  ASSUME NEW s, StackType(s), NEW f \in FrameType, ~Serves(f)
  PROVE  ServedBy(Append(s, f)) = ServedBy(s)
<1>1. /\ Len(s) \in Nat /\ Len(Append(s, f)) = Len(s) + 1
      /\ Append(s, f)[Len(s) + 1] = f
      /\ \A i \in 1..Len(s) : Append(s, f)[i] = s[i]
  BY DEF StackType
<1> QED BY <1>1 DEF ServedBy, Serves

LEMMA PopServes ==
  ASSUME NEW s, StackType(s), Nested(s), s[Len(s)].kind # "idle", ~Serves(s[Len(s)])
  PROVE  ServedBy(Front(s)) = ServedBy(s)
BY PopNested, StackLength DEF ServedBy, Serves

LEMMA ReplaceServes ==
  ASSUME NEW s, StackType(s), NEW t, Len(t) = Len(s),
         \A i \in 1..(Len(s) - 1) : t[i] = s[i],
         ~Serves(s[Len(s)])
  PROVE  ServedBy(t) = ServedBy(s) \cup
           (IF Serves(t[Len(s)]) THEN {t[Len(s)].ev} \cap Event ELSE {})
<1>1. Len(s) \in Nat \ {0}
  BY StackLength
<1> QED BY <1>1 DEF ServedBy, Serves

-----------------------------------------------------------------------------
(* The steps that several actions share. *)

(* What IInv says of the context that has the CPU.                         *)
LEMMA TopProperties ==
  ASSUME IInv
  PROVE  /\ StackType(stack) /\ Nested(stack)
         /\ Len(stack) \in Nat \ {0}
         /\ Top = stack[Len(stack)]
         /\ Top \in FrameType /\ WellFormed(Top)
         /\ Top.kind # "isr" => Unfinished(stack) = {}
<1>1. StackType(stack) /\ Nested(stack)
  BY DEF IInv, TypeOK, StackType
<1>2. /\ Len(stack) \in Nat \ {0}
      /\ \A i \in 1..Len(stack) : stack[i] \in FrameType
  BY <1>1, StackLength
<1>3. WellFormed(Top) /\ Top \in FrameType
  BY <1>1, <1>2 DEF Nested, Top
<1>4. Top.kind # "isr" => Unfinished(stack) = {}
  <2> SUFFICES ASSUME Top.kind # "isr", NEW i \in Unfinished(stack)
               PROVE  FALSE
    OBVIOUS
  <2>1. i \in 1..Len(stack) /\ stack[i].kind = "isr" /\ stack[i].pc = "run"
    BY DEF Unfinished
  <2>2. i # Len(stack)
    BY <2>1 DEF Top
  <2>3. i < Len(stack)
    BY <2>1, <2>2, <1>2
  <2> QED BY <2>1, <2>3, <1>1, <1>2 DEF Nested, Top
<1> QED BY <1>1, <1>2, <1>3, <1>4 DEF Top

(* The context that has the CPU changes its own frame.                     *)
LEMMA ReplaceStep ==
  ASSUME IInv, NEW g \in FrameType, WellFormed(g),
         g.kind = Top.kind, g.prio = Top.prio,
         g.kind = "task" => g.ev = Top.ev,
         stack' = WithTop(g)
  PROVE  /\ StackType(stack)' /\ Nested(stack')
         /\ Len(stack') = Len(stack)
         /\ Top' = g
         /\ \A i \in 1..(Len(stack) - 1) : stack'[i] = stack[i]
         /\ Top.kind # "isr" => Unfinished(stack') = {}
         /\ ~Serves(Top) /\ ~Serves(g) => ServedBy(stack') = ServedBy(stack)
<1>1. /\ StackType(stack) /\ Nested(stack) /\ Len(stack) \in Nat \ {0}
      /\ Top = stack[Len(stack)]
      /\ Top.kind # "isr" => Unfinished(stack) = {}
  BY TopProperties
<1>2. /\ StackType(stack') /\ Nested(stack') /\ Len(stack') = Len(stack)
      /\ stack'[Len(stack)] = g
      /\ \A i \in 1..(Len(stack) - 1) : stack'[i] = stack[i]
  BY <1>1, ReplaceNested DEF WithTop
<1>3. Top.kind # "isr" => Unfinished(stack') = {}
  BY <1>1, <1>2 DEF Unfinished
<1>4. ~Serves(Top) /\ ~Serves(g) => ServedBy(stack') = ServedBy(stack)
  BY <1>1, <1>2, ReplaceServes
<1> QED BY <1>1, <1>2, <1>3, <1>4 DEF StackType, Top

(* It calls the scheduler, which runs on top of it.                        *)
LEMMA CallStep ==
  ASSUME IInv, NEW e \in 1..Guard, NEW pc \in {"call", "endCall"},
         CallScheduler(e, pc),
         Top.kind \in {"idle", "task"} \/ (Top.kind = "isr" /\ Unfinished(Front(stack)) = {}),
         pc = "endCall" => Top.kind = "task" /\ Top.lock = Top.prio
  PROVE  /\ StackType(stack)' /\ Nested(stack')
         /\ Top' = SchedFrame(e) /\ SchedFrame(e).kind = "sched"
         /\ SchedFrame(e).pc = "enter" /\ SchedFrame(e).lock = currentPrio
         /\ Unfinished(stack') = {}
         /\ ServedBy(stack') = ServedBy(stack)
<1> DEFINE f == SchedFrame(e)
           g == [Top EXCEPT !.pc = pc]
           s == WithTop(g)
<1>1. /\ StackType(stack) /\ Nested(stack) /\ Len(stack) \in Nat \ {0}
      /\ Top = stack[Len(stack)]
      /\ Top \in FrameType /\ WellFormed(Top)
      /\ Top.kind # "isr" => Unfinished(stack) = {}
  BY TopProperties
<1>2. currentPrio = Top.lock /\ currentPrio \in 0..MaxPriority /\ currentEvent \in 1..Guard
  BY DEF IInv, TopInv, TypeOK
<1>3. /\ g \in FrameType /\ WellFormed(g) /\ g.pc = pc /\ g.lock = Top.lock
      /\ g.kind = Top.kind /\ g.prio = Top.prio /\ g.ev = Top.ev
  BY <1>1 DEF FrameType, Pcs, WellFormed
<1>4. /\ f \in FrameType /\ WellFormed(f)
      /\ f.kind = "sched" /\ f.pc = "enter" /\ f.prio = currentPrio /\ f.lock = currentPrio
  BY <1>2, TriggerAssumption DEF SchedFrame, Frame, FrameType, Kinds, Pcs, WellFormed
<1> HIDE DEF f, g
<1>5. /\ StackType(s) /\ Nested(s) /\ Len(s) = Len(stack) /\ s[Len(stack)] = g
      /\ \A i \in 1..(Len(stack) - 1) : s[i] = stack[i]
  BY <1>1, <1>3, ReplaceNested DEF WithTop
<1>6. ServedBy(s) = ServedBy(stack)
  BY <1>1, <1>3, <1>5, ReplaceServes DEF Serves
<1> HIDE DEF s
<1>7. Unfinished(s) = {}
  <2>1. \A i \in 1..(Len(stack) - 1) : ~(stack[i].kind = "isr" /\ stack[i].pc = "run")
    <3>1. CASE Top.kind = "isr"
      BY <3>1, <1>1, PopNested DEF Unfinished
    <3>2. CASE Top.kind # "isr"
      BY <3>2, <1>1 DEF Unfinished
    <3> QED BY <3>1, <3>2
  <2> QED BY <2>1, <1>1, <1>3, <1>5 DEF Unfinished
<1>8. FitsOn(f, s[Len(s)])
  BY <1>2, <1>3, <1>4, <1>5 DEF FitsOn
<1>9. stack' = Append(s, f)
  BY DEF CallScheduler, s, g, f
<1>10. StackType(stack') /\ Nested(stack')
  BY <1>4, <1>5, <1>7, <1>8, <1>9, PushNested
<1>11. ServedBy(stack') = ServedBy(stack)
  BY <1>4, <1>5, <1>6, <1>9, PushServes DEF Serves
<1>12. /\ Len(stack') = Len(stack) + 1 /\ stack'[Len(stack) + 1] = f
       /\ \A i \in 1..Len(stack) : stack'[i] = s[i]
  BY <1>1, <1>5, <1>9 DEF StackType
<1>13. Unfinished(stack') = {}
  BY <1>1, <1>4, <1>5, <1>7, <1>12 DEF Unfinished
<1> QED BY <1>1, <1>4, <1>10, <1>11, <1>12, <1>13 DEF StackType, Top, f

(* It leaves the stack, and the one below finds the level it relies on.    *)
LEMMA PopStep ==
  ASSUME IInv, Top.kind # "idle", ~Serves(Top),
         currentPrio' = Top.prio,
         stack' = Front(stack)
  PROVE  /\ StackType(stack)' /\ Nested(stack')
         /\ ~(Top'.kind = "sched" /\ Top'.pc \in {"enter", "scan"})
         /\ currentPrio' = Top'.lock
         /\ ServedBy(stack') = ServedBy(stack)
         /\ FitsOn(Top, Top')
         /\ Len(stack) > 1 /\ Top' = stack[Len(stack) - 1]
<1>1. /\ StackType(stack) /\ Nested(stack) /\ Len(stack) \in Nat \ {0}
      /\ Top = stack[Len(stack)]
  BY TopProperties
<1>2. /\ StackType(stack') /\ Nested(stack')
      /\ Len(stack) > 1 /\ Len(stack') = Len(stack) - 1
      /\ stack'[Len(stack) - 1] = stack[Len(stack) - 1]
  BY <1>1, PopNested
<1>3. FitsOn(Top, stack[Len(stack) - 1])
  BY <1>1, <1>2 DEF Nested
<1>4. ServedBy(stack') = ServedBy(stack)
  BY <1>1, PopServes
<1> QED BY <1>2, <1>3, <1>4 DEF StackType, Top, FitsOn

-----------------------------------------------------------------------------
(* The invariant. *)

LEMMA InitIInv == Init => IInv
<1> SUFFICES ASSUME Init PROVE IInv
  OBVIOUS
<1>1. IdleFrame \in FrameType /\ WellFormed(IdleFrame)
      /\ IdleFrame.kind = "idle" /\ IdleFrame.lock = 0
  BY IndexType, EventAssumption, TriggerAssumption
     DEF IdleFrame, Frame, FrameType, Kinds, Pcs, WellFormed
<1>2. stack = <<IdleFrame>> /\ Len(stack) = 1 /\ stack[1] = IdleFrame
  BY DEF Init
<1>3. StackType(stack)
  BY <1>1, <1>2 DEF StackType
<1>4. Nested(stack)
  BY <1>1, <1>2 DEF Nested
<1>5. TypeOK
  BY <1>3, IndexType, EventAssumption, TriggerAssumption DEF TypeOK, StackType, Init
<1>6. TopInv
  BY <1>1, <1>2 DEF TopInv, Top, InScan, Init
<1>7. InProgressInv
  BY <1>1, <1>2 DEF InProgressInv, ServedBy, Init
<1>8. PostponedInv
  BY DEF PostponedInv, Init
<1> QED BY <1>4, <1>5, <1>6, <1>7, <1>8 DEF IInv

(* A trigger, accepted or refused, changes only the data of the event.     *)
LEMMA TriggerStep ==
  ASSUME TypeOK, NEW e \in Event, NEW p \in Params, Accept(e, p) \/ Refuse(e)
  PROVE  /\ evState' \in [Event -> {"idle", "triggered", "inProgress"}]
         /\ taskParam' \in [Event -> Params]
         /\ loss' \in [Event -> 0..MaxLoss]
         /\ {x \in Event : evState'[x] = "inProgress"} = {x \in Event : evState[x] = "inProgress"}
<1>1. CASE Accept(e, p)
  BY <1>1 DEF Accept, TypeOK
<1>2. CASE Refuse(e)
  BY <1>2, TriggerAssumption DEF Refuse, TypeOK
<1> QED BY <1>1, <1>2

LEMMA IsrStepIInv == IInv /\ IsrStep => IInv'
<1> SUFFICES ASSUME IInv, IsrStep PROVE IInv'
  OBVIOUS
<1>1. /\ StackType(stack) /\ Nested(stack) /\ Len(stack) \in Nat \ {0}
      /\ Top = stack[Len(stack)]
      /\ Top \in FrameType /\ WellFormed(Top)
      /\ Top.kind # "isr" => Unfinished(stack) = {}
  BY TopProperties
<1>2. TypeOK /\ TopInv /\ InProgressInv /\ PostponedInv
  BY DEF IInv
<1>3. ASSUME NEW i \in Irqs, IrqEnter(i)
      PROVE  IInv'
  <2> DEFINE f == IsrFrame(i)
  <2>1. ~(Top.kind = "sched" /\ Top.pc \in {"enter", "scan"})
    BY <1>2, <1>3 DEF IrqEnter, TopInv, InScan
  <2>2. currentPrio = Top.lock
    BY <1>2, <2>1 DEF TopInv
  <2>3. /\ f \in FrameType /\ WellFormed(f) /\ f.kind = "isr" /\ f.pc = "run"
        /\ f.prio = currentPrio /\ f.lock = currentPrio
    BY <1>2, IndexType, TriggerAssumption
       DEF IsrFrame, Frame, FrameType, Kinds, Pcs, WellFormed, TypeOK
  <2> HIDE DEF f
  <2>4. stack' = Append(stack, f)
    BY <1>3 DEF IrqEnter, f
  <2>5. FitsOn(f, stack[Len(stack)])
    BY <1>1, <2>1, <2>2, <2>3 DEF FitsOn
  <2>6. StackType(stack') /\ Nested(stack')
    BY <1>1, <2>3, <2>4, <2>5, PushNested
  <2>7. ServedBy(stack') = ServedBy(stack)
    BY <1>1, <2>3, <2>4, PushServes DEF Serves
  <2>8. /\ Len(stack') = Len(stack) + 1 /\ stack'[Len(stack) + 1] = f
        /\ Top' = f
    BY <1>1, <2>4 DEF StackType, Top
  <2>9. TypeOK'
    BY <1>2, <1>3, <2>6 DEF IrqEnter, TypeOK, StackType
  <2>10. TopInv'
    BY <1>3, <2>2, <2>3, <2>8 DEF TopInv, InScan, IrqEnter
  <2>11. InProgressInv'
    BY <1>2, <1>3, <2>7 DEF InProgressInv, IrqEnter
  <2>12. PostponedInv'
    <3>1. Len(stack) + 1 \in Unfinished(stack')
      BY <1>1, <2>3, <2>8 DEF Unfinished
    <3> QED BY <3>1 DEF PostponedInv
  <2> QED BY <2>6, <2>9, <2>10, <2>11, <2>12 DEF IInv
<1>4. ASSUME NEW e \in Event, NEW p \in Params, IsrTrigger(e, p)
      PROVE  IInv'
  <2>1. /\ Top.kind = "isr" /\ Top.pc = "run"
        /\ UNCHANGED <<stack, ee, currentPrio, currentEvent>>
        /\ Accept(e, p) \/ Refuse(e)
        /\ pNext' = Postpone(e) \/ pNext' = pNext
    BY <1>4 DEF IsrTrigger
  <2>2. pNext' \in 1..Unset
    BY <1>2, <2>1, PrioType, IndexType DEF Postpone, TypeOK
  <2>3. TypeOK'
    BY <1>2, <2>1, <2>2, TriggerStep DEF TypeOK
  <2>4. Nested(stack') /\ TopInv'
    BY <1>1, <1>2, <2>1 DEF TopInv, InScan, Top
  <2>5. InProgressInv'
    BY <1>2, <2>1, TriggerStep DEF InProgressInv
  <2>6. PostponedInv'
    <3>1. Len(stack) \in Unfinished(stack)
      BY <1>1, <2>1 DEF Unfinished
    <3> QED BY <2>1, <3>1 DEF PostponedInv
  <2> QED BY <2>3, <2>4, <2>5, <2>6 DEF IInv
<1>5. ASSUME IsrExit
      PROVE  IInv'
  <2>1. /\ Top.kind = "isr" /\ Top.pc = "run" /\ ~Serves(Top)
        /\ UNCHANGED <<evState, taskParam, loss, currentPrio, currentEvent>>
        /\ currentPrio = Top.lock /\ Top.lock = Top.prio
    BY <1>1, <1>2, <1>5 DEF IsrExit, TopInv, WellFormed, Serves
  <2>2. CASE SchedulerIsDue(Front(stack))
    <3>1. /\ pNext # Unset /\ Unfinished(Front(stack)) = {} /\ pNext' = Unset
          /\ CallScheduler(pNext, "call") /\ ee' = FALSE
      BY <1>5, <2>2 DEF IsrExit, SchedulerIsDue, CallScheduler
    <3>2. pNext \in 1..Guard
      BY <1>2, <3>1, IndexType DEF TypeOK
    <3>3. /\ StackType(stack)' /\ Nested(stack') /\ Top' = SchedFrame(pNext)
          /\ SchedFrame(pNext).kind = "sched" /\ SchedFrame(pNext).pc = "enter"
          /\ SchedFrame(pNext).lock = currentPrio
          /\ ServedBy(stack') = ServedBy(stack)
      BY <2>1, <3>1, <3>2, CallStep
    <3>4. TypeOK'
      BY <1>2, <2>1, <3>1, <3>3, IndexType DEF TypeOK, StackType
    <3>5. TopInv'
      BY <2>1, <3>1, <3>3 DEF TopInv, InScan
    <3>6. InProgressInv' /\ PostponedInv'
      BY <1>2, <2>1, <3>1, <3>3 DEF InProgressInv, PostponedInv
    <3> QED BY <3>3, <3>4, <3>5, <3>6 DEF IInv
  <2>3. CASE ~SchedulerIsDue(Front(stack))
    <3>1. stack' = Front(stack) /\ ee' = TRUE /\ pNext' = pNext
      BY <1>5, <2>3 DEF IsrExit
    <3>2. /\ StackType(stack)' /\ Nested(stack')
          /\ ~(Top'.kind = "sched" /\ Top'.pc \in {"enter", "scan"})
          /\ currentPrio' = Top'.lock
          /\ ServedBy(stack') = ServedBy(stack)
      BY <2>1, <3>1, PopStep
    <3>3. TypeOK'
      BY <1>2, <2>1, <3>1, <3>2 DEF TypeOK, StackType
    <3>4. TopInv' /\ InProgressInv' /\ PostponedInv'
      BY <1>2, <2>1, <2>3, <3>1, <3>2
         DEF TopInv, InScan, InProgressInv, PostponedInv, SchedulerIsDue
    <3> QED BY <3>2, <3>3, <3>4 DEF IInv
  <2> QED BY <2>2, <2>3
<1> QED BY <1>3, <1>4, <1>5 DEF IsrStep

LEMMA SchedStepIInv == IInv /\ SchedStep => IInv'
<1> SUFFICES ASSUME IInv, SchedStep PROVE IInv'
  OBVIOUS
<1>1. /\ StackType(stack) /\ Nested(stack) /\ Len(stack) \in Nat \ {0}
      /\ Top = stack[Len(stack)]
      /\ Top \in FrameType /\ WellFormed(Top)
      /\ Top.kind # "isr" => Unfinished(stack) = {}
  BY TopProperties
<1>2. TypeOK /\ TopInv /\ InProgressInv /\ PostponedInv
  BY DEF IInv
<1>3. ASSUME SchedLaunch
      PROVE  IInv'
  <2> DEFINE e == First(DueFrom(Top.ev, Top.prio))
             g == [Top EXCEPT !.pc = "launch", !.ev = e, !.n = 0,
                              !.arg = taskParam[e], !.lock = Prio(e)]
  <2>1. /\ Top.kind = "sched" /\ Top.pc \in {"enter", "scan"}
        /\ DueFrom(Top.ev, Top.prio) # {}
        /\ evState' = [evState EXCEPT ![e] = "inProgress"]
        /\ currentEvent' = e /\ currentPrio' = Prio(e)
        /\ stack' = WithTop(g) /\ ee' = TRUE
        /\ UNCHANGED <<taskParam, loss, pNext>>
    BY <1>3 DEF SchedLaunch, InScan
  <2>2. Top.ev \in Nat /\ Top.prio \in Nat
    BY <1>1, FrameFields, IndexType
  <2>3. e \in Event /\ Prio(e) > Top.prio /\ evState[e] = "triggered"
    BY <2>1, <2>2, DueFromHit
  <2> HIDE DEF e
  <2>4. e \in 1..Guard /\ Prio(e) \in 0..MaxPriority /\ taskParam[e] \in Params
    BY <1>2, <2>3, PrioType DEF TypeOK
  <2>5. /\ g \in FrameType /\ WellFormed(g) /\ g.kind = "sched" /\ g.prio = Top.prio
        /\ Serves(g) /\ g.ev = e /\ g.lock = Prio(e) /\ g.pc = "launch"
    BY <1>1, <2>1, <2>2, <2>3, <2>4 DEF FrameType, Pcs, WellFormed, Serves
  <2> HIDE DEF g
  <2>6. /\ StackType(stack)' /\ Nested(stack') /\ Len(stack') = Len(stack)
        /\ Top' = g /\ Unfinished(stack') = {}
        /\ \A i \in 1..(Len(stack) - 1) : stack'[i] = stack[i]
    BY <2>1, <2>5, ReplaceStep
  <2>7. ServedBy(stack') = ServedBy(stack) \cup {e}
    <3>1. stack'[Len(stack)] = g
      BY <2>6 DEF Top
    <3> QED BY <1>1, <2>1, <2>3, <2>5, <2>6, <3>1, ReplaceServes DEF Serves
  <2>8. TypeOK'
    BY <1>2, <2>1, <2>3, <2>4, <2>6 DEF TypeOK, StackType
  <2>9. TopInv'
    BY <2>1, <2>5, <2>6 DEF TopInv, InScan
  <2>10. InProgressInv'
    BY <1>2, <2>1, <2>3, <2>7 DEF InProgressInv, TypeOK
  <2>11. PostponedInv'
    BY <1>1, <1>2, <2>1 DEF PostponedInv
  <2> QED BY <2>6, <2>8, <2>9, <2>10, <2>11 DEF IInv
<1>4. ASSUME LaunchTask
      PROVE  IInv'
  <2> DEFINE g == [Top EXCEPT !.n = Top.n + 1]
             f == TaskFrame(Top.ev, Top.n + 1)
             s == WithTop(g)
  <2>1. /\ Top.kind = "sched" /\ Top.pc = "launch"
        /\ stack' = Append(s, f)
        /\ UNCHANGED <<ee, evState, taskParam, loss, currentPrio, currentEvent, pNext>>
    BY <1>4 DEF LaunchTask, InLaunch
  <2>2. Top.ev \in Event /\ currentPrio = Top.lock /\ Top.n \in Nat
    BY <1>1, <1>2, <2>1, FrameFields DEF WellFormed, TopInv
  <2>3. /\ g \in FrameType /\ WellFormed(g) /\ g.kind = "sched" /\ g.prio = Top.prio
        /\ g.lock = Top.lock /\ g.ev = Top.ev /\ g.pc = "launch"
    BY <1>1, <2>1, <2>2 DEF FrameType, WellFormed
  <2>4. /\ f \in FrameType /\ WellFormed(f) /\ f.kind = "task" /\ f.pc = "run"
        /\ f.prio = currentPrio /\ f.lock = currentPrio /\ f.ev = Top.ev
    <3>1. /\ f.kind = "task" /\ f.pc = "run" /\ f.prio = currentPrio
          /\ f.lock = currentPrio /\ f.ev = Top.ev
      BY DEF TaskFrame, Frame
    <3>2. currentPrio \in 0..MaxPriority /\ currentPrio <= currentPrio
      BY <1>2, EventAssumption DEF TypeOK
    <3>3. f \in FrameType
      BY <2>2, <3>2, IndexType, PrioType, TriggerAssumption
         DEF TaskFrame, Frame, FrameType, Kinds, Pcs
    <3>4. WellFormed(f)
      BY <2>2, <3>1, <3>2 DEF WellFormed
    <3> QED BY <3>1, <3>3, <3>4
  <2> HIDE DEF g, f
  <2>5. /\ StackType(s) /\ Nested(s) /\ Len(s) = Len(stack) /\ s[Len(stack)] = g
        /\ \A i \in 1..(Len(stack) - 1) : s[i] = stack[i]
    BY <1>1, <2>1, <2>3, ReplaceNested DEF WithTop
  <2> HIDE DEF s
  <2>6. ServedBy(s) = ServedBy(stack) /\ Unfinished(s) = {}
    <3>1. \A i \in 1..Len(stack) :
            /\ Serves(s[i]) <=> Serves(stack[i])
            /\ Serves(s[i]) => s[i].ev = stack[i].ev
      BY <1>1, <2>1, <2>3, <2>5 DEF Serves
    <3>2. ServedBy(s) = ServedBy(stack)
      BY <1>1, <2>5, <3>1 DEF ServedBy, Serves
    <3>3. Unfinished(s) = {}
      BY <1>1, <2>1, <2>3, <2>5 DEF Unfinished
    <3> QED BY <3>2, <3>3
  <2>7. FitsOn(f, s[Len(s)])
    BY <2>2, <2>3, <2>4, <2>5 DEF FitsOn
  <2>8. StackType(stack') /\ Nested(stack')
    BY <2>1, <2>4, <2>5, <2>6, <2>7, PushNested
  <2>9. ServedBy(stack') = ServedBy(stack)
    BY <2>1, <2>4, <2>5, <2>6, PushServes DEF Serves
  <2>10. Top' = f
    BY <1>1, <2>1, <2>5 DEF StackType, Top
  <2>11. TypeOK'
    BY <1>2, <2>1, <2>8 DEF TypeOK, StackType
  <2>12. TopInv' /\ InProgressInv'
    BY <1>2, <2>1, <2>4, <2>9, <2>10 DEF TopInv, InScan, InProgressInv
  <2>13. PostponedInv'
    BY <1>1, <1>2, <2>1 DEF PostponedInv
  <2> QED BY <2>8, <2>11, <2>12, <2>13 DEF IInv
<1>5. ASSUME EventDone
      PROVE  IInv'
  <2> DEFINE g == [Top EXCEPT !.pc = "scan", !.ev = NextScheduled(Top.ev), !.n = 0,
                              !.arg = InitParam, !.lock = Top.prio]
  <2>1. /\ Top.kind = "sched" /\ Top.pc = "launch"
        /\ evState' = [evState EXCEPT ![Top.ev] = "idle"]
        /\ stack' = WithTop(g) /\ ee' = FALSE
        /\ UNCHANGED <<taskParam, loss, currentPrio, currentEvent, pNext>>
    BY <1>5 DEF EventDone, InLaunch
  <2>2. Top.ev \in Event
    BY <1>1, <2>1 DEF WellFormed
  <2>3. NextScheduled(Top.ev) \in 1..Guard
    BY <2>2, NextScheduledType
  <2>4. /\ g \in FrameType /\ WellFormed(g) /\ g.kind = "sched" /\ g.prio = Top.prio
        /\ ~Serves(g) /\ g.pc = "scan"
    BY <1>1, <2>1, <2>3, FrameFields, TriggerAssumption DEF FrameType, Pcs, WellFormed, Serves
  <2> HIDE DEF g
  <2>5. /\ StackType(stack)' /\ Nested(stack') /\ Len(stack') = Len(stack)
        /\ Top' = g
        /\ \A i \in 1..(Len(stack) - 1) : stack'[i] = stack[i]
    BY <2>1, <2>4, ReplaceStep
  <2>6. ServedBy(stack') = ServedBy(stack) \ {Top.ev}
    <3>1. stack'[Len(stack)] = g
      BY <2>5 DEF Top
    <3>2. \A i \in 1..(Len(stack) - 1) : Serves(stack[i]) => stack[i].ev # Top.ev
      <4> SUFFICES ASSUME NEW i \in 1..(Len(stack) - 1), Serves(stack[i])
                   PROVE  stack[i].ev # Top.ev
        OBVIOUS
      <4>1. i \in 1..Len(stack) /\ Len(stack) \in 1..Len(stack) /\ i < Len(stack)
        BY <1>1
      <4>2. Serves(stack[Len(stack)])
        BY <1>1, <2>1 DEF Serves
      <4>3. Prio(stack[i].ev) < Prio(Top.ev)
        BY <1>1, <4>1, <4>2, ServedOnce
      <4>4. Prio(Top.ev) \in Nat
        BY <2>2, PrioType, EventAssumption
      <4> QED BY <4>3, <4>4
    <3> QED BY <1>1, <2>1, <2>2, <2>4, <2>5, <3>1, <3>2 DEF ServedBy, Serves
  <2>7. TypeOK'
    BY <1>2, <2>1, <2>2, <2>5 DEF TypeOK, StackType
  <2>8. TopInv'
    BY <2>1, <2>4, <2>5 DEF TopInv, InScan
  <2>9. InProgressInv'
    BY <1>2, <2>1, <2>2, <2>6 DEF InProgressInv, TypeOK
  <2>10. PostponedInv'
    BY <1>1, <1>2, <2>1 DEF PostponedInv
  <2> QED BY <2>5, <2>7, <2>8, <2>9, <2>10 DEF IInv
<1>6. ASSUME SchedReturn
      PROVE  IInv'
  <2> DEFINE s == Front(stack)
             c == s[Len(s)]
  <2>1. /\ Top.kind = "sched" /\ Top.pc \in {"enter", "scan"} /\ ~Serves(Top)
        /\ currentEvent' = Top.hint /\ currentPrio' = Top.prio
        /\ stack' = ReturnInto(s) /\ ee' = TRUE
        /\ UNCHANGED <<evState, taskParam, loss, pNext>>
    BY <1>6 DEF SchedReturn, InScan, Serves
  <2>2. /\ StackType(s) /\ Nested(s)
        /\ Len(stack) > 1 /\ Len(s) = Len(stack) - 1
        /\ \A i \in 1..(Len(stack) - 1) : s[i] = stack[i]
    BY <1>1, <2>1, PopNested
  <2>3. ServedBy(s) = ServedBy(stack)
    BY <1>1, <2>1, PopServes
  <2>4. FitsOn(Top, c)
    BY <1>1, <2>2 DEF Nested
  <2> HIDE DEF s
  <2>5. /\ Len(s) \in Nat \ {0} /\ c \in FrameType /\ WellFormed(c)
    BY <2>2, StackLength DEF Nested
  <2>6. /\ Top.prio = c.lock /\ c.pc \in {"call", "endCall"} /\ c.kind \in {"idle", "isr", "task"}
        /\ c.pc = "endCall" => c.kind = "task"
        /\ c.kind = "isr" \/ c.pc = "endCall" => c.lock = c.prio
        /\ ~Serves(c)
    BY <2>1, <2>4, <2>5 DEF FitsOn, WellFormed, FrameType, Kinds, Serves
  <2>7. Top.hint \in 1..Guard /\ Top.prio \in 0..MaxPriority
    BY <1>1, FrameFields
  <2>8. /\ StackType(stack') /\ Nested(stack') /\ ServedBy(stack') = ServedBy(stack)
        /\ ~(Top'.kind = "sched" /\ Top'.pc \in {"enter", "scan"})
        /\ currentPrio' = Top'.lock
    <3>1. CASE c.kind = "isr" \/ c.pc = "endCall"
      <4>1. stack' = Front(s)
        BY <2>1, <3>1 DEF ReturnInto
      <4>2. /\ StackType(stack') /\ Nested(stack')
            /\ Len(s) > 1 /\ Len(stack') = Len(s) - 1
            /\ stack'[Len(s) - 1] = s[Len(s) - 1]
        BY <2>2, <2>6, <3>1, <4>1, PopNested
      <4>3. ServedBy(stack') = ServedBy(s)
        BY <2>2, <2>6, <3>1, <4>1, PopServes
      <4>4. FitsOn(c, s[Len(s) - 1]) /\ Top' = s[Len(s) - 1]
        BY <2>2, <2>5, <4>2 DEF Nested, Top
      <4> QED BY <2>1, <2>3, <2>6, <3>1, <4>2, <4>3, <4>4 DEF FitsOn
    <3>2. CASE ~(c.kind = "isr" \/ c.pc = "endCall")
      <4> DEFINE g == [c EXCEPT !.pc = "run"]
      <4>1. stack' = [s EXCEPT ![Len(s)] = g]
        BY <2>1, <3>2 DEF ReturnInto
      <4>2. /\ g \in FrameType /\ WellFormed(g) /\ g.kind = c.kind /\ g.prio = c.prio
            /\ g.ev = c.ev /\ g.lock = c.lock /\ g.kind # "sched"
        BY <2>5, <2>6, <3>2 DEF FrameType, Pcs, WellFormed
      <4> HIDE DEF g
      <4>3. /\ StackType(stack') /\ Nested(stack') /\ Len(stack') = Len(s)
            /\ stack'[Len(s)] = g
            /\ \A i \in 1..(Len(s) - 1) : stack'[i] = s[i]
        BY <2>2, <4>1, <4>2, ReplaceNested
      <4>4. ServedBy(stack') = ServedBy(s)
        BY <2>2, <2>6, <4>2, <4>3, ReplaceServes DEF Serves
      <4> QED BY <2>1, <2>3, <2>6, <4>2, <4>3, <4>4 DEF Top
    <3> QED BY <3>1, <3>2
  <2>9. TypeOK'
    BY <1>2, <2>1, <2>7, <2>8 DEF TypeOK, StackType
  <2>10. TopInv' /\ InProgressInv'
    BY <1>2, <2>1, <2>8 DEF TopInv, InScan, InProgressInv
  <2>11. PostponedInv'
    BY <1>1, <1>2, <2>1 DEF PostponedInv
  <2> QED BY <2>8, <2>9, <2>10, <2>11 DEF IInv
<1> QED BY <1>3, <1>4, <1>5, <1>6 DEF SchedStep

(* A task lowers its level, or raises it, within its own frame.            *)
LEMMA LevelStep ==
  ASSUME IInv, Top.kind = "task",
         NEW pc \in {"run", "release", "ending"}, NEW hint \in 1..Guard,
         NEW level \in Nat, Top.prio <= level, level <= MaxPriority,
         pc = "ending" => level = Top.prio,
         stack' = WithTop([Top EXCEPT !.pc = pc, !.hint = hint, !.lock = level]),
         currentPrio' = level,
         UNCHANGED <<ee, evState, taskParam, loss, currentEvent, pNext>>
  PROVE  IInv'
<1> DEFINE g == [Top EXCEPT !.pc = pc, !.hint = hint, !.lock = level]
<1>1. /\ Top \in FrameType /\ WellFormed(Top) /\ Unfinished(stack) = {}
  BY TopProperties
<1>2. TypeOK /\ InProgressInv /\ PostponedInv
  BY DEF IInv
<1>3. level \in 0..MaxPriority
  BY EventAssumption
<1>4. /\ g \in FrameType /\ WellFormed(g) /\ g.kind = "task" /\ g.prio = Top.prio
      /\ g.ev = Top.ev /\ g.lock = level
  BY <1>1, <1>3 DEF FrameType, Pcs, WellFormed
<1>5. stack' = WithTop(g)
  OBVIOUS
<1> HIDE DEF g
<1>6. /\ StackType(stack)' /\ Nested(stack') /\ Top' = g
      /\ ServedBy(stack') = ServedBy(stack)
  BY <1>4, <1>5, ReplaceStep DEF Serves
<1>7. TypeOK'
  BY <1>2, <1>3, <1>6 DEF TypeOK, StackType
<1>8. TopInv' /\ InProgressInv' /\ PostponedInv'
  BY <1>1, <1>2, <1>4, <1>6 DEF TopInv, InScan, InProgressInv, PostponedInv
<1> QED BY <1>6, <1>7, <1>8 DEF IInv

(* A task, or the idle task, has the scheduler called.                     *)
LEMMA TaskCallStep ==
  ASSUME IInv, Top.kind \in {"idle", "task"}, TypeOK',
         NEW e \in 1..Guard, NEW pc \in {"call", "endCall"}, CallScheduler(e, pc),
         pc = "endCall" => Top.kind = "task" /\ Top.lock = Top.prio,
         UNCHANGED <<currentPrio, pNext>>,
         {x \in Event : evState'[x] = "inProgress"} = {x \in Event : evState[x] = "inProgress"}
  PROVE  IInv'
<1>1. /\ StackType(stack)' /\ Nested(stack')
      /\ Top' = SchedFrame(e) /\ SchedFrame(e).kind = "sched"
      /\ SchedFrame(e).pc = "enter" /\ SchedFrame(e).lock = currentPrio
      /\ ServedBy(stack') = ServedBy(stack)
  BY CallStep
<1>2. Unfinished(stack) = {} /\ InProgressInv /\ PostponedInv
  BY TopProperties DEF IInv
<1>3. ee' = FALSE
  BY DEF CallScheduler
<1>4. TopInv'
  BY <1>1, <1>3 DEF TopInv, InScan
<1>5. InProgressInv' /\ PostponedInv'
  BY <1>1, <1>2 DEF InProgressInv, PostponedInv
<1> QED BY <1>1, <1>4, <1>5 DEF IInv

(* A task ends.                                                            *)
LEMMA TaskPopStep ==
  ASSUME IInv, Top.kind = "task", currentPrio = Top.prio, stack' = Front(stack),
         UNCHANGED <<ee, evState, taskParam, loss, currentPrio, currentEvent, pNext>>
  PROVE  IInv'
<1>1. /\ StackType(stack)' /\ Nested(stack')
      /\ ~(Top'.kind = "sched" /\ Top'.pc \in {"enter", "scan"})
      /\ currentPrio' = Top'.lock
      /\ ServedBy(stack') = ServedBy(stack)
  BY PopStep DEF Serves
<1>2. Unfinished(stack) = {} /\ TypeOK /\ InProgressInv /\ PostponedInv
  BY TopProperties DEF IInv
<1>3. TypeOK'
  BY <1>1, <1>2 DEF TypeOK, StackType
<1>4. TopInv' /\ InProgressInv' /\ PostponedInv'
  BY <1>1, <1>2 DEF TopInv, InScan, InProgressInv, PostponedInv
<1> QED BY <1>1, <1>3, <1>4 DEF IInv

LEMMA TaskStepIInv == IInv /\ TaskStep => IInv'
<1> SUFFICES ASSUME IInv, TaskStep PROVE IInv'
  OBVIOUS
<1>1. /\ StackType(stack) /\ Nested(stack) /\ Len(stack) \in Nat \ {0}
      /\ Top = stack[Len(stack)]
      /\ Top \in FrameType /\ WellFormed(Top)
      /\ Top.prio \in 0..MaxPriority /\ Top.hint \in 1..Guard
  BY TopProperties, FrameFields
<1>2. TypeOK /\ TopInv /\ InProgressInv /\ PostponedInv
      /\ currentPrio \in 0..MaxPriority
  BY DEF IInv, TypeOK
<1>3. Top.kind \in {"idle", "task"} => currentPrio = Top.lock
  BY <1>2 DEF TopInv
<1>4. Top.kind = "task" => Top.prio <= currentPrio
  BY <1>1, <1>3 DEF WellFormed
<1>5. EventByPriority(currentPrio) \in 1..Guard
  BY <1>2, EventByPriorityType, EventAssumption
<1>6. ASSUME NEW e \in Event, NEW p \in Params, TaskTrigger(e, p)
      PROVE  IInv'
  <2>1. /\ Top.kind \in {"idle", "task"}
        /\ Accept(e, p) \/ Refuse(e)
        /\ CallScheduler(e, "call") \/ UNCHANGED <<stack, ee>>
        /\ UNCHANGED <<currentPrio, currentEvent, pNext>>
    BY <1>6 DEF TaskTrigger, InTaskCode
  <2>2. e \in 1..Guard
    BY PrioType
  <2>3. CASE CallScheduler(e, "call")
    <3>1. StackType(stack)' /\ ee' = FALSE
      BY <2>1, <2>2, <2>3, CallStep DEF CallScheduler
    <3>2. TypeOK'
      BY <1>2, <2>1, <3>1, TriggerStep DEF TypeOK, StackType
    <3> QED BY <1>2, <2>1, <2>2, <2>3, <3>2, TriggerStep, TaskCallStep
  <2>4. CASE UNCHANGED <<stack, ee>>
    <3>1. TypeOK'
      BY <1>2, <2>1, <2>4, TriggerStep DEF TypeOK
    <3>2. Nested(stack') /\ TopInv' /\ PostponedInv'
      BY <1>1, <1>2, <2>1, <2>4 DEF TopInv, InScan, Top, PostponedInv
    <3>3. InProgressInv'
      BY <1>2, <2>1, <2>4, TriggerStep DEF InProgressInv
    <3> QED BY <3>1, <3>2, <3>3 DEF IInv
  <2> QED BY <2>1, <2>3, <2>4
<1>7. ASSUME NEW level \in Ceilings, Suspend(level)
      PROVE  IInv'
  <2>1. /\ Top.kind = "task" /\ Top.pc = "run" /\ level > currentPrio
        /\ currentPrio' = level
        /\ stack' = WithTop([Top EXCEPT !.lock = level])
        /\ UNCHANGED <<ee, evState, taskParam, loss, currentEvent, pNext>>
    BY <1>7 DEF Suspend, InTask
  <2>2. [Top EXCEPT !.lock = level] = [Top EXCEPT !.pc = "run", !.hint = Top.hint, !.lock = level]
    BY <1>1, <2>1 DEF FrameType
  <2>3. level \in Nat /\ level <= MaxPriority
    BY EventAssumption
  <2>4. Top.prio <= level
    BY <1>1, <1>2, <1>4, <2>1, <2>3, EventAssumption
  <2> HIDE DEF WithTop
  <2> QED BY <1>1, <2>1, <2>2, <2>3, <2>4, LevelStep
<1>8. ASSUME NEW level, NEW e \in 1..Guard, NEW pc \in {"run", "release", "ending"},
             Top.kind = "task", level \in Top.prio..currentPrio,
             pc = "ending" => level = Top.prio,
             LowerTo(level, e, pc)
      PROVE  IInv'
  <2>1. level \in Nat /\ Top.prio <= level /\ level <= MaxPriority
    BY <1>1, <1>2, <1>8, EventAssumption
  <2> QED BY <1>8, <2>1, LevelStep DEF LowerTo
<1>9. ASSUME NEW level, OsResume(level)
      PROVE  IInv'
  <2>1. Top.kind = "task" /\ level \in Top.prio..currentPrio
    BY <1>1, <1>2, <1>9, EventAssumption DEF OsResume, InTask
  <2> QED BY <1>5, <1>8, <1>9, <2>1 DEF OsResume
<1>10. ASSUME NEW level, UserResume(level)
       PROVE  IInv'
  <2> DEFINE h == EventByPriority(currentPrio)
             due == DueFrom(h, level)
  <2>1. /\ Top.kind = "task" /\ level \in Top.prio..currentPrio
        /\ IF due = {} THEN LowerTo(level, Guard, "run")
                       ELSE LowerTo(level, First(due), "release")
    BY <1>1, <1>2, <1>10, EventAssumption DEF UserResume, InTask
  <2>2. h \in Nat /\ level \in Nat
    BY <1>1, <1>2, <1>5, <2>1, EventAssumption, IndexType
  <2>3. CASE due = {}
    BY <1>8, <2>1, <2>3, IndexType
  <2>4. CASE due # {}
    <3>1. First(due) \in 1..Guard
      BY <2>2, <2>4, DueFromHit, PrioType
    <3> HIDE DEF due
    <3> QED BY <1>8, <2>1, <2>4, <3>1
  <2> QED BY <2>3, <2>4
<1>11. ASSUME Reschedule
       PROVE  IInv'
  <2> DEFINE pc == IF Top.pc = "ending" THEN "endCall" ELSE "call"
  <2>1. /\ Top.kind = "task" /\ CallScheduler(Top.hint, pc)
        /\ UNCHANGED <<evState, taskParam, loss, currentPrio, currentEvent, pNext>>
        /\ pc = "endCall" => Top.lock = Top.prio
        /\ pc \in {"call", "endCall"}
    BY <1>1, <1>11 DEF Reschedule, WellFormed
  <2> HIDE DEF pc
  <2>2. StackType(stack)' /\ ee' = FALSE
    BY <1>1, <2>1, CallStep DEF CallScheduler
  <2>3. TypeOK'
    BY <1>2, <2>1, <2>2 DEF TypeOK, StackType
  <2> QED BY <1>1, <2>1, <2>3, TaskCallStep
<1>12. ASSUME OsTaskEnd
       PROVE  IInv'
  BY <1>12, TaskPopStep DEF OsTaskEnd, InTask
<1>13. ASSUME UserTaskEnd
       PROVE  IInv'
  <2>1. CASE currentPrio = Top.prio
    BY <1>13, <2>1, TaskPopStep DEF UserTaskEnd, InTask
  <2>2. CASE currentPrio # Top.prio
    <3>1. Top.kind = "task" /\ LowerTo(Top.prio, EventByPriority(currentPrio), "ending")
      BY <1>13, <2>2 DEF UserTaskEnd, InTask
    <3>2. Top.prio \in Top.prio..currentPrio
      BY <1>1, <1>2, <1>4, <3>1, EventAssumption
    <3> QED BY <1>5, <1>8, <3>1, <3>2
  <2> QED BY <2>1, <2>2
<1> QED BY <1>6, <1>7, <1>9, <1>10, <1>11, <1>12, <1>13 DEF TaskStep

LEMMA NextIInv == IInv /\ [Next]_vars => IInv'
<1> SUFFICES ASSUME IInv, [Next]_vars PROVE IInv'
  OBVIOUS
<1>1. CASE Next
  BY <1>1, IsrStepIInv, SchedStepIInv, TaskStepIInv DEF Next
<1>2. CASE UNCHANGED vars
  BY <1>2 DEF vars, IInv, TypeOK, TopInv, Top, InScan, InProgressInv, PostponedInv
<1> QED BY <1>1, <1>2

-----------------------------------------------------------------------------
(* The theorems. *)

(* Contexts nest consistently whatever interrupts, triggers, ceilings and  *)
(* ends of tasks come in whatever order: the invariant all others rest on. *)
THEOREM ContextsNest == Spec => []IInv
<1>1. Init => IInv
  BY InitIInv
<1>2. IInv /\ [Next]_vars => IInv'
  BY NextIInv
<1> QED BY <1>1, <1>2, PTL DEF Spec

(* The variables of the scheduler keep their types: no search leaves the   *)
(* table of events, no priority leaves its range and the counter of lost   *)
(* activations saturates.                                                  *)
THEOREM TypeCorrect == Spec => []TypeOK
<1>1. IInv => TypeOK
  BY DEF IInv
<1> QED BY <1>1, ContextsNest, PTL

(* rtos_osProcessTriggeredEvents needs at most one stack frame per event   *)
(* priority: an event is in progress exactly if an invocation serves it,   *)
(* and nested invocations serve strictly increasing priorities.            *)
THEOREM StackIsBounded == Spec => []OneFramePerPriority
<1>1. IInv => OneFramePerPriority
  <2> SUFFICES ASSUME IInv PROVE OneFramePerPriority
    OBVIOUS
  <2>1. StackType(stack) /\ Nested(stack) /\ InProgressInv
    BY TopProperties DEF IInv
  <2>2. \A i \in 1..Len(stack) : Serves(stack[i]) <=> i \in Serving
    BY DEF Serves, Serving, Scheds
  <2>3. \A e \in Event : evState[e] = "inProgress" <=> \E i \in Serving : stack[i].ev = e
    BY <2>1 DEF InProgressInv, ServedBy, Serving, Scheds
  <2>4. \A i, j \in Serving : i < j => Prio(stack[i].ev) < Prio(stack[j].ev)
    BY <2>1, <2>2, ServedOnce DEF Serving, Scheds
  <2> QED BY <2>3, <2>4 DEF OneFramePerPriority
<1> QED BY <1>1, ContextsNest, PTL

LEMMA NestingExcludes == IInv => CeilingExclusion
<1> SUFFICES ASSUME IInv PROVE CeilingExclusion
  OBVIOUS
<1>1. /\ StackType(stack) /\ Nested(stack) /\ Len(stack) \in Nat \ {0}
      /\ \A i \in 1..Len(stack) : stack[i] \in FrameType
  BY TopProperties, StackLength
<1>2. ASSUME NEW i \in TaskFrames, NEW j \in TaskFrames, i < j
      PROVE  stack[i].lock < Prio(stack[j].ev)
  <2> DEFINE k == j - 1
  <2>1. /\ i \in 1..Len(stack) /\ j \in 1..Len(stack) /\ k \in 1..(Len(stack) - 1)
        /\ k \in 1..Len(stack) /\ k + 1 = j
        /\ stack[i].kind = "task" /\ stack[j].kind = "task"
    BY <1>1, <1>2 DEF TaskFrames
  <2>2. FitsOn(stack[k + 1], stack[k])
    BY <1>1, <2>1 DEF Nested
  <2>3. stack[k].kind = "sched" /\ stack[k].pc = "launch" /\ stack[k].ev = stack[j].ev
    BY <2>1, <2>2 DEF FitsOn
  <2>4. stack[k].lock = Prio(stack[j].ev) /\ stack[k].prio < stack[k].lock
    BY <1>1, <2>1, <2>3 DEF Nested, WellFormed
  <2>5. i # k
    BY <2>1, <2>3
  <2>6. i < k
    BY <1>2, <2>1, <2>5
  <2>7. stack[i].lock <= stack[k].prio
    BY <1>1, <2>1, <2>6 DEF Nested
  <2>8. stack[i].lock \in Nat /\ stack[k].prio \in Nat /\ stack[k].lock \in Nat
    BY <1>1, <2>1, FrameFields
  <2> HIDE DEF k
  <2> QED BY <2>4, <2>7, <2>8
<1>3. InTaskCode => currentPrio = Top.lock
  BY DEF IInv, TopInv, InTaskCode
<1> QED BY <1>2, <1>3 DEF CeilingExclusion

(* The priority ceiling protocol is mutual exclusion: no task starts on top*)
(* of a task that holds a ceiling not below its priority, and a task that  *)
(* has the CPU runs at the level it has established.                       *)
THEOREM CeilingIsExclusive == Spec => []CeilingExclusion
BY NestingExcludes, ContextsNest, PTL

(* Scheduling is postponed to the end of the outermost interrupt and not   *)
(* forgotten there.                                                        *)
THEOREM PostponedToTheEnd == Spec => []SchedulingIsPostponed
<1>1. IInv => SchedulingIsPostponed
  <2> SUFFICES ASSUME IInv PROVE SchedulingIsPostponed
    OBVIOUS
  <2>1. Nested(stack) /\ Len(stack) \in Nat
    BY TopProperties
  <2>2. \A i \in Unfinished(stack) : \A j \in (i + 1)..Len(stack) : stack[j].kind = "isr"
    BY <2>1 DEF Nested, Unfinished
  <2> QED BY <2>2 DEF SchedulingIsPostponed, IInv, PostponedInv
<1> QED BY <1>1, ContextsNest, PTL
=============================================================================
