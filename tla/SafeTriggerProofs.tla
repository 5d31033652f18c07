------------------------- MODULE SafeTriggerProofs -------------------------
(***************************************************************************)
(* Proofs about the triggers that the scheduler of safe-RTOS owes a run:   *)
(* none is forgotten, they are served in order, and the activation gets    *)
(* the parameter that came with the accepted trigger.                      *)
(*                                                                         *)
(* The argument: a triggered event that may run at the current level is    *)
(* always covered (TriggersCovered), and each step of the scheduler hands  *)
(* it over from one kind of cover to the next: the request of an interrupt *)
(* becomes a search, the search becomes the level of the event it has hit, *)
(* this becomes a search again when the event is done, the level of a task *)
(* becomes what the task remembers when it gives back its ceiling.         *)
(***************************************************************************)
EXTENDS SafeSchedulerProofs

-----------------------------------------------------------------------------
(* The order of the table. *)

(* Where a search for level p starts nothing is left out that level p      *)
(* holds back.                                                             *)
LEMMA EventByPriorityOrder ==
  ASSUME NEW p \in Nat
  PROVE  /\ Prio(EventByPriority(p)) <= p
         /\ \A e \in Event : Prio(e) <= p => EventByPriority(p) <= e
<1> DEFINE S == {e \in 1..Guard : Prio(e) <= p}
<1>1. Guard \in S
  BY EventAssumption DEF Guard, Prio
<1>2. S \in SUBSET Nat /\ S # {}
  BY <1>1, EventAssumption DEF Guard
<1>3. First(S) \in S /\ \A y \in S : First(S) <= y
  BY <1>2, FirstProperties
<1>4. \A e \in Event : Prio(e) <= p => e \in S
  BY PrioType
<1> QED BY <1>3, <1>4 DEF EventByPriority

(* The search that follows a served event finds all others of its priority *)
(* or less.                                                                *)
LEMMA NextScheduledOrder ==
  ASSUME NEW d \in Event, NEW e \in Event, e # d, Prio(e) <= Prio(d)
  PROVE  NextScheduled(d) <= e
<1> DEFINE G == {x \in Event : Priority[x] = Priority[d]}
<1>1. /\ d \in Nat /\ e \in Nat /\ G \in SUBSET Nat /\ G # {}
      /\ Priority[d] \in Nat /\ Priority[e] \in Nat /\ Priority[e] <= Priority[d]
  <2>1. \A x \in Event : x \in Nat /\ Priority[x] \in Nat /\ x # Guard
    BY EventAssumption, PrioType DEF Event
  <2>2. Prio(d) = Priority[d] /\ Prio(e) = Priority[e]
    BY <2>1 DEF Prio
  <2> QED BY <2>1, <2>2
<1>2. First(G) \in G /\ \A y \in G : First(G) <= y
  BY <1>1, FirstProperties
<1>3. ASSUME NEW x \in Event, x > e, Priority[x] = Priority[d]
      PROVE  e \in G
  <2>1. Priority[e] >= Priority[x]
    BY <1>3, EventAssumption
  <2> QED BY <1>1, <1>3, <2>1
<1> HIDE DEF G
<1>4. First(G) \in Event /\ Priority[First(G)] = Priority[d] /\ First(G) \in Nat
  BY <1>1, <1>2 DEF G
<1>5. CASE d = First(G)
  <2>1. NextScheduled(d) = d + 1
    BY <1>5 DEF NextScheduled, G
  <2>2. ~(d > e)
    BY <1>1, <1>2, <1>3, <1>5
  <2> QED BY <1>1, <2>1, <2>2
<1>6. CASE d # First(G)
  <2>1. NextScheduled(d) = First(G)
    BY <1>6 DEF NextScheduled, G
  <2>2. ~(First(G) > e)
    BY <1>1, <1>2, <1>3, <1>4
  <2> QED BY <1>1, <1>4, <2>1, <2>2
<1> QED BY <1>5, <1>6

(* What the search from e on hits is the first event it may hit.           *)
LEMMA DueFromOrder ==
  ASSUME NEW e \in Nat, NEW p \in Nat, DueFrom(e, p) # {}
  PROVE  /\ First(DueFrom(e, p)) >= e
         /\ \A x \in Event : x >= e /\ evState[x] = "triggered" /\ Prio(x) > p
                               => First(DueFrom(e, p)) <= x
<1>1. DueFrom(e, p) \in SUBSET Nat
  BY EventAssumption DEF DueFrom, Event
<1>2. /\ First(DueFrom(e, p)) \in DueFrom(e, p)
      /\ \A y \in DueFrom(e, p) : First(DueFrom(e, p)) <= y
  BY <1>1, FirstProperties
<1> QED BY <1>2 DEF DueFrom

LEMMA SortedTable ==
  \A d, e \in Event : d <= e => Prio(e) <= Prio(d)
<1> SUFFICES ASSUME NEW d \in Event, NEW e \in Event, d <= e PROVE Prio(e) <= Prio(d)
  OBVIOUS
<1>1. d \in Nat /\ e \in Nat /\ Priority[d] \in Nat /\ Prio(d) = Priority[d] /\ Prio(e) = Priority[e]
  BY EventAssumption, PrioType DEF Event, Prio
<1>2. CASE d = e
  BY <1>1, <1>2
<1>3. CASE d < e
  BY <1>1, <1>3, EventAssumption
<1> QED BY <1>1, <1>2, <1>3

-----------------------------------------------------------------------------
(* How the stack changes. *)

LEMMA ReplaceShape ==
  ASSUME IInv, NEW g, stack' = WithTop(g)
  PROVE  /\ Len(stack') = Len(stack) /\ stack'[Len(stack)] = g /\ Top' = g
         /\ \A i \in 1..(Len(stack) - 1) : stack'[i] = stack[i]
<1>1. stack \in Seq(FrameType) /\ Len(stack) \in Nat \ {0}
  BY TopProperties DEF StackType
<1> QED BY <1>1 DEF WithTop, Top

LEMMA PushShape ==
  ASSUME IInv, NEW g, NEW f, stack' = Append(WithTop(g), f)
  PROVE  /\ Len(stack') = Len(stack) + 1
         /\ stack'[Len(stack) + 1] = f /\ Top' = f
         /\ stack'[Len(stack)] = g
         /\ \A i \in 1..(Len(stack) - 1) : stack'[i] = stack[i]
<1> DEFINE s == WithTop(g)
<1>1. stack \in Seq(FrameType) /\ Len(stack) \in Nat \ {0}
  BY TopProperties DEF StackType
<1>2. s \in Seq(FrameType \cup {g}) /\ Len(s) = Len(stack) /\ s[Len(stack)] = g
      /\ \A i \in 1..(Len(stack) - 1) : s[i] = stack[i]
  BY <1>1 DEF WithTop
<1> HIDE DEF s
<1>3. stack' = Append(s, f)
  BY DEF s
<1> QED BY <1>1, <1>2, <1>3 DEF Top

LEMMA CallShape ==
  ASSUME IInv, NEW e, NEW pc, CallScheduler(e, pc)
  PROVE  /\ Len(stack') = Len(stack) + 1
         /\ stack'[Len(stack) + 1] = SchedFrame(e) /\ Top' = SchedFrame(e)
         /\ stack'[Len(stack)] = [Top EXCEPT !.pc = pc]
         /\ \A i \in 1..(Len(stack) - 1) : stack'[i] = stack[i]
         /\ SchedFrame(e).kind = "sched" /\ SchedFrame(e).pc = "enter"
         /\ SchedFrame(e).ev = e /\ SchedFrame(e).lock = currentPrio
         /\ SchedFrame(e).prio = currentPrio
<1>1. stack' = Append(WithTop([Top EXCEPT !.pc = pc]), SchedFrame(e))
  BY DEF CallScheduler
<1>2. /\ SchedFrame(e).kind = "sched" /\ SchedFrame(e).pc = "enter"
      /\ SchedFrame(e).ev = e /\ SchedFrame(e).lock = currentPrio
      /\ SchedFrame(e).prio = currentPrio
  BY DEF SchedFrame, Frame
<1> QED BY <1>1, <1>2, PushShape

LEMMA PopShape ==
  ASSUME IInv, Top.kind # "idle", stack' = Front(stack)
  PROVE  /\ Len(stack) > 1 /\ Len(stack') = Len(stack) - 1
         /\ \A i \in 1..(Len(stack) - 1) : stack'[i] = stack[i]
         /\ Top' = stack[Len(stack) - 1]
         /\ Top'.lock = Top.prio
<1>1. /\ StackType(stack) /\ Nested(stack) /\ Len(stack) \in Nat \ {0}
      /\ Top = stack[Len(stack)]
  BY TopProperties
<1>2. /\ Len(stack) > 1 /\ Len(stack') = Len(stack) - 1
      /\ \A i \in 1..(Len(stack) - 1) : stack'[i] = stack[i]
  BY <1>1, PopNested
<1>3. FitsOn(stack[Len(stack)], stack[Len(stack) - 1])
  BY <1>1, <1>2 DEF Nested
<1> QED BY <1>1, <1>2, <1>3 DEF Top, FitsOn

(* The scheduler returns: its frame goes, the one of an interrupt or of an *)
(* ended task, too.                                                        *)
LEMMA ReturnShape ==
  ASSUME IInv, SchedReturn
  PROVE  /\ Len(stack) > 1
         /\ stack[Len(stack) - 1].pc \in {"call", "endCall"}
         /\ Len(stack') \in 1..(Len(stack) - 1)
         /\ \A i \in 1..(Len(stack) - 2) : i \in 1..Len(stack') /\ stack'[i] = stack[i]
         /\ Len(stack') = Len(stack) - 1 =>
              stack'[Len(stack) - 1] = [stack[Len(stack) - 1] EXCEPT !.pc = "run"]
         /\ Len(stack') # Len(stack) - 1 => Len(stack') = Len(stack) - 2
         /\ Top'.lock = Top.prio
<1> DEFINE s == Front(stack)
           c == s[Len(s)]
<1>1. /\ StackType(stack) /\ Nested(stack) /\ Len(stack) \in Nat \ {0}
      /\ Top = stack[Len(stack)] /\ Top.kind = "sched"
      /\ stack' = ReturnInto(s)
  BY TopProperties DEF SchedReturn, InScan
<1>2. /\ StackType(s) /\ Nested(s)
      /\ Len(stack) > 1 /\ Len(s) = Len(stack) - 1
      /\ \A i \in 1..(Len(stack) - 1) : s[i] = stack[i]
  BY <1>1, PopNested
<1>3. FitsOn(stack[Len(stack)], stack[Len(stack) - 1])
  BY <1>1, <1>2 DEF Nested
<1> HIDE DEF s
<1>4. c = stack[Len(stack) - 1] /\ c \in FrameType /\ WellFormed(c)
  BY <1>1, <1>2, StackLength DEF Nested
<1>5. c.pc \in {"call", "endCall"} /\ c.lock = Top.prio
  BY <1>1, <1>3, <1>4 DEF FitsOn
<1>6. CASE c.kind = "isr" \/ c.pc = "endCall"
  <2>1. c.kind # "idle" /\ c.lock = c.prio
    BY <1>4, <1>5, <1>6 DEF WellFormed, FrameType, Kinds
  <2>2. /\ Len(s) > 1 /\ stack' = Front(s) /\ Len(Front(s)) = Len(s) - 1
        /\ \A i \in 1..(Len(s) - 1) : Front(s)[i] = s[i]
    BY <1>1, <1>2, <1>6, <2>1, PopNested DEF ReturnInto
  <2>3. FitsOn(s[Len(s)], s[Len(s) - 1])
    BY <1>1, <1>2, <2>2 DEF Nested
  <2> QED BY <1>1, <1>2, <1>4, <1>5, <2>1, <2>2, <2>3 DEF Top, FitsOn
<1>7. CASE ~(c.kind = "isr" \/ c.pc = "endCall")
  <2>1. stack' = [s EXCEPT ![Len(s)] = [c EXCEPT !.pc = "run"]]
    BY <1>1, <1>7 DEF ReturnInto
  <2>2. s \in Seq(FrameType) /\ Len(s) \in Nat \ {0}
    BY <1>1, <1>2 DEF StackType
  <2>3. /\ Len(stack') = Len(s) /\ stack'[Len(s)] = [c EXCEPT !.pc = "run"]
        /\ \A i \in 1..(Len(s) - 1) : stack'[i] = s[i]
    BY <2>1, <2>2
  <2>4. [c EXCEPT !.pc = "run"].lock = c.lock
    BY <1>4 DEF FrameType
  <2> QED BY <1>1, <1>2, <1>4, <1>5, <2>3, <2>4 DEF Top
<1> QED BY <1>6, <1>7

-----------------------------------------------------------------------------
(* No trigger is forgotten. *)

(* A task that is about to give back a ceiling stays on the stack as it is *)
(* until it gets the CPU again.                                            *)
LEMMA ReleasingKept ==
  ASSUME IInv, IsrStep \/ SchedStep \/ TaskStep
  PROVE  Reschedule \/ \A i \in Releasing : i \in Releasing' /\ stack'[i] = stack[i]
<1> SUFFICES ASSUME ~Reschedule, NEW i \in Releasing
             PROVE  i \in 1..Len(stack') /\ stack'[i] = stack[i]
  BY DEF Releasing, TaskFrames
<1>1. /\ Len(stack) \in Nat \ {0} /\ Top = stack[Len(stack)]
      /\ StackType(stack) /\ Nested(stack) /\ stack \in Seq(FrameType)
      /\ i \in 1..Len(stack) /\ stack[i].kind = "task" /\ stack[i].pc \in {"release", "ending"}
  BY TopProperties DEF Releasing, TaskFrames, StackType
<1>2. CASE UNCHANGED stack
  BY <1>1, <1>2
<1>3. ASSUME NEW f, stack' = Append(stack, f)
      PROVE  i \in 1..Len(stack') /\ stack'[i] = stack[i]
  BY <1>1, <1>3 DEF StackType
<1>4. ASSUME i # Len(stack), NEW g, stack' = WithTop(g)
      PROVE  i \in 1..Len(stack') /\ stack'[i] = stack[i]
  BY <1>1, <1>4, ReplaceShape
<1>5. ASSUME i # Len(stack), NEW g, NEW f, stack' = Append(WithTop(g), f)
      PROVE  i \in 1..Len(stack') /\ stack'[i] = stack[i]
  BY <1>1, <1>5, PushShape
<1>6. ASSUME i # Len(stack), stack' = Front(stack)
      PROVE  i \in 1..Len(stack') /\ stack'[i] = stack[i]
  <2>1. Top.kind # "idle"
    BY <1>1, <1>6 DEF Nested
  <2> QED BY <1>1, <1>6, <2>1, PopShape
<1>7. Top.kind # "task" \/ Top.pc = "run" => i # Len(stack)
  BY <1>1
<1>8. CASE IsrStep
  <2>1. ASSUME NEW j \in Irqs, IrqEnter(j)
        PROVE  i \in 1..Len(stack') /\ stack'[i] = stack[i]
    BY <1>3, <2>1 DEF IrqEnter
  <2>2. ASSUME NEW e \in Event, NEW p \in Params, IsrTrigger(e, p)
        PROVE  i \in 1..Len(stack') /\ stack'[i] = stack[i]
    BY <1>2, <2>2 DEF IsrTrigger
  <2>3. CASE IsrExit
    BY <1>5, <1>6, <1>7, <2>3 DEF IsrExit, CallScheduler
  <2> QED BY <1>8, <2>1, <2>2, <2>3 DEF IsrStep
<1>9. CASE SchedStep
  <2>1. CASE SchedLaunch
    BY <1>4, <1>7, <2>1 DEF SchedLaunch, InScan
  <2>2. CASE LaunchTask
    BY <1>5, <1>7, <2>2 DEF LaunchTask, InLaunch
  <2>3. CASE EventDone
    BY <1>4, <1>7, <2>3 DEF EventDone, InLaunch
  <2>4. CASE SchedReturn
    <3>1. i # Len(stack) /\ i # Len(stack) - 1
      BY <1>1, <1>7, <2>4, ReturnShape DEF SchedReturn, InScan
    <3> QED BY <1>1, <2>4, <3>1, ReturnShape
  <2> QED BY <1>9, <2>1, <2>2, <2>3, <2>4 DEF SchedStep
<1>10. CASE TaskStep
  <2>1. ASSUME NEW e \in Event, NEW p \in Params, TaskTrigger(e, p)
        PROVE  i \in 1..Len(stack') /\ stack'[i] = stack[i]
    BY <1>2, <1>5, <1>7, <2>1 DEF TaskTrigger, InTaskCode, CallScheduler
  <2>2. ASSUME NEW level, Suspend(level)
        PROVE  i \in 1..Len(stack') /\ stack'[i] = stack[i]
    BY <1>4, <1>7, <2>2 DEF Suspend, InTask
  <2>3. ASSUME NEW level, OsResume(level)
        PROVE  i \in 1..Len(stack') /\ stack'[i] = stack[i]
    BY <1>4, <1>7, <2>3 DEF OsResume, InTask, LowerTo
  <2>4. ASSUME NEW level, UserResume(level)
        PROVE  i \in 1..Len(stack') /\ stack'[i] = stack[i]
    <3>1. i # Len(stack)
      BY <1>7, <2>4 DEF UserResume, InTask
    <3>2. PICK pc, e : LowerTo(level, e, pc)
      BY <2>4 DEF UserResume
    <3> QED BY <1>4, <3>1, <3>2 DEF LowerTo
  <2>5. CASE OsTaskEnd
    BY <1>6, <1>7, <2>5 DEF OsTaskEnd, InTask
  <2>6. CASE UserTaskEnd
    BY <1>4, <1>6, <1>7, <2>6 DEF UserTaskEnd, InTask, LowerTo
  <2> QED BY <1>10, <2>1, <2>2, <2>3, <2>4, <2>5, <2>6 DEF TaskStep
<1> QED BY <1>8, <1>9, <1>10

(* Outside of interrupts no scheduling is postponed.                       *)
LEMMA NothingPostponed ==
  ASSUME IInv, Top.kind # "isr", NEW e \in Event
  PROVE  ~(pNext <= e)
<1>1. pNext = Unset
  BY TopProperties DEF IInv, PostponedInv
<1> QED BY <1>1, EventAssumption DEF Unset, Event

LEMMA InitCovered == Init => TriggersCovered
BY DEF Init, TriggersCovered

(* Each kind of cover is kept or followed by another one.                  *)
LEMMA NextCovered ==
  IInv /\ IInv' /\ TriggersCovered /\ [Next]_vars => TriggersCovered'
<1> SUFFICES ASSUME IInv, IInv', TriggersCovered, [Next]_vars,
                    NEW e \in Event, evState'[e] = "triggered"
             PROVE  Covered(e)'
  BY DEF TriggersCovered
<1>1. /\ Len(stack) \in Nat \ {0} /\ Top = stack[Len(stack)]
      /\ Top \in FrameType /\ WellFormed(Top)
      /\ Top.kind # "isr" => Unfinished(stack) = {}
      /\ Top.ev \in Nat /\ Top.hint \in 1..Guard /\ Top.prio \in Nat /\ Top.lock \in Nat
  BY TopProperties, FrameFields, IndexType
<1>2. TypeOK /\ TopInv /\ PostponedInv /\ currentPrio \in Nat /\ pNext \in Nat
  BY IndexType, EventAssumption DEF IInv, TypeOK
<1>3. ~InScan => currentPrio = Top.lock
  BY <1>2 DEF TopInv, InScan
<1>4. e \in Nat /\ Prio(e) \in Nat /\ Unset \in Nat /\ e < Unset
  BY PrioType, IndexType, EventAssumption DEF Event, Guard, Unset
<1>5. evState[e] = "triggered" => Covered(e)
  BY DEF TriggersCovered
<1>6. CASE UNCHANGED vars
  BY <1>5, <1>6 DEF vars, Covered, Releasing, TaskFrames, InScan, Top
(* The search that a task has left behind begins.                          *)
<1>7. CASE Reschedule
  <2>1. /\ Top.kind = "task" /\ ~InScan /\ currentPrio = Top.lock
        /\ \E pc : CallScheduler(Top.hint, pc)
        /\ UNCHANGED <<evState, pNext>>
    BY <1>3, <1>7 DEF Reschedule, InScan
  <2>2. /\ Top'.kind = "sched" /\ Top'.pc = "enter" /\ Top'.ev = Top.hint
        /\ Top'.lock = Top.lock /\ Len(stack') = Len(stack) + 1
        /\ \A i \in 1..(Len(stack) - 1) : stack'[i] = stack[i]
    BY <2>1, CallShape
  <2>3. ASSUME NEW i \in Releasing, stack[i].hint <= e, stack[i].lock < Prio(e)
        PROVE  Covered(e)'
    <3>1. CASE i = Len(stack)
      BY <1>1, <2>2, <2>3, <3>1 DEF Covered, InScan
    <3>2. CASE i # Len(stack)
      <4>1. i \in Releasing' /\ stack'[i] = stack[i]
        BY <1>1, <2>2, <3>2 DEF Releasing, TaskFrames
      <4> QED BY <2>3, <4>1 DEF Covered
    <3> QED BY <3>1, <3>2
  <2> QED BY <1>5, <2>1, <2>2, <2>3 DEF Covered
(* All other releasing tasks keep what they cover.                         *)
<1>8. ASSUME ~Reschedule, Next,
             NEW i \in Releasing, stack[i].hint <= e, stack[i].lock < Prio(e)
      PROVE  Covered(e)'
  <2>1. i \in Releasing' /\ stack'[i] = stack[i]
    BY <1>8, ReleasingKept DEF Next
  <2> QED BY <1>8, <2>1 DEF Covered
(* So does a step to another context of the same level.                    *)
<1>9. ASSUME ~Reschedule, Next, evState[e] = "triggered", ~InScan,
             Top'.lock = Top.lock, pNext' = pNext
      PROVE  Covered(e)'
  BY <1>5, <1>8, <1>9 DEF Covered
<1>10. CASE ~Reschedule /\ IsrStep
  <2>1. ASSUME NEW i \in Irqs, IrqEnter(i)
        PROVE  Covered(e)'
    <3>1. /\ ~InScan /\ UNCHANGED <<evState, currentPrio, pNext>>
          /\ stack' = Append(stack, IsrFrame(i))
      BY <1>2, <2>1 DEF IrqEnter, TopInv
    <3>2. Top'.lock = currentPrio
      <4>1. stack \in Seq(FrameType) /\ IsrFrame(i).lock = currentPrio
        BY <1>2 DEF TypeOK, IsrFrame, Frame
      <4>2. Top' = IsrFrame(i)
        BY <1>1, <3>1, <4>1 DEF Top
      <4> QED BY <4>1, <4>2
    <3> QED BY <1>3, <1>9, <1>10, <3>1, <3>2 DEF Next
  <2>2. ASSUME NEW x \in Event, NEW p \in Params, IsrTrigger(x, p)
        PROVE  Covered(e)'
    <3>1. /\ ~InScan /\ UNCHANGED <<stack, currentPrio>> /\ Top' = Top
          /\ currentPrio = Top.lock
      BY <1>3, <2>2 DEF IsrTrigger, InScan, Top
    <3>2. CASE Refuse(x) /\ UNCHANGED pNext
      BY <1>9, <1>10, <3>1, <3>2 DEF Next, Refuse
    <3>3. CASE Accept(x, p) /\ pNext' = Postpone(x) /\ e # x
      <4>1. evState[e] = "triggered"
        BY <1>2, <3>3 DEF Accept, TypeOK
      <4>2. x \in Nat /\ pNext' <= pNext /\ pNext' \in Nat
        BY <1>2, <3>3, EventAssumption DEF Postpone, Event
      <4>3. pNext <= e => pNext' <= e
        BY <1>2, <1>4, <4>2
      <4> QED BY <1>5, <1>8, <1>10, <3>1, <4>1, <4>3 DEF Covered, Next
    <3>4. CASE Accept(x, p) /\ pNext' = Postpone(x) /\ e = x
      <4>1. Prio(e) <= currentPrio \/ pNext' <= e
        BY <1>2, <1>4, <3>4 DEF Postpone
      <4> QED BY <3>1, <4>1 DEF Covered
    <3> QED BY <2>2, <3>2, <3>3, <3>4 DEF IsrTrigger
  <2>3. CASE IsrExit
    <3>1. /\ ~InScan /\ UNCHANGED <<evState, currentPrio>> /\ evState[e] = "triggered"
          /\ currentPrio = Top.lock /\ Top.kind = "isr" /\ Top.lock = Top.prio
      BY <1>1, <1>3, <2>3 DEF IsrExit, InScan, WellFormed
    <3>2. CASE SchedulerIsDue(Front(stack))
      <4>1. CallScheduler(pNext, "call")
        BY <2>3, <3>2 DEF IsrExit
      <4>2. /\ Top'.kind = "sched" /\ Top'.pc = "enter" /\ Top'.ev = pNext
            /\ Top'.lock = Top.lock
        BY <3>1, <4>1, CallShape
      <4> QED BY <1>5, <1>8, <1>10, <3>1, <4>2 DEF Covered, InScan, Next
    <3>3. CASE ~SchedulerIsDue(Front(stack))
      <4>1. stack' = Front(stack) /\ pNext' = pNext
        BY <2>3, <3>3 DEF IsrExit
      <4>2. Top'.lock = Top.lock
        BY <3>1, <4>1, PopShape
      <4> QED BY <1>9, <1>10, <3>1, <4>1, <4>2 DEF Next
    <3> QED BY <3>2, <3>3
  <2> QED BY <1>10, <2>1, <2>2, <2>3 DEF IsrStep
<1>11. CASE ~Reschedule /\ SchedStep
  <2>1. CASE SchedLaunch
    <3> DEFINE h == First(DueFrom(Top.ev, Top.prio))
               g == [Top EXCEPT !.pc = "launch", !.ev = h, !.n = 0,
                                !.arg = taskParam[h], !.lock = Prio(h)]
    <3>1. /\ Top.kind = "sched" /\ Top.pc \in {"enter", "scan"}
          /\ DueFrom(Top.ev, Top.prio) # {}
          /\ evState' = [evState EXCEPT ![h] = "inProgress"]
          /\ stack' = WithTop(g) /\ pNext' = pNext
      BY <2>1 DEF SchedLaunch, InScan
    <3>2. /\ h \in Event /\ Prio(h) > Top.prio
          /\ h >= Top.ev
          /\ Top.ev <= e /\ evState[e] = "triggered" /\ Prio(e) > Top.prio => h <= e
      BY <1>1, <3>1, DueFromHit, DueFromOrder
    <3>3. e # h /\ evState[e] = "triggered"
      BY <1>2, <3>1, <3>2 DEF TypeOK
    <3>4. g.lock = Prio(h)
      BY <1>1 DEF FrameType
    <3> HIDE DEF h, g
    <3>5. Top'.lock = Prio(h)
      BY <3>1, <3>4, ReplaceShape
    <3>6. Prio(h) \in Nat /\ (h <= e => Prio(e) <= Prio(h))
      BY <3>2, SortedTable, PrioType, EventAssumption
    <3>7. Top.lock = Top.prio
      BY <1>1, <3>1 DEF WellFormed
    <3>8. Top.ev <= e \/ Prio(e) <= Top.lock => Prio(e) <= Top'.lock
      BY <1>1, <1>4, <3>2, <3>3, <3>5, <3>6, <3>7
    <3> QED BY <1>5, <1>8, <1>11, <3>1, <3>3, <3>8 DEF Covered, Next
  <2>2. CASE LaunchTask
    <3>1. /\ ~InScan /\ UNCHANGED <<evState, currentPrio, pNext>>
          /\ \E g, n : stack' = Append(WithTop(g), TaskFrame(Top.ev, n))
      BY <2>2 DEF LaunchTask, InLaunch, InScan
    <3>2. Top'.lock = currentPrio
      BY <3>1, PushShape DEF TaskFrame, Frame
    <3> QED BY <1>3, <1>9, <1>11, <3>1, <3>2 DEF Next
  <2>3. CASE EventDone
    <3> DEFINE g == [Top EXCEPT !.pc = "scan", !.ev = NextScheduled(Top.ev), !.n = 0,
                                !.arg = InitParam, !.lock = Top.prio]
    <3>1. /\ Top.kind = "sched" /\ Top.pc = "launch" /\ ~InScan
          /\ evState' = [evState EXCEPT ![Top.ev] = "idle"]
          /\ stack' = WithTop(g) /\ pNext' = pNext
      BY <2>3 DEF EventDone, InLaunch, InScan
    <3>2. Top.ev \in Event /\ Top.lock = Prio(Top.ev)
      BY <1>1, <3>1 DEF WellFormed
    <3>3. e # Top.ev /\ evState[e] = "triggered"
      BY <1>2, <3>1, <3>2 DEF TypeOK
    <3>4. g.kind = "sched" /\ g.pc = "scan" /\ g.ev = NextScheduled(Top.ev)
      BY <1>1, <3>1 DEF FrameType
    <3> HIDE DEF g
    <3>5. Top' = g
      BY <3>1, ReplaceShape
    <3>6. Prio(e) <= Top.lock => Covered(e)'
      BY <3>2, <3>3, <3>4, <3>5, NextScheduledOrder DEF Covered, InScan
    <3> QED BY <1>5, <1>8, <1>11, <3>1, <3>3, <3>6 DEF Covered, Next
  <2>4. CASE SchedReturn
    <3>1. /\ UNCHANGED <<evState, pNext>> /\ evState[e] = "triggered"
          /\ DueFrom(Top.ev, Top.prio) = {} /\ Top.lock = Top.prio
          /\ Top'.lock = Top.prio
      BY <1>1, <2>4, ReturnShape DEF SchedReturn, InScan, WellFormed
    <3>2. Top.ev <= e => Prio(e) <= Top.prio
      BY <1>1, <1>4, <3>1 DEF DueFrom
    <3> QED BY <1>5, <1>8, <1>11, <3>1, <3>2 DEF Covered, Next
  <2> QED BY <1>11, <2>1, <2>2, <2>3, <2>4 DEF SchedStep
<1>12. CASE ~Reschedule /\ TaskStep
  <2>1. ASSUME NEW x \in Event, NEW p \in Params, TaskTrigger(x, p)
        PROVE  Covered(e)'
    <3>1. /\ ~InScan /\ UNCHANGED <<currentPrio, pNext>> /\ currentPrio = Top.lock
      BY <1>3, <2>1 DEF TaskTrigger, InTaskCode, InScan
    <3>2. ASSUME NEW pc, CallScheduler(x, pc)
          PROVE  /\ Top'.kind = "sched" /\ Top'.pc = "enter" /\ Top'.ev = x
                 /\ Top'.lock = Top.lock
      BY <3>1, <3>2, CallShape
    <3>3. Top'.lock = Top.lock
      BY <2>1, <3>2 DEF TaskTrigger, Top
    <3>4. CASE evState[e] = "triggered"
      BY <1>9, <1>12, <3>1, <3>3, <3>4 DEF Next
    <3>5. CASE evState[e] # "triggered"
      <4>1. Accept(x, p) /\ e = x
        BY <1>2, <2>1, <3>5 DEF TaskTrigger, Accept, Refuse, TypeOK
      <4>2. CASE Prio(x) > currentPrio
        BY <1>4, <2>1, <3>2, <4>1, <4>2 DEF TaskTrigger, Accept, Refuse, Covered, InScan
      <4>3. CASE ~(Prio(x) > currentPrio)
        BY <1>2, <1>4, <3>1, <3>3, <4>1, <4>3 DEF Covered
      <4> QED BY <4>2, <4>3
    <3> QED BY <3>4, <3>5
  <2>2. ASSUME NEW level \in Ceilings, Suspend(level)
        PROVE  Covered(e)'
    <3> DEFINE g == [Top EXCEPT !.lock = level]
    <3>1. /\ ~InScan /\ UNCHANGED <<evState, pNext>> /\ evState[e] = "triggered"
          /\ currentPrio = Top.lock /\ level > currentPrio /\ stack' = WithTop(g)
      BY <1>3, <2>2 DEF Suspend, InTask, InScan
    <3>2. Top'.lock = level
      BY <1>1, <3>1, ReplaceShape DEF FrameType
    <3>3. level \in Nat /\ (Prio(e) <= Top.lock => Prio(e) <= Top'.lock)
      BY <1>1, <1>2, <1>4, <3>1, <3>2, EventAssumption
    <3> QED BY <1>5, <1>8, <1>12, <3>1, <3>3 DEF Covered, Next
(* A ceiling is given back: the task covers what the ceiling has held back.*)
  <2>3. ASSUME NEW level \in Nat, NEW h \in Nat, NEW pc, LowerTo(level, h, pc),
               Top.kind = "task", Top.pc = "run",
               \/ /\ pc \in {"release", "ending"}
                  /\ Prio(e) <= Top.lock /\ level < Prio(e) /\ evState[e] = "triggered" => h <= e
               \/ Prio(e) <= Top.lock /\ evState[e] = "triggered" => Prio(e) <= level
        PROVE  Covered(e)'
    <3> DEFINE g == [Top EXCEPT !.pc = pc, !.hint = h, !.lock = level]
    <3>1. /\ ~InScan /\ UNCHANGED <<evState, pNext>> /\ evState[e] = "triggered"
          /\ stack' = WithTop(g)
      BY <2>3 DEF LowerTo, InScan
    <3>2. /\ g.kind = "task" /\ g.pc = pc /\ g.hint = h /\ g.lock = level
      BY <1>1, <2>3 DEF FrameType
    <3> HIDE DEF g
    <3>3. /\ Len(stack') = Len(stack) /\ Top' = g /\ stack'[Len(stack)] = g
      BY <3>1, ReplaceShape
    <3>4. CASE Prio(e) <= Top.lock
      <4>1. CASE Prio(e) <= level
        BY <3>2, <3>3, <4>1 DEF Covered
      <4>2. CASE ~(Prio(e) <= level)
        <5>1. pc \in {"release", "ending"} /\ h <= e /\ level < Prio(e)
          BY <1>4, <2>3, <3>1, <3>4, <4>2
        <5>2. Len(stack) \in Releasing'
          BY <1>1, <3>2, <3>3, <5>1 DEF Releasing, TaskFrames
        <5> QED BY <3>2, <3>3, <5>1, <5>2 DEF Covered
      <4> QED BY <4>1, <4>2
    <3>5. CASE ~(Prio(e) <= Top.lock)
      BY <1>5, <1>8, <1>12, <3>1, <3>5 DEF Covered, Next
    <3> QED BY <3>4, <3>5
  <2>4. Top.kind = "task" => currentPrio = Top.lock
    BY <1>3 DEF InScan
  <2>5. /\ EventByPriority(currentPrio) \in Nat
        /\ Prio(e) <= currentPrio => EventByPriority(currentPrio) <= e
    BY <1>2, EventByPriorityOrder, EventByPriorityType, IndexType
  <2>6. ASSUME NEW level, OsResume(level)
        PROVE  Covered(e)'
    <3>1. /\ Top.kind = "task" /\ Top.pc = "run" /\ level \in Nat
          /\ LowerTo(level, EventByPriority(currentPrio), "release")
      BY <1>1, <1>2, <2>6 DEF OsResume, InTask
    <3> QED BY <2>3, <2>4, <2>5, <3>1
  <2>7. ASSUME NEW level, UserResume(level)
        PROVE  Covered(e)'
    <3> DEFINE from == EventByPriority(currentPrio)
               hits == DueFrom(from, level)
    <3>1. /\ Top.kind = "task" /\ Top.pc = "run" /\ level \in Nat
          /\ IF hits = {} THEN LowerTo(level, Guard, "run")
                          ELSE LowerTo(level, First(hits), "release")
      BY <1>1, <1>2, <2>7 DEF UserResume, InTask
    <3>2. CASE hits = {}
      <4>1. from <= e /\ evState[e] = "triggered" => Prio(e) <= level
        BY <1>4, <2>5, <3>1, <3>2 DEF DueFrom
      <4> QED BY <2>3, <2>4, <2>5, <3>1, <3>2, <4>1, IndexType
    <3>3. CASE hits # {}
      <4>1. /\ First(hits) \in Event
            /\ from <= e /\ evState[e] = "triggered" /\ level < Prio(e) => First(hits) <= e
        BY <1>4, <2>5, <3>1, <3>3, DueFromHit, DueFromOrder
      <4>2. First(hits) \in Nat
        BY <4>1, PrioType, IndexType
      <4> HIDE DEF hits
      <4> QED BY <2>3, <2>4, <2>5, <3>1, <3>3, <4>1, <4>2
    <3> QED BY <3>2, <3>3
  <2>8. ASSUME Top.kind = "task", currentPrio = Top.prio, stack' = Front(stack),
               UNCHANGED <<evState, pNext>>
        PROVE  Covered(e)'
    <3>1. ~InScan /\ evState[e] = "triggered" /\ Top'.lock = Top.lock
      BY <2>4, <2>8, PopShape DEF InScan
    <3> QED BY <1>9, <1>12, <2>8, <3>1 DEF Next
  <2>9. CASE OsTaskEnd
    BY <2>8, <2>9 DEF OsTaskEnd, InTask
  <2>10. CASE UserTaskEnd
    <3>1. CASE currentPrio = Top.prio
      BY <2>8, <2>10, <3>1 DEF UserTaskEnd, InTask
    <3>2. CASE currentPrio # Top.prio
      <4>1. /\ Top.kind = "task" /\ Top.pc = "run"
            /\ LowerTo(Top.prio, EventByPriority(currentPrio), "ending")
        BY <2>10, <3>2 DEF UserTaskEnd, InTask
      <4> QED BY <1>1, <2>3, <2>4, <2>5, <4>1
    <3> QED BY <3>1, <3>2
  <2> QED BY <1>12, <2>1, <2>2, <2>6, <2>7, <2>9, <2>10 DEF TaskStep
<1> QED BY <1>6, <1>7, <1>10, <1>11, <1>12 DEF Next

LEMMA AlwaysCovered == Spec => [](IInv /\ TriggersCovered)
<1>1. Init => IInv /\ TriggersCovered
  BY InitIInv, InitCovered
<1>2. IInv /\ TriggersCovered /\ [Next]_vars => IInv' /\ TriggersCovered'
  BY NextIInv, NextCovered
<1> QED BY <1>1, <1>2, PTL DEF Spec

(* No trigger is forgotten, by no interrupt, ceiling or end of a task: what*)
(* may run at the current level is either running or being looked for.     *)
THEOREM TriggersAreKept == Spec => []NoForgottenTrigger
<1>1. IInv /\ TriggersCovered => NoForgottenTrigger
  <2> SUFFICES ASSUME IInv, TriggersCovered, InTaskCode \/ InLaunch,
                      NEW e \in Event, evState[e] = "triggered"
               PROVE  \/ Prio(e) <= currentPrio
                      \/ \E i \in Releasing : stack[i].hint <= e /\ stack[i].lock < Prio(e)
    BY DEF NoForgottenTrigger
  <2>1. ~InScan /\ currentPrio = Top.lock
    BY DEF IInv, TopInv, InTaskCode, InLaunch, InScan
  <2>2. Top.kind # "isr"
    BY DEF InTaskCode, InLaunch
  <2>3. ~(pNext <= e)
    BY <2>2, NothingPostponed
  <2> QED BY <2>1, <2>3 DEF TriggersCovered, Covered
<1> QED BY <1>1, AlwaysCovered, PTL

-----------------------------------------------------------------------------
(* Events are served in order. *)

(* Only a search of the scheduler begins to serve an event.                *)
LEMMA TakenBySearch ==
  ASSUME IInv, [Next]_vars,
         NEW e \in Event, evState[e] = "triggered", evState'[e] = "inProgress"
  PROVE  SchedLaunch /\ e = First(DueFrom(Top.ev, Top.prio))
<1>1. evState \in [Event -> {"idle", "triggered", "inProgress"}]
  BY DEF IInv, TypeOK
<1>2. evState' # evState
  OBVIOUS
<1>3. ~UNCHANGED vars
  BY <1>2 DEF vars
<1>4. ASSUME NEW x \in Event, NEW p \in Params, Accept(x, p) \/ Refuse(x)
      PROVE  FALSE
  BY <1>1, <1>4 DEF Accept, Refuse
<1>5. ~IsrStep
  BY <1>2, <1>4 DEF IsrStep, IrqEnter, IsrTrigger, IsrExit
<1>6. ~TaskStep
  <2>1. \A x \in Event, p \in Params : ~TaskTrigger(x, p)
    BY <1>4 DEF TaskTrigger
  <2>2. \A level : ~OsResume(level) /\ ~UserResume(level) /\ ~Suspend(level)
    BY <1>2 DEF OsResume, UserResume, Suspend, LowerTo
  <2>3. ~Reschedule /\ ~OsTaskEnd /\ ~UserTaskEnd
    BY <1>2 DEF Reschedule, OsTaskEnd, UserTaskEnd, LowerTo
  <2> QED BY <2>1, <2>2, <2>3 DEF TaskStep
<1>7. SchedLaunch
  <2>1. ~LaunchTask /\ ~SchedReturn
    BY <1>2 DEF LaunchTask, SchedReturn
  <2>2. ~EventDone
    BY <1>1 DEF EventDone
  <2> QED BY <1>3, <1>5, <1>6, <2>1, <2>2 DEF Next, SchedStep
<1>8. e = First(DueFrom(Top.ev, Top.prio))
  BY <1>1, <1>7 DEF SchedLaunch
<1> QED BY <1>7, <1>8

(* The scheduler takes the events in the order of the table; what it passes*)
(* over, a task that gives back its ceiling is going to look at.           *)
THEOREM ServingIsOrdered == Spec => ServedInOrder
<1>1. ASSUME IInv, TriggersCovered, [Next]_vars,
             NEW e \in Event, evState[e] = "triggered", evState'[e] = "inProgress",
             NEW x \in 1..(e - 1), evState[x] = "triggered"
      PROVE  \E i \in Releasing : stack[i].hint <= x
  <2>1. /\ SchedLaunch /\ e = First(DueFrom(Top.ev, Top.prio))
        /\ Top.kind = "sched" /\ Top.pc \in {"enter", "scan"}
        /\ DueFrom(Top.ev, Top.prio) # {}
    BY <1>1, TakenBySearch DEF SchedLaunch, InScan
  <2>2. x \in Event /\ x < e /\ x \in Nat /\ e \in Nat
    BY <1>1, EventAssumption DEF Event
  <2>3. /\ Top.ev \in Nat /\ Top.prio \in Nat /\ Top.lock = Top.prio
    BY <1>1, <2>1, TopProperties, FrameFields, IndexType DEF WellFormed
  <2>4. /\ Prio(e) > Top.prio /\ Prio(x) >= Prio(e)
        /\ Prio(x) \in Nat /\ Prio(e) \in Nat
    BY <2>1, <2>2, <2>3, DueFromHit, SortedTable, PrioType, EventAssumption
  <2>5. ~(Top.ev <= x)
    BY <1>1, <2>1, <2>2, <2>3, <2>4, DueFromOrder
  <2>6. ~(pNext <= x)
    BY <1>1, <2>1, <2>2, NothingPostponed
  <2>7. Covered(x)
    BY <1>1, <2>2 DEF TriggersCovered
  <2> QED BY <2>3, <2>4, <2>5, <2>6, <2>7 DEF Covered
<1>2. IInv /\ TriggersCovered /\ [Next]_vars =>
        [\A e \in Event : evState[e] = "triggered" /\ evState'[e] = "inProgress" =>
           \A x \in 1..(e - 1) : evState[x] = "triggered" =>
             \E i \in Releasing : stack[i].hint <= x]_vars
  BY <1>1
<1> QED BY <1>2, AlwaysCovered, PTL DEF Spec, ServedInOrder

-----------------------------------------------------------------------------
(* The parameter of an activation. *)

(* The parameter of an event in progress does not change.                  *)
LEMMA ParamOfServedKept ==
  ASSUME IInv, [Next]_vars, NEW e \in Event, evState[e] = "inProgress"
  PROVE  taskParam'[e] = taskParam[e]
<1>1. /\ evState \in [Event -> {"idle", "triggered", "inProgress"}]
      /\ taskParam \in [Event -> Params]
  BY DEF IInv, TypeOK
<1>2. ASSUME NEW x \in Event, NEW p \in Params, Accept(x, p) \/ Refuse(x)
      PROVE  taskParam'[e] = taskParam[e]
  BY <1>1, <1>2 DEF Accept, Refuse
<1>3. CASE UNCHANGED vars
  BY <1>3 DEF vars
<1>4. CASE IsrStep
  BY <1>2, <1>4 DEF IsrStep, IrqEnter, IsrTrigger, IsrExit
<1>5. CASE SchedStep
  BY <1>5 DEF SchedStep, SchedLaunch, LaunchTask, EventDone, SchedReturn
<1>6. CASE TaskStep
  <2>1. ASSUME NEW x \in Event, NEW p \in Params, TaskTrigger(x, p)
        PROVE  taskParam'[e] = taskParam[e]
    BY <1>2, <2>1 DEF TaskTrigger
  <2>2. ASSUME NEW level, OsResume(level) \/ UserResume(level) \/ Suspend(level)
        PROVE  taskParam'[e] = taskParam[e]
    BY <2>2 DEF OsResume, UserResume, Suspend, LowerTo
  <2>3. ASSUME Reschedule \/ OsTaskEnd \/ UserTaskEnd
        PROVE  taskParam'[e] = taskParam[e]
    BY <2>3 DEF Reschedule, OsTaskEnd, UserTaskEnd, LowerTo
  <2> QED BY <1>6, <2>1, <2>2, <2>3 DEF TaskStep
<1> QED BY <1>3, <1>4, <1>5, <1>6 DEF Next

(* A frame that serves an event after a step has served it with the same   *)
(* parameter before, except if the step has just begun to serve it.        *)
LEMMA ServingFrames ==
  ASSUME IInv, [Next]_vars, NEW j \in Serving'
  PROVE  \/ j \in Serving /\ stack'[j].ev = stack[j].ev /\ stack'[j].arg = stack[j].arg
         \/ /\ taskParam' = taskParam
            /\ stack'[j].arg = taskParam[stack'[j].ev]
<1> DEFINE Kept == /\ j \in Serving /\ stack'[j].ev = stack[j].ev
                   /\ stack'[j].arg = stack[j].arg
<1>1. /\ Len(stack) \in Nat \ {0} /\ Top = stack[Len(stack)]
      /\ stack \in Seq(FrameType) /\ Top \in FrameType
  BY TopProperties DEF StackType
<1>2. j \in 1..Len(stack') /\ stack'[j].kind = "sched" /\ stack'[j].pc = "launch"
  BY DEF Serving, Scheds
<1>3. j \in 1..Len(stack) /\ stack'[j] = stack[j] => Kept
  BY <1>2 DEF Serving, Scheds
<1>4. CASE UNCHANGED stack
  BY <1>2, <1>3, <1>4
<1>5. ASSUME NEW f, stack' = Append(stack, f), f.kind # "sched"
      PROVE  Kept
  <2>1. /\ Len(stack') = Len(stack) + 1 /\ stack'[Len(stack) + 1] = f
        /\ \A i \in 1..Len(stack) : stack'[i] = stack[i]
    BY <1>1, <1>5
  <2> QED BY <1>1, <1>2, <1>3, <1>5, <2>1
<1>6. ASSUME NEW g, stack' = WithTop(g),
             \/ g.kind # "sched" \/ g.pc # "launch"
      PROVE  Kept
  BY <1>1, <1>2, <1>3, <1>6, ReplaceShape
<1>7. ASSUME NEW g, NEW f, stack' = Append(WithTop(g), f),
             f.kind # "sched" \/ f.pc # "launch",
             g.kind = Top.kind, g.pc = "launch" => g.pc = Top.pc,
             g.ev = Top.ev, g.arg = Top.arg
      PROVE  Kept
  <2>1. j # Len(stack) + 1 /\ j \in 1..Len(stack)
    BY <1>1, <1>2, <1>7, PushShape
  <2>2. CASE j = Len(stack)
    BY <1>1, <1>2, <1>7, <2>2, PushShape DEF Serving, Scheds
  <2>3. CASE j # Len(stack)
    BY <1>1, <1>3, <1>7, <2>1, <2>3, PushShape
  <2> QED BY <2>2, <2>3
<1>8. ASSUME Top.kind # "idle", stack' = Front(stack)
      PROVE  Kept
  BY <1>1, <1>2, <1>3, <1>8, PopShape
<1>9. ASSUME NEW e, NEW pc \in {"call", "endCall"}, CallScheduler(e, pc)
      PROVE  Kept
  <2>1. /\ stack' = Append(WithTop([Top EXCEPT !.pc = pc]), SchedFrame(e))
        /\ SchedFrame(e).pc = "enter"
    BY <1>9 DEF CallScheduler, SchedFrame, Frame
  <2>2. LET g == [Top EXCEPT !.pc = pc]
        IN  g.kind = Top.kind /\ g.pc # "launch" /\ g.ev = Top.ev /\ g.arg = Top.arg
    BY <1>1, <1>9 DEF FrameType
  <2> QED BY <1>7, <2>1, <2>2
<1>10. ASSUME NEW level, NEW e, NEW pc, LowerTo(level, e, pc), Top.kind = "task"
       PROVE  Kept
  <2>1. [Top EXCEPT !.pc = pc, !.hint = e, !.lock = level].kind = "task"
    BY <1>1, <1>10 DEF FrameType
  <2> QED BY <1>6, <1>10, <2>1 DEF LowerTo
<1>11. CASE IsrStep
  <2>1. ASSUME NEW i \in Irqs, IrqEnter(i)
        PROVE  Kept
    BY <1>5, <2>1 DEF IrqEnter, IsrFrame, Frame
  <2>2. ASSUME NEW e \in Event, NEW p \in Params, IsrTrigger(e, p)
        PROVE  Kept
    BY <1>2, <1>3, <2>2 DEF IsrTrigger
  <2>3. ASSUME IsrExit PROVE Kept
    BY <1>8, <1>9, <2>3 DEF IsrExit
  <2> QED BY <1>11, <2>1, <2>2, <2>3 DEF IsrStep
<1>12. CASE SchedStep
  <2>1. CASE SchedLaunch
    <3> DEFINE h == First(DueFrom(Top.ev, Top.prio))
               g == [Top EXCEPT !.pc = "launch", !.ev = h, !.n = 0,
                                !.arg = taskParam[h], !.lock = Prio(h)]
    <3>1. stack' = WithTop(g) /\ taskParam' = taskParam
      BY <2>1 DEF SchedLaunch
    <3>2. g.arg = taskParam[g.ev]
      BY <1>1 DEF FrameType
    <3> HIDE DEF g
    <3>3. CASE j = Len(stack)
      BY <3>1, <3>2, <3>3, ReplaceShape
    <3>4. CASE j # Len(stack)
      BY <1>1, <1>2, <1>3, <3>1, <3>4, ReplaceShape
    <3> QED BY <3>3, <3>4
  <2>2. CASE LaunchTask
    <3> DEFINE g == [Top EXCEPT !.n = Top.n + 1]
    <3>1. stack' = Append(WithTop(g), TaskFrame(Top.ev, Top.n + 1))
      BY <2>2 DEF LaunchTask
    <3>2. g.kind = Top.kind /\ g.pc = Top.pc /\ g.ev = Top.ev /\ g.arg = Top.arg
      BY <1>1 DEF FrameType
    <3>3. TaskFrame(Top.ev, Top.n + 1).kind = "task"
      BY DEF TaskFrame, Frame
    <3> QED BY <1>7, <3>1, <3>2, <3>3
  <2>3. CASE EventDone
    <3>1. [Top EXCEPT !.pc = "scan", !.ev = NextScheduled(@), !.n = 0,
                      !.arg = InitParam, !.lock = Top.prio].pc = "scan"
      BY <1>1 DEF FrameType
    <3> QED BY <1>6, <2>3, <3>1 DEF EventDone
  <2>4. CASE SchedReturn
    <3>1. stack[Len(stack) - 1].pc \in {"call", "endCall"} /\ stack[Len(stack) - 1] \in FrameType
      BY <1>1, <2>4, ReturnShape
    <3>2. [stack[Len(stack) - 1] EXCEPT !.pc = "run"].pc = "run"
      BY <3>1 DEF FrameType
    <3>3. j <= Len(stack) - 2
      <4>1. CASE Len(stack') = Len(stack) - 1
        <5>1. stack'[Len(stack) - 1].pc = "run"
          BY <2>4, <3>2, <4>1, ReturnShape
        <5>2. j # Len(stack) - 1
          BY <1>2, <5>1
        <5> QED BY <1>1, <1>2, <4>1, <5>2
      <4>2. CASE Len(stack') # Len(stack) - 1
        BY <1>1, <1>2, <2>4, <4>2, ReturnShape
      <4> QED BY <4>1, <4>2
    <3> QED BY <1>1, <1>2, <1>3, <2>4, <3>3, ReturnShape
  <2> QED BY <1>12, <2>1, <2>2, <2>3, <2>4 DEF SchedStep
<1>13. CASE TaskStep
  <2>1. ASSUME NEW e \in Event, NEW p \in Params, TaskTrigger(e, p)
        PROVE  Kept
    BY <1>2, <1>3, <1>9, <2>1 DEF TaskTrigger
  <2>2. ASSUME NEW level, Suspend(level)
        PROVE  Kept
    <3>1. [Top EXCEPT !.lock = level].kind = "task" /\ stack' = WithTop([Top EXCEPT !.lock = level])
      BY <1>1, <2>2 DEF FrameType, Suspend, InTask
    <3> QED BY <1>6, <3>1
  <2>3. ASSUME NEW level, OsResume(level) \/ UserResume(level)
        PROVE  Kept
    <3>1. Top.kind = "task" /\ \E e, pc : LowerTo(level, e, pc)
      BY <2>3 DEF OsResume, UserResume, InTask
    <3> QED BY <1>10, <3>1
  <2>4. ASSUME Reschedule PROVE Kept
    BY <1>9, <2>4 DEF Reschedule
  <2>5. ASSUME OsTaskEnd PROVE Kept
    BY <1>8, <2>5 DEF OsTaskEnd, InTask
  <2>6. ASSUME UserTaskEnd PROVE Kept
    BY <1>8, <1>10, <2>6 DEF UserTaskEnd, InTask
  <2> QED BY <1>13, <2>1, <2>2, <2>3, <2>4, <2>5, <2>6 DEF TaskStep
<1>14. CASE UNCHANGED vars
  BY <1>4, <1>14 DEF vars
<1> QED BY <1>11, <1>12, <1>13, <1>14 DEF Next

(* All tasks of an activation get the parameter of the accepted trigger,   *)
(* whatever else triggers the event meanwhile.                             *)
THEOREM ParameterIsKept == Spec => []ActivationKeepsParam
<1>1. Init => ActivationKeepsParam
  BY DEF Init, ActivationKeepsParam, Serving, Scheds, IdleFrame, Frame
<1>2. IInv /\ ActivationKeepsParam /\ [Next]_vars => ActivationKeepsParam'
  <2> SUFFICES ASSUME IInv, ActivationKeepsParam, [Next]_vars, NEW j \in Serving'
               PROVE  stack'[j].arg = taskParam'[stack'[j].ev]
    BY DEF ActivationKeepsParam
  <2>1. CASE j \in Serving /\ stack'[j].ev = stack[j].ev /\ stack'[j].arg = stack[j].arg
    <3>1. /\ j \in 1..Len(stack) /\ stack[j].kind = "sched" /\ stack[j].pc = "launch"
          /\ WellFormed(stack[j])
      BY <2>1, TopProperties DEF Serving, Scheds, Nested
    <3>2. stack[j].ev \in Event /\ stack[j].ev \in ServedBy(stack)
      BY <3>1 DEF WellFormed, ServedBy
    <3>3. evState[stack[j].ev] = "inProgress"
      BY <3>2 DEF IInv, InProgressInv
    <3>4. taskParam'[stack[j].ev] = taskParam[stack[j].ev]
      BY <3>2, <3>3, ParamOfServedKept
    <3> QED BY <2>1, <3>4 DEF ActivationKeepsParam
  <2>2. CASE taskParam' = taskParam /\ stack'[j].arg = taskParam[stack'[j].ev]
    BY <2>2
  <2> QED BY <2>1, <2>2, ServingFrames
<1> QED BY <1>1, <1>2, ContextsNest, PTL DEF Spec
-----------------------------------------------------------------------------
(* Where the levels of the tasks come from. *)

(* A task runs at the priority of its event or above.                      *)
LEMMA TaskPrio ==
  ASSUME IInv, NEW i \in TaskFrames
  PROVE  /\ stack[i].ev \in Event /\ stack[i].prio = Prio(stack[i].ev)
         /\ stack[i].prio <= stack[i].lock
         /\ stack[i].prio \in Nat /\ stack[i].lock \in Nat
<1>1. /\ Nested(stack) /\ Len(stack) \in Nat \ {0}
      /\ i \in 1..Len(stack) /\ stack[i].kind = "task"
      /\ \A k \in 1..Len(stack) : stack[k] \in FrameType
  BY TopProperties, StackLength DEF TaskFrames
<1>2. WellFormed(stack[i]) /\ stack[i].kind # "idle" /\ i # 1
  BY <1>1 DEF Nested
<1>3. i - 1 \in 1..(Len(stack) - 1) /\ (i - 1) + 1 = i /\ i - 1 \in 1..Len(stack)
  BY <1>1, <1>2
<1>4. FitsOn(stack[i], stack[i - 1]) /\ WellFormed(stack[i - 1])
  BY <1>1, <1>3 DEF Nested
<1>5. /\ stack[i].prio = stack[i - 1].lock /\ stack[i - 1].lock = Prio(stack[i - 1].ev)
      /\ stack[i - 1].ev = stack[i].ev /\ stack[i].ev \in Event
  BY <1>1, <1>4, <1>2 DEF FitsOn, WellFormed
<1>6. stack[i].prio <= stack[i].lock
  BY <1>1, <1>2 DEF WellFormed
<1> QED BY <1>1, <1>5, <1>6, FrameFields

(* The search for a level starts at an event if there is one at a level to *)
(* be given back, and not below it.                                        *)
LEMMA SearchFromEvent ==
  ASSUME NEW p \in Nat, NEW d \in Event, Prio(d) <= p
  PROVE  /\ EventByPriority(p) # Guard
         /\ Prio(EventByPriority(p)) >= Prio(d)
<1>1. EventByPriority(p) \in 1..Guard /\ EventByPriority(p) <= d
  BY EventByPriorityOrder, EventByPriorityType
<1>2. EventByPriority(p) \in Event
  BY <1>1, EventAssumption DEF Event, Guard
<1> QED BY <1>1, <1>2, SortedTable, PrioType

(* A task frame either keeps its level or gets a new one ...               *)
TaskKept(j) ==
  /\ j \in TaskFrames
  /\ stack'[j].prio = stack[j].prio /\ stack'[j].lock = stack[j].lock
  /\ stack'[j].pc \in {"release", "ending"} => stack'[j] = stack[j]

(* ... that of its event or of a ceiling, and what it remembers when it    *)
(* gives back a ceiling is an event between the old level and the new one. *)
TaskMoved(j) ==
  /\ stack'[j].lock \in {stack'[j].prio} \cup Ceilings
  /\ stack'[j].pc \in {"release", "ending"} =>
       /\ Len(stack) \in TaskFrames /\ Top.prio < Top.lock
       /\ Prio(stack'[j].hint) <= Top.lock
       /\ CeilingsOfEvents => /\ stack'[j].hint # Guard
                              /\ Prio(stack'[j].hint) >= stack'[j].lock

(* A ceiling is given back down to level; the search starts at event e.    *)
LEMMA LowerToMoves ==
  ASSUME IInv, Top.kind = "task",
         NEW level \in Ceilings \cup {Top.prio}, NEW e \in 1..Guard,
         NEW pc \in {"run", "release", "ending"},
         Top.prio <= level, level < Top.lock, LowerTo(level, e, pc),
         pc # "run" => /\ Prio(e) <= Top.lock
                       /\ CeilingsOfEvents => e # Guard /\ Prio(e) >= level,
         NEW j \in TaskFrames'
  PROVE  TaskKept(j) \/ TaskMoved(j)
<1> DEFINE g == [Top EXCEPT !.pc = pc, !.hint = e, !.lock = level]
<1>1. /\ Len(stack) \in Nat \ {0} /\ Top = stack[Len(stack)] /\ Top \in FrameType
      /\ j \in 1..Len(stack') /\ stack'[j].kind = "task"
  BY TopProperties DEF TaskFrames
<1>2. stack' = WithTop(g)
  BY DEF LowerTo
<1>3. g.pc = pc /\ g.hint = e /\ g.lock = level /\ g.prio = Top.prio
  BY <1>1 DEF FrameType
<1> HIDE DEF g
<1>4. /\ Len(stack') = Len(stack) /\ stack'[Len(stack)] = g
      /\ \A i \in 1..(Len(stack) - 1) : stack'[i] = stack[i]
  BY <1>2, ReplaceShape
<1>5. CASE j = Len(stack)
  <2>1. Len(stack) \in TaskFrames
    BY <1>1 DEF TaskFrames
  <2>2. Top.prio <= Top.lock /\ Top.prio \in Nat /\ Top.lock \in Nat
    BY <1>1, <2>1, TaskPrio
  <2>3. stack'[j].lock \in {stack'[j].prio} \cup Ceilings
    BY <1>3, <1>4, <1>5
  <2>4. level \in Nat /\ Top.prio < Top.lock
    BY <2>2, EventAssumption
  <2> QED BY <1>3, <1>4, <1>5, <2>1, <2>3, <2>4 DEF TaskMoved
<1>6. CASE j # Len(stack)
  <2>1. j \in 1..(Len(stack) - 1) /\ stack'[j] = stack[j]
    BY <1>1, <1>4, <1>6
  <2> QED BY <1>1, <2>1 DEF TaskKept, TaskFrames
<1> QED BY <1>5, <1>6

LEMMA TaskFrameChanges ==
  ASSUME IInv, [Next]_vars, NEW j \in TaskFrames'
  PROVE  TaskKept(j) \/ TaskMoved(j)
<1>1. /\ Len(stack) \in Nat \ {0} /\ Top = stack[Len(stack)]
      /\ stack \in Seq(FrameType) /\ Top \in FrameType
      /\ Top.prio \in 0..MaxPriority
      /\ currentPrio \in Nat /\ (~InScan => currentPrio = Top.lock)
  BY TopProperties, FrameFields, EventAssumption DEF StackType, IInv, TypeOK, TopInv, InScan
<1>2. j \in 1..Len(stack') /\ stack'[j].kind = "task"
  BY DEF TaskFrames
<1>3. j \in 1..Len(stack) /\ stack'[j] = stack[j] => TaskKept(j)
  BY <1>2 DEF TaskKept, TaskFrames
<1>4. CASE UNCHANGED stack
  BY <1>2, <1>3, <1>4
<1>5. ASSUME NEW f, stack' = Append(stack, f), f.kind # "task"
      PROVE  TaskKept(j)
  <2>1. /\ Len(stack') = Len(stack) + 1 /\ stack'[Len(stack) + 1] = f
        /\ \A i \in 1..Len(stack) : stack'[i] = stack[i]
    BY <1>1, <1>5
  <2> QED BY <1>1, <1>2, <1>3, <1>5, <2>1
<1>6. ASSUME NEW g, stack' = WithTop(g),
             g.kind = "task" => g.pc = "run" /\ g.lock \in {g.prio} \cup Ceilings
      PROVE  TaskKept(j) \/ TaskMoved(j)
  BY <1>1, <1>2, <1>3, <1>6, ReplaceShape DEF TaskMoved
<1>7. ASSUME NEW g, NEW f, stack' = Append(WithTop(g), f),
             f.kind = "task" => f.pc = "run" /\ f.lock = f.prio,
             g.kind = Top.kind, g.pc \in {"launch", "call", "endCall"},
             g.prio = Top.prio, g.lock = Top.lock
      PROVE  TaskKept(j) \/ TaskMoved(j)
  <2>1. CASE j = Len(stack) + 1
    BY <1>2, <1>7, <2>1, PushShape DEF TaskMoved
  <2>2. CASE j = Len(stack)
    BY <1>1, <1>2, <1>7, <2>2, PushShape DEF TaskKept, TaskFrames
  <2>3. CASE j < Len(stack)
    BY <1>1, <1>2, <1>3, <1>7, <2>3, PushShape
  <2> QED BY <1>1, <1>2, <1>7, <2>1, <2>2, <2>3, PushShape
<1>8. ASSUME Top.kind # "idle", stack' = Front(stack)
      PROVE  TaskKept(j)
  BY <1>1, <1>2, <1>3, <1>8, PopShape
<1>9. ASSUME NEW e, NEW pc \in {"call", "endCall"}, CallScheduler(e, pc)
      PROVE  TaskKept(j) \/ TaskMoved(j)
  <2> DEFINE g == [Top EXCEPT !.pc = pc]
  <2>1. stack' = Append(WithTop(g), SchedFrame(e)) /\ SchedFrame(e).kind = "sched"
    BY <1>9 DEF CallScheduler, SchedFrame, Frame
  <2>2. g.kind = Top.kind /\ g.pc = pc /\ g.prio = Top.prio /\ g.lock = Top.lock
    BY <1>1, <1>9 DEF FrameType
  <2> HIDE DEF g
  <2> QED BY <1>7, <1>9, <2>1, <2>2
<1>10. CASE IsrStep
  <2>1. ASSUME NEW i \in Irqs, IrqEnter(i)
        PROVE  TaskKept(j)
    BY <1>5, <2>1 DEF IrqEnter, IsrFrame, Frame
  <2>2. ASSUME NEW e \in Event, NEW p \in Params, IsrTrigger(e, p)
        PROVE  TaskKept(j)
    BY <1>2, <1>3, <2>2 DEF IsrTrigger
  <2>3. ASSUME IsrExit PROVE TaskKept(j) \/ TaskMoved(j)
    BY <1>8, <1>9, <2>3 DEF IsrExit
  <2> QED BY <1>10, <2>1, <2>2, <2>3 DEF IsrStep
<1>11. CASE SchedStep
  <2>1. ASSUME NEW g, stack' = WithTop(g), Top.kind = "sched", g.kind = Top.kind
        PROVE  TaskKept(j) \/ TaskMoved(j)
    BY <1>6, <2>1
  <2>2. CASE SchedLaunch
    <3> DEFINE h == First(DueFrom(Top.ev, Top.prio))
               g == [Top EXCEPT !.pc = "launch", !.ev = h, !.n = 0,
                                !.arg = taskParam[h], !.lock = Prio(h)]
    <3>1. stack' = WithTop(g) /\ g.kind = Top.kind /\ Top.kind = "sched"
      BY <1>1, <2>2 DEF SchedLaunch, InScan, FrameType
    <3> HIDE DEF g
    <3> QED BY <2>1, <3>1
  <2>3. CASE LaunchTask
    <3> DEFINE g == [Top EXCEPT !.n = Top.n + 1]
               f == TaskFrame(Top.ev, Top.n + 1)
    <3>1. stack' = Append(WithTop(g), f)
      BY <2>3 DEF LaunchTask
    <3>2. /\ g.kind = Top.kind /\ g.pc = "launch" /\ g.prio = Top.prio /\ g.lock = Top.lock
      BY <1>1, <2>3 DEF FrameType, LaunchTask, InLaunch
    <3>3. f.pc = "run" /\ f.lock = f.prio
      BY DEF TaskFrame, Frame
    <3> HIDE DEF g, f
    <3> QED BY <1>7, <3>1, <3>2, <3>3
  <2>4. CASE EventDone
    <3> DEFINE g == [Top EXCEPT !.pc = "scan", !.ev = NextScheduled(Top.ev), !.n = 0,
                                !.arg = InitParam, !.lock = Top.prio]
    <3>1. stack' = WithTop(g) /\ g.kind = Top.kind /\ Top.kind = "sched"
      BY <1>1, <2>4 DEF EventDone, InLaunch, FrameType
    <3> HIDE DEF g
    <3> QED BY <2>1, <3>1
  <2>5. CASE SchedReturn
    <3> DEFINE k == Len(stack) - 1
    <3>1. k \in 1..Len(stack) /\ stack[k].pc \in {"call", "endCall"} /\ stack[k] \in FrameType
      BY <1>1, <2>5, ReturnShape
    <3>2. LET g == [stack[k] EXCEPT !.pc = "run"]
          IN  /\ g.kind = stack[k].kind /\ g.pc = "run"
              /\ g.prio = stack[k].prio /\ g.lock = stack[k].lock
      BY <3>1 DEF FrameType
    <3>3. CASE j = k
      <4>1. Len(stack') = Len(stack) - 1
        BY <1>1, <1>2, <2>5, <3>3, ReturnShape
      <4>2. stack'[j] = [stack[k] EXCEPT !.pc = "run"]
        BY <2>5, <3>3, <4>1, ReturnShape
      <4> QED BY <1>2, <3>1, <3>2, <3>3, <4>2 DEF TaskKept, TaskFrames
    <3>4. CASE j # k
      <4>1. j <= Len(stack) - 2
        BY <1>1, <1>2, <2>5, <3>4, ReturnShape
      <4> QED BY <1>1, <1>2, <1>3, <2>5, <4>1, ReturnShape
    <3> QED BY <3>3, <3>4
  <2> QED BY <1>11, <2>2, <2>3, <2>4, <2>5 DEF SchedStep
<1>12. CASE TaskStep
  <2> DEFINE from == EventByPriority(currentPrio)
  <2>1. /\ from \in 1..Guard /\ from \in Nat /\ Prio(from) <= currentPrio
    <3>1. from \in 1..Guard /\ Prio(from) <= currentPrio
      BY <1>1, EventByPriorityType, EventByPriorityOrder
    <3> QED BY <3>1, IndexType
  <2>2. ASSUME Top.kind = "task", NEW level \in Ceilings \cup {Top.prio},
               level <= currentPrio, CeilingsOfEvents
        PROVE  from # Guard /\ Prio(from) >= level
    <3>1. Len(stack) \in TaskFrames
      BY <1>1, <2>2 DEF TaskFrames
    <3>2. PICK d \in Event : Prio(d) = level
      <4>1. CASE level = Top.prio
        BY <1>1, <3>1, <4>1, TaskPrio
      <4>2. CASE level \in Ceilings
        BY <2>2, <4>2, PrioType DEF CeilingsOfEvents, Prio
      <4> QED BY <4>1, <4>2
    <3> QED BY <1>1, <2>2, <3>2, SearchFromEvent
  <2> HIDE DEF from
  <2>3. ASSUME NEW e \in Event, NEW p \in Params, TaskTrigger(e, p)
        PROVE  TaskKept(j) \/ TaskMoved(j)
    BY <1>2, <1>3, <1>9, <2>3 DEF TaskTrigger
  <2>4. ASSUME NEW level \in Ceilings, Suspend(level)
        PROVE  TaskKept(j) \/ TaskMoved(j)
    <3> DEFINE g == [Top EXCEPT !.lock = level]
    <3>1. /\ g.pc = "run" /\ g.lock = level /\ stack' = WithTop(g)
      BY <1>1, <2>4 DEF FrameType, Suspend, InTask
    <3> HIDE DEF g
    <3> QED BY <1>6, <3>1
  <2>5. ASSUME NEW level \in Ceilings \cup {Top.prio}, OsResume(level)
        PROVE  TaskKept(j) \/ TaskMoved(j)
    <3>1. /\ Top.kind = "task" /\ currentPrio = Top.lock
          /\ LowerTo(level, from, "release")
          /\ Top.prio <= level /\ level < Top.lock /\ level <= currentPrio
      BY <1>1, <2>5, EventAssumption DEF OsResume, InTask, InScan, from
    <3> QED BY <2>1, <2>2, <3>1, LowerToMoves
  <2>6. ASSUME NEW level \in Ceilings \cup {Top.prio}, UserResume(level)
        PROVE  TaskKept(j) \/ TaskMoved(j)
    <3> DEFINE hits == DueFrom(from, level)
    <3>1. /\ Top.kind = "task" /\ currentPrio = Top.lock
          /\ IF hits = {} THEN LowerTo(level, Guard, "run")
                          ELSE LowerTo(level, First(hits), "release")
          /\ Top.prio <= level /\ level < Top.lock /\ level \in Nat
      BY <1>1, <2>6, EventAssumption DEF UserResume, InTask, InScan, from
    <3>2. CASE hits = {}
      BY <3>1, <3>2, LowerToMoves, IndexType
    <3>3. CASE hits # {}
      <4>1. /\ First(hits) \in Event /\ Prio(First(hits)) > level
            /\ First(hits) >= from
        BY <2>1, <3>1, <3>3, DueFromHit, DueFromOrder
      <4>2. from \in Event
        BY <2>1, <4>1, EventAssumption DEF Event, Guard
      <4>3. First(hits) \in 1..Guard /\ First(hits) # Guard
        BY <4>1, PrioType
      <4>4. Prio(First(hits)) <= Prio(from)
        BY <2>1, <4>1, <4>2, SortedTable
      <4>5. Prio(First(hits)) \in Nat /\ Prio(from) \in Nat
        BY <4>1, <4>2, PrioType, EventAssumption
      <4>6. Prio(First(hits)) <= Top.lock /\ Prio(First(hits)) >= level
        BY <1>1, <2>1, <3>1, <4>1, <4>4, <4>5
      <4>7. LowerTo(level, First(hits), "release")
        BY <3>1, <3>3
      <4> HIDE DEF hits
      <4> QED BY <3>1, <4>3, <4>6, <4>7, LowerToMoves
    <3> QED BY <3>2, <3>3
  <2>7. ASSUME Reschedule PROVE TaskKept(j) \/ TaskMoved(j)
    BY <1>9, <2>7 DEF Reschedule
  <2>8. ASSUME OsTaskEnd PROVE TaskKept(j)
    BY <1>8, <2>8 DEF OsTaskEnd, InTask
  <2>9. ASSUME UserTaskEnd PROVE TaskKept(j) \/ TaskMoved(j)
    <3>1. CASE currentPrio = Top.prio
      BY <1>8, <2>9, <3>1 DEF UserTaskEnd, InTask
    <3>2. CASE currentPrio # Top.prio
      <4>1. /\ Top.kind = "task" /\ currentPrio = Top.lock
            /\ LowerTo(Top.prio, from, "ending")
        BY <1>1, <2>9, <3>2 DEF UserTaskEnd, InTask, InScan, from
      <4>2. Top.prio <= Top.lock /\ Top.prio \in Nat
        BY <1>1, <4>1, TaskPrio DEF TaskFrames
      <4>3. Top.prio < Top.lock /\ Top.prio <= Top.prio /\ Top.prio <= currentPrio
        BY <1>1, <3>2, <4>1, <4>2
      <4> QED BY <2>1, <2>2, <4>1, <4>3, LowerToMoves
    <3> QED BY <3>1, <3>2
  <2> QED BY <1>12, <2>3, <2>4, <2>5, <2>6, <2>7, <2>8, <2>9 DEF TaskStep
<1>13. CASE UNCHANGED vars
  BY <1>4, <1>13 DEF vars
<1> QED BY <1>10, <1>11, <1>12, <1>13 DEF Next
LEMMA AlwaysFromCeilings == Spec => [](IInv /\ LevelsFromCeilings)
<1>1. Init => LevelsFromCeilings
  BY DEF Init, LevelsFromCeilings, TaskFrames, IdleFrame, Frame
<1>2. IInv /\ LevelsFromCeilings /\ [Next]_vars => LevelsFromCeilings'
  <2> SUFFICES ASSUME IInv, LevelsFromCeilings, [Next]_vars, NEW j \in TaskFrames'
               PROVE  /\ stack'[j].lock \in {stack'[j].prio} \cup Ceilings
                      /\ stack'[j].pc \in {"release", "ending"} =>
                           \E c \in Ceilings : Prio(stack'[j].hint) <= c
    BY DEF LevelsFromCeilings, Releasing
  <2>1. CASE TaskKept(j)
    BY <2>1 DEF TaskKept, LevelsFromCeilings, Releasing
  <2>2. CASE TaskMoved(j)
    <3>1. Len(stack) \in TaskFrames => Top.lock \in {Top.prio} \cup Ceilings
      BY DEF LevelsFromCeilings, Top
    <3>2. Len(stack) \in TaskFrames => Top.lock \in Nat /\ Top.prio \in Nat
      BY TaskPrio DEF Top
    <3> QED BY <2>2, <3>1, <3>2 DEF TaskMoved
  <2> QED BY <2>1, <2>2, TaskFrameChanges
<1> QED BY <1>1, <1>2, ContextsNest, PTL DEF Spec

(* No task runs while an event above its level waits, if above each task a *)
(* ceiling holds back events of one priority only: then what a preempted   *)
(* task is about to give back is of no interest to the one that preempts   *)
(* it. Without the condition the event of a middle priority may be served  *)
(* before the one of a high priority that the ceiling has held back.       *)
THEOREM UrgencyWithNarrowCeilings == NarrowCeilings => (Spec => []UrgentFirst)
<1> SUFFICES ASSUME NarrowCeilings PROVE Spec => []UrgentFirst
  OBVIOUS
<1>1. IInv /\ LevelsFromCeilings /\ NoForgottenTrigger => UrgentFirst
  <2> SUFFICES ASSUME IInv, LevelsFromCeilings, NoForgottenTrigger,
                      Top.kind = "task", Top.pc = "run",
                      NEW e \in Event, evState[e] = "triggered", ~(Prio(e) <= Top.lock)
               PROVE  FALSE
    BY DEF UrgentFirst
  <2>1. /\ Len(stack) \in Nat \ {0} /\ Top = stack[Len(stack)] /\ Len(stack) \in TaskFrames
    BY TopProperties DEF TaskFrames
  <2>2. /\ Top.ev \in Event /\ Top.prio = Prio(Top.ev) /\ Top.prio <= Top.lock
        /\ Top.prio \in Nat /\ Top.lock \in Nat
    BY <2>1, TaskPrio
  <2>3. currentPrio = Top.lock
    BY DEF IInv, TopInv
  <2>4. PICK i \in Releasing : stack[i].hint <= e
    BY <2>3 DEF NoForgottenTrigger, InTaskCode
  <2>5. i \in TaskFrames /\ i \in 1..Len(stack) /\ i < Len(stack)
    BY <2>1, <2>4 DEF Releasing, TaskFrames
  <2>6. stack[i].lock < Prio(Top.ev)
    BY <2>1, <2>5, NestingExcludes DEF CeilingExclusion
  <2>7. /\ stack[i].ev \in Event /\ stack[i].prio = Prio(stack[i].ev)
        /\ stack[i].prio <= stack[i].lock
        /\ stack[i].prio \in Nat /\ stack[i].lock \in Nat
    BY <2>5, TaskPrio
  <2>8. PICK c \in Ceilings : Prio(stack[i].hint) <= c
    BY <2>4, <2>5 DEF LevelsFromCeilings
  <2>9. stack[i].hint \in 1..Guard
    BY <2>1, <2>5, TopProperties, StackLength, FrameFields
  <2>10. stack[i].hint \in Event
    BY <2>4, <2>9, EventAssumption DEF Event, Guard
  <2>11. Prio(e) <= Prio(stack[i].hint)
    BY <2>4, <2>10, SortedTable
  <2>12. Prio(e) \in Nat /\ Prio(stack[i].hint) \in Nat /\ c \in Nat
    BY <2>8, <2>10, PrioType, EventAssumption
  <2>13. /\ Prio(stack[i].ev) < Prio(Top.ev) /\ Prio(Top.ev) < Prio(e) /\ Prio(e) <= c
    BY <2>2, <2>6, <2>7, <2>8, <2>11, <2>12
  <2>14. /\ Prio(stack[i].ev) = Priority[stack[i].ev] /\ Prio(Top.ev) = Priority[Top.ev]
         /\ Prio(e) = Priority[e]
    BY <2>2, <2>7, PrioType DEF Prio
  <2> QED BY <2>2, <2>7, <2>8, <2>13, <2>14 DEF NarrowCeilings
<1> QED BY <1>1, AlwaysFromCeilings, TriggersAreKept, PTL

-----------------------------------------------------------------------------
(* The assertions of the scheduler. *)

LEMMA InitStartsAbove == Init => SearchesStartAbove
BY DEF Init, SearchesStartAbove, EntryAssertion, InScan, Top, Releasing, TaskFrames,
       IdleFrame, Frame

(* The requests of interrupts stay above the level that is interrupted.    *)
LEMMA NextPostponedAbove ==
  ASSUME IInv, SearchesStartAbove, [Next]_vars, pNext' # Unset
  PROVE  pNext' # Guard /\ Prio(pNext') > Top'.lock
<1>1. /\ Top.kind # "isr" => pNext = Unset
      /\ pNext # Unset => pNext # Guard /\ Prio(pNext) > Top.lock
      /\ ~InScan => currentPrio = Top.lock
      /\ InScan => ~ee
      /\ stack \in Seq(FrameType) /\ Len(stack) \in Nat \ {0}
  BY TopProperties DEF IInv, PostponedInv, TopInv, InScan, SearchesStartAbove, StackType
<1>2. CASE UNCHANGED vars
  BY <1>1, <1>2 DEF vars, Top
<1>3. CASE SchedStep \/ TaskStep
  <2>1. pNext' = pNext
    BY <1>3 DEF SchedStep, SchedLaunch, LaunchTask, EventDone, SchedReturn,
                TaskStep, TaskTrigger, Suspend, OsResume, UserResume, LowerTo,
                Reschedule, OsTaskEnd, UserTaskEnd
  <2>2. Top.kind # "isr"
    BY <1>3 DEF SchedStep, SchedLaunch, LaunchTask, EventDone, SchedReturn, InScan, InLaunch,
                TaskStep, TaskTrigger, Suspend, OsResume, UserResume, InTask, InTaskCode,
                Reschedule, OsTaskEnd, UserTaskEnd
  <2> QED BY <1>1, <2>1, <2>2
<1>4. ASSUME NEW i \in Irqs, IrqEnter(i)
      PROVE  pNext' # Guard /\ Prio(pNext') > Top'.lock
  <2>1. stack' = Append(stack, IsrFrame(i)) /\ IsrFrame(i).lock = currentPrio
    BY <1>4 DEF IrqEnter, IsrFrame, Frame
  <2>2. Top'.lock = Top.lock /\ pNext' = pNext
    BY <1>1, <1>4, <2>1 DEF Top, IrqEnter
  <2> QED BY <1>1, <2>2
<1>5. ASSUME NEW e \in Event, NEW p \in Params, IsrTrigger(e, p)
      PROVE  pNext' # Guard /\ Prio(pNext') > Top'.lock
  <2>1. Top' = Top /\ currentPrio = Top.lock
    BY <1>1, <1>5 DEF IsrTrigger, Top, InScan
  <2>2. e # Guard
    BY PrioType
  <2> QED BY <1>1, <1>5, <2>1, <2>2 DEF IsrTrigger, Postpone
<1>6. CASE IsrExit
  <2>1. /\ Top.kind = "isr" /\ stack' = Front(stack) /\ pNext' = pNext
    BY <1>6 DEF IsrExit
  <2>2. Top'.lock = Top.prio /\ Top.prio = Top.lock
    BY <2>1, PopShape, TopProperties DEF WellFormed
  <2> QED BY <1>1, <2>1, <2>2
<1> QED BY <1>2, <1>3, <1>4, <1>5, <1>6 DEF Next, IsrStep

(* Whoever calls the scheduler names an event that is not below its level. *)
LEMMA NextEntersAbove ==
  ASSUME IInv, IInv', SearchesStartAbove, [Next]_vars
  PROVE  EntryAssertion'
<1>1. /\ Top.kind # "isr" => pNext = Unset
      /\ pNext # Unset => pNext # Guard /\ Prio(pNext) > Top.lock
      /\ ~InScan => currentPrio = Top.lock
      /\ stack \in Seq(FrameType) /\ Len(stack) \in Nat \ {0}
      /\ Top \in FrameType /\ Top = stack[Len(stack)]
      /\ currentPrio \in Nat /\ Top.lock \in Nat
  BY TopProperties, FrameFields, EventAssumption
     DEF IInv, TypeOK, PostponedInv, TopInv, InScan, SearchesStartAbove, StackType
<1>2. ~(InScan' /\ Top'.pc = "enter") => EntryAssertion'
  BY DEF EntryAssertion
<1>3. ASSUME NEW e, NEW pc, CallScheduler(e, pc), e # Guard, Prio(e) >= currentPrio
      PROVE  EntryAssertion'
  <2>1. Top'.ev = e /\ Top'.prio = currentPrio
    BY <1>3, CallShape
  <2> QED BY <1>3, <2>1 DEF EntryAssertion, Prio
<1>4. ee' = TRUE => EntryAssertion'
  BY <1>2 DEF IInv, TopInv
<1>5. ASSUME NEW g, stack' = WithTop(g), g.kind # "sched" \/ g.pc # "enter"
      PROVE  EntryAssertion'
  BY <1>2, <1>5, ReplaceShape DEF InScan
<1>6. ASSUME Top.kind # "idle", ~Serves(Top), currentPrio' = Top.prio, stack' = Front(stack)
      PROVE  EntryAssertion'
  BY <1>2, <1>6, PopStep DEF InScan
<1>7. ASSUME UNCHANGED stack PROVE EntryAssertion'
  BY <1>7 DEF SearchesStartAbove, EntryAssertion, InScan, Top
<1>8. ASSUME NEW level, NEW e, NEW pc, LowerTo(level, e, pc), Top.kind = "task"
      PROVE  EntryAssertion'
  <2>1. [Top EXCEPT !.pc = pc, !.hint = e, !.lock = level].kind = "task"
    BY <1>1, <1>8 DEF FrameType
  <2> QED BY <1>5, <1>8, <2>1 DEF LowerTo
<1>9. CASE IsrStep
  <2>1. ASSUME NEW i \in Irqs, IrqEnter(i)
        PROVE  EntryAssertion'
    <3>1. stack' = Append(stack, IsrFrame(i)) /\ IsrFrame(i).kind = "isr"
      BY <2>1 DEF IrqEnter, IsrFrame, Frame
    <3>2. Top'.kind = "isr"
      BY <1>1, <3>1 DEF Top
    <3> QED BY <1>2, <3>2 DEF InScan
  <2>2. ASSUME NEW e \in Event, NEW p \in Params, IsrTrigger(e, p)
        PROVE  EntryAssertion'
    BY <1>7, <2>2 DEF IsrTrigger
  <2>3. CASE IsrExit
    <3>1. Top.kind = "isr" /\ currentPrio = Top.lock /\ Top.lock = Top.prio /\ ~Serves(Top)
          /\ currentPrio' = currentPrio
      BY <1>1, <2>3, TopProperties DEF IsrExit, InScan, WellFormed, Serves
    <3>2. CASE SchedulerIsDue(Front(stack))
      <4>1. CallScheduler(pNext, "call") /\ pNext # Unset
        BY <2>3, <3>2 DEF IsrExit, SchedulerIsDue
      <4>2. pNext # Guard /\ Prio(pNext) > currentPrio
        BY <1>1, <3>1, <4>1
      <4>3. Prio(pNext) \in Nat
        <5>1. pNext \in 1..Guard
          BY <4>1, IndexType DEF IInv, TypeOK
        <5> QED BY <5>1, PrioType, EventAssumption
      <4> QED BY <1>1, <1>3, <4>1, <4>2, <4>3
    <3>3. CASE ~SchedulerIsDue(Front(stack))
      BY <1>6, <2>3, <3>1, <3>3 DEF IsrExit
    <3> QED BY <3>2, <3>3
  <2> QED BY <1>9, <2>1, <2>2, <2>3 DEF IsrStep
<1>10. CASE SchedStep
  <2>1. CASE SchedLaunch \/ SchedReturn
    BY <1>4, <2>1 DEF SchedLaunch, SchedReturn
  <2>2. CASE LaunchTask
    <3>1. \E g : stack' = Append(WithTop(g), TaskFrame(Top.ev, Top.n + 1))
      BY <2>2 DEF LaunchTask
    <3>2. Top'.kind = "task"
      BY <3>1, PushShape DEF TaskFrame, Frame
    <3> QED BY <1>2, <3>2 DEF InScan
  <2>3. CASE EventDone
    <3> DEFINE g == [Top EXCEPT !.pc = "scan", !.ev = NextScheduled(Top.ev), !.n = 0,
                                !.arg = InitParam, !.lock = Top.prio]
    <3>1. stack' = WithTop(g) /\ g.pc = "scan"
      BY <1>1, <2>3 DEF EventDone, FrameType
    <3> HIDE DEF g
    <3> QED BY <1>5, <3>1
  <2> QED BY <1>10, <2>1, <2>2, <2>3 DEF SchedStep
<1>11. CASE TaskStep
  <2>1. ASSUME NEW e \in Event, NEW p \in Params, TaskTrigger(e, p)
        PROVE  EntryAssertion'
    <3>1. e # Guard /\ Prio(e) \in Nat
      BY PrioType, EventAssumption
    <3>2. CASE Accept(e, p) /\ Prio(e) > currentPrio
      <4>1. CallScheduler(e, "call")
        BY <2>1, <3>2 DEF TaskTrigger, Accept, Refuse
      <4> QED BY <1>1, <1>3, <3>1, <3>2, <4>1
    <3>3. CASE ~(Accept(e, p) /\ Prio(e) > currentPrio)
      BY <1>7, <2>1, <3>3 DEF TaskTrigger
    <3> QED BY <3>2, <3>3
  <2>2. ASSUME NEW level, Suspend(level)
        PROVE  EntryAssertion'
    <3>1. [Top EXCEPT !.lock = level].kind = "task" /\ stack' = WithTop([Top EXCEPT !.lock = level])
      BY <1>1, <2>2 DEF FrameType, Suspend, InTask
    <3> QED BY <1>5, <3>1
  <2>3. ASSUME NEW level, OsResume(level) \/ UserResume(level)
        PROVE  EntryAssertion'
    <3>1. Top.kind = "task" /\ \E e, pc : LowerTo(level, e, pc)
      BY <2>3 DEF OsResume, UserResume, InTask
    <3> QED BY <1>8, <3>1
  <2>4. CASE Reschedule
    <3>1. /\ Top.kind = "task" /\ Top.pc \in {"release", "ending"}
          /\ \E pc : CallScheduler(Top.hint, pc)
      BY <2>4 DEF Reschedule
    <3>2. Len(stack) \in Releasing
      BY <1>1, <3>1 DEF Releasing, TaskFrames
    <3>3. Top.hint # Guard /\ Prio(Top.hint) >= Top.lock
      BY <1>1, <3>2 DEF SearchesStartAbove
    <3>4. currentPrio = Top.lock
      BY <1>1, <3>1 DEF InScan
    <3> QED BY <1>3, <3>1, <3>3, <3>4
  <2>5. CASE OsTaskEnd
    BY <1>6, <2>5 DEF OsTaskEnd, InTask, Serves
  <2>6. CASE UserTaskEnd
    BY <1>6, <1>8, <2>6 DEF UserTaskEnd, InTask, Serves
  <2> QED BY <1>11, <2>1, <2>2, <2>3, <2>4, <2>5, <2>6 DEF TaskStep
<1>12. CASE UNCHANGED vars
  BY <1>7, <1>12 DEF vars
<1> QED BY <1>9, <1>10, <1>11, <1>12 DEF Next

LEMMA NextStartsAbove ==
  CeilingsOfEvents /\ IInv /\ IInv' /\ SearchesStartAbove /\ [Next]_vars => SearchesStartAbove'
<1> SUFFICES ASSUME CeilingsOfEvents, IInv, IInv', SearchesStartAbove, [Next]_vars
             PROVE  SearchesStartAbove'
  OBVIOUS
<1>1. ASSUME NEW j \in Releasing'
      PROVE  stack'[j].hint # Guard /\ Prio(stack'[j].hint) >= stack'[j].lock
  <2>1. j \in TaskFrames' /\ stack'[j].pc \in {"release", "ending"}
    BY DEF Releasing
  <2>2. CASE TaskKept(j)
    BY <2>1, <2>2 DEF TaskKept, Releasing, SearchesStartAbove
  <2>3. CASE TaskMoved(j)
    BY <2>1, <2>3 DEF TaskMoved
  <2> QED BY <2>1, <2>2, <2>3, TaskFrameChanges
<1> QED BY <1>1, NextPostponedAbove, NextEntersAbove DEF SearchesStartAbove

(* If each ceiling is the priority of an event then none of the assertions *)
(* of rtos_osProcessTriggeredEvents ever fires: its search starts at an    *)
(* event of the table, inside a critical section, with no request of an    *)
(* interrupt pending, and meets no event that is in progress.              *)
THEOREM AssertionsHold == CeilingsOfEvents => (Spec => []SchedulerAssertions)
<1> SUFFICES ASSUME CeilingsOfEvents PROVE Spec => []SchedulerAssertions
  OBVIOUS
<1>1. Init => SearchesStartAbove
  BY InitStartsAbove
<1>2. IInv /\ IInv' /\ SearchesStartAbove /\ [Next]_vars => SearchesStartAbove'
  BY NextStartsAbove
<1>3. IInv /\ SearchesStartAbove => SchedulerAssertions
  <2> SUFFICES ASSUME IInv, SearchesStartAbove PROVE SchedulerAssertions
    OBVIOUS
  <2>1. /\ Len(stack) \in Nat \ {0} /\ Top = stack[Len(stack)] /\ Nested(stack)
        /\ \A k \in 1..Len(stack) : stack[k] \in FrameType
        /\ WellFormed(Top)
    BY TopProperties, StackLength
  <2>2. InLaunch => currentPrio = Prio(Top.ev)
    BY <2>1 DEF InLaunch, WellFormed, IInv, TopInv
  <2>3. InScan => ~ee /\ pNext = Unset
    BY TopProperties DEF IInv, TopInv, InScan, PostponedInv
  <2>4. ASSUME InScan, NEW e \in Event, evState[e] = "inProgress"
        PROVE  ~(Prio(e) > Top.prio)
    <3>1. e \in ServedBy(stack)
      BY <2>4 DEF IInv, InProgressInv
    <3>2. PICK i \in 1..Len(stack) : stack[i].kind = "sched" /\ stack[i].pc = "launch" /\ stack[i].ev = e
      BY <3>1 DEF ServedBy
    <3>3. i < Len(stack) /\ Len(stack) \in 1..Len(stack)
      BY <2>1, <2>4, <3>2 DEF InScan
    <3>4. stack[i].lock <= Top.prio /\ stack[i].lock = Prio(e)
      BY <2>1, <3>2, <3>3 DEF Nested, WellFormed
    <3>5. Top.prio \in Nat /\ Prio(e) \in Nat
      BY <2>1, <3>3, FrameFields, PrioType, EventAssumption
    <3> QED BY <3>4, <3>5
  <2> QED BY <2>2, <2>3, <2>4 DEF SchedulerAssertions, SearchesStartAbove
<1> QED BY <1>1, <1>2, <1>3, ContextsNest, PTL DEF Spec
=============================================================================
