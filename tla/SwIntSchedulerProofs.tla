------------------------ MODULE SwIntSchedulerProofs ------------------------
(***************************************************************************)
(* Proofs about the scheduler by software interrupts, for any number of    *)
(* tasks, interrupts and levels.                                           *)
(*                                                                         *)
(* The argument: what preempts a context has a level above the one it was  *)
(* started at, and above the ceiling of a critical section it is in. The   *)
(* levels rise strictly along the stack (Nested), so that nothing preempts *)
(* itself, and who could disturb an activation has to wait (FlagsInv).     *)
(***************************************************************************)
EXTENDS SwIntScheduler, SequenceTheorems, FiniteSetTheorems, TLAPS

Section == {"test", "free", "busy", "leave"}

FrameType == [who : Actor, pc : PC, target : {0} \cup Task, level : Nat,
              open : Nat, todo : SUBSET Task]

(* What a frame looks like at each of its points.                          *)
WellFormed(f) ==
  /\ f.todo \subseteq Activates[f.who]
  /\ f.pc = "acked" => f.who \in Task
  /\ f.pc \in {"run", "acked"} => f.level = Level(f.who) /\ f.open = f.level
  /\ f.pc \in Section \cup {"raised"} => /\ f.target \in Activates[f.who]
                                         /\ f.level = Higher(Level(f.who), Ceiling[f.target])
  /\ f.pc \in Section => f.open = f.level
  /\ f.pc = "raised" => f.open \in {f.level, Level(f.who)}

(* g may be on top of f.                                                   *)
Above(g, f) ==
  /\ Level(g.who) > Level(f.who)
  /\ f.pc \in Section => Level(g.who) > f.level

(* The contexts on the stack.                                              *)
Nested(s) ==
  /\ s \in Seq(FrameType)
  /\ s # <<>>
  /\ s[1].who = Idle
  /\ \A i \in 1..Len(s) : WellFormed(s[i])
  /\ \A i, j \in 1..Len(s) : i < j => Above(s[j], s[i])

-----------------------------------------------------------------------------
(* Levels. *)

LEMMA LevelType ==
  ASSUME NEW a \in Actor
  PROVE  Level(a) \in Nat /\ Level(a) <= TickLevel
<1>1. CASE a = Idle
  BY <1>1, SwIntAssumption DEF Level
<1>2. CASE a \in Task
  BY <1>2, SwIntAssumption DEF Level, Registered, Task, Idle
<1>3. CASE a \in Isr
  BY <1>3, SwIntAssumption DEF Level
<1> QED BY <1>1, <1>2, <1>3 DEF Actor

LEMMA HigherProperties ==
  ASSUME NEW x \in Nat, NEW y \in Nat
  PROVE  Higher(x, y) \in Nat /\ Higher(x, y) >= x /\ Higher(x, y) >= y
         /\ (y = 0 => Higher(x, y) = x)
BY DEF Higher

(* A frame is never below the level of its actor, and neither are the      *)
(* requests it lets through.                                               *)
LEMMA WellFormedLevels ==
  ASSUME NEW f \in FrameType, WellFormed(f)
  PROVE  /\ Level(f.who) \in Nat /\ f.level >= Level(f.who) /\ f.open >= Level(f.who)
         /\ f.pc \in Section => f.open = f.level
<1>1. Level(f.who) \in Nat
  BY LevelType DEF FrameType
<1>2. CASE f.pc \in {"run", "acked"}
  BY <1>1, <1>2 DEF WellFormed, FrameType, Section
<1>3. CASE f.pc \in Section \cup {"raised"}
  <2>1. f.target \in Task
    BY <1>3, SwIntAssumption DEF WellFormed, FrameType
  <2>2. Ceiling[f.target] \in Nat
    BY <2>1, SwIntAssumption
  <2>3. f.level >= Level(f.who)
    BY <1>1, <1>3, <2>2, HigherProperties DEF WellFormed
  <2> QED BY <1>1, <1>3, <2>3 DEF WellFormed, FrameType
<1> QED BY <1>2, <1>3 DEF FrameType, PC, Section

(* The frame on top.                                                       *)
LEMMA TopProperties ==
  ASSUME Nested(frames)
  PROVE  /\ Len(frames) \in Nat \ {0}
         /\ Top = frames[Len(frames)] /\ Top \in FrameType /\ WellFormed(Top)
         /\ Below = SubSeq(frames, 1, Len(frames) - 1)
         /\ Below \in Seq(FrameType) /\ Len(Below) = Len(frames) - 1
         /\ \A i \in 1..(Len(frames) - 1) : Below[i] = frames[i]
         /\ \A i \in 1..(Len(frames) - 1) : Above(Top, frames[i])
<1>1. frames \in Seq(FrameType) /\ frames # <<>>
  BY DEF Nested
<1>2. Len(frames) \in Nat \ {0}
  BY <1>1
<1>3. Top = frames[Len(frames)] /\ Below = SubSeq(frames, 1, Len(frames) - 1)
  BY DEF Top, Below, Last, Front
<1>4. Top \in FrameType /\ WellFormed(Top)
  BY <1>1, <1>2, <1>3 DEF Nested
<1>5. /\ Below \in Seq(FrameType) /\ Len(Below) = Len(frames) - 1
      /\ \A i \in 1..(Len(frames) - 1) : Below[i] = frames[i]
  <2> DEFINE n == Len(frames) - 1
  <2>1. n \in Int /\ n >= 0 /\ \A i \in 1..n : frames[i] \in FrameType
    BY <1>1, <1>2
  <2>2. Below = SubSeq(frames, 1, n)
    BY <1>3
  <2> HIDE DEF n
  <2>3. /\ Below \in Seq(FrameType) /\ Len(Below) = IF 1 <= n THEN n - 1 + 1 ELSE 0
        /\ \A i \in 1..(n - 1 + 1) : Below[i] = frames[1 + i - 1]
    BY <2>1, <2>2, SubSeqProperties
  <2>4. Below \in Seq(FrameType) /\ Len(Below) = n /\ \A i \in 1..n : Below[i] = frames[i]
    BY <2>1, <2>3
  <2> QED BY <2>4 DEF n
<1>6. \A i \in 1..(Len(frames) - 1) : Above(Top, frames[i])
  BY <1>2, <1>3 DEF Nested
<1> QED BY <1>2, <1>3, <1>4, <1>5, <1>6

-----------------------------------------------------------------------------
(* A step changes the frame on top, pushes one or pops it. *)

(* The frame on top becomes f.                                             *)
LEMMA ReplaceStep ==
  ASSUME Nested(frames), NEW f \in FrameType, WellFormed(f), f.who = Top.who,
         frames' = Append(Below, f)
  PROVE  /\ Nested(frames')
         /\ Len(frames') = Len(frames) /\ frames'[Len(frames)] = f
         /\ \A i \in 1..(Len(frames) - 1) : frames'[i] = frames[i]
<1> DEFINE n == Len(frames)
<1>1. /\ n \in Nat \ {0} /\ Top = frames[n] /\ Below \in Seq(FrameType) /\ Len(Below) = n - 1
      /\ \A i \in 1..(n - 1) : Below[i] = frames[i]
      /\ \A i \in 1..(n - 1) : Above(Top, frames[i])
  BY TopProperties
<1>2. /\ frames' \in Seq(FrameType) /\ Len(frames') = n /\ frames'[n] = f
      /\ \A i \in 1..(n - 1) : frames'[i] = frames[i]
  BY <1>1
<1>3. frames' # <<>> /\ frames'[1].who = Idle
  BY <1>1, <1>2 DEF Nested
<1>4. ASSUME NEW i \in 1..n PROVE WellFormed(frames'[i])
  BY <1>1, <1>2 DEF Nested
<1>5. ASSUME NEW i \in 1..n, NEW j \in 1..n, i < j PROVE Above(frames'[j], frames'[i])
  <2>1. CASE j = n
    BY <1>1, <1>2, <1>5, <2>1 DEF Above
  <2>2. CASE j # n
    BY <1>1, <1>2, <1>5, <2>2 DEF Nested
  <2> QED BY <2>1, <2>2
<1> HIDE DEF n
<1>6. Nested(frames')
  BY <1>2, <1>3, <1>4, <1>5 DEF Nested
<1> QED BY <1>2, <1>6 DEF n

(* A request above the level that Top lets through is taken.               *)
LEMMA PushStep ==
  ASSUME Nested(frames), NEW a \in Actor, Accepts(Top, Level(a)), Enter(a)
  PROVE  /\ Nested(frames')
         /\ Len(frames') = Len(frames) + 1
         /\ frames'[Len(frames)] = Interrupted(Top)
         /\ frames'[Len(frames) + 1] = NewFrame(a)
         /\ \A i \in 1..(Len(frames) - 1) : frames'[i] = frames[i]
<1> DEFINE n == Len(frames)
           g == Interrupted(Top)
           f == NewFrame(a)
<1>1. /\ n \in Nat \ {0} /\ Top = frames[n] /\ Top \in FrameType /\ WellFormed(Top)
      /\ Below \in Seq(FrameType) /\ Len(Below) = n - 1
      /\ \A i \in 1..(n - 1) : Below[i] = frames[i]
      /\ \A i \in 1..(n - 1) : Above(Top, frames[i])
  BY TopProperties
<1>2. /\ g \in FrameType /\ g.who = Top.who /\ g.pc = Top.pc /\ g.level = Top.level
      /\ g.target = Top.target /\ g.todo = Top.todo /\ g.open = Top.level
  BY <1>1 DEF Interrupted, FrameType
<1>3. WellFormed(g)
  BY <1>1, <1>2 DEF WellFormed
<1>4. Level(a) \in Nat /\ Level(a) > Top.open
  BY LevelType DEF Accepts
<1>5. /\ f \in FrameType /\ WellFormed(f) /\ f.who = a
  <2>1. Activates[a] \subseteq Task
    BY SwIntAssumption
  <2> QED BY <1>4, <2>1 DEF NewFrame, FrameType, WellFormed, PC, Section
<1>6. /\ frames' \in Seq(FrameType) /\ Len(frames') = n + 1
      /\ frames'[n] = g /\ frames'[n + 1] = f
      /\ \A i \in 1..(n - 1) : frames'[i] = frames[i]
  <2> HIDE DEF g, f
  <2>1. frames' = Below \o << g, f >>
    BY DEF Enter, g, f
  <2>2. << g, f >> \in Seq(FrameType) /\ Len(<< g, f >>) = 2
    BY <1>2, <1>5
  <2>3. /\ frames' \in Seq(FrameType) /\ Len(frames') = Len(Below) + 2
        /\ \A i \in 1..(Len(Below) + 2) :
             frames'[i] = IF i <= Len(Below) THEN Below[i] ELSE << g, f >>[i - Len(Below)]
    BY <1>1, <2>1, <2>2, ConcatProperties
  <2>4. Len(frames') = n + 1 /\ \A i \in 1..(n - 1) : frames'[i] = frames[i]
    BY <1>1, <2>3
  <2>5. frames'[n] = g /\ frames'[n + 1] = f
    BY <1>1, <2>3
  <2> QED BY <2>3, <2>4, <2>5
<1> HIDE DEF g, f
<1>7. frames' # <<>> /\ frames'[1].who = Idle
  BY <1>1, <1>2, <1>6 DEF Nested
<1>8. ASSUME NEW i \in 1..(n + 1) PROVE WellFormed(frames'[i])
  BY <1>1, <1>3, <1>5, <1>6 DEF Nested
<1>9. Above(f, g) /\ \A i \in 1..(n - 1) : Above(f, frames[i])
  <2>1. /\ Level(Top.who) \in Nat /\ Top.level >= Level(Top.who) /\ Top.open >= Level(Top.who)
        /\ Top.pc \in Section => Top.open = Top.level
    BY <1>1, WellFormedLevels
  <2>2. Top.open \in Nat /\ Top.level \in Nat
    BY <1>1 DEF FrameType
  <2>3. Above(f, g)
    BY <1>2, <1>4, <1>5, <2>1, <2>2 DEF Above
  <2>4. ASSUME NEW i \in 1..(n - 1) PROVE Above(f, frames[i])
    <3>1. frames[i] \in FrameType
      BY <1>1 DEF Nested
    <3>2. Level(frames[i].who) \in Nat /\ frames[i].level \in Nat
      BY <3>1, LevelType DEF FrameType
    <3>3. Above(Top, frames[i])
      BY <1>1
    <3> QED BY <1>4, <1>5, <2>1, <2>2, <3>2, <3>3 DEF Above
  <2> QED BY <2>3, <2>4
<1>10. ASSUME NEW i \in 1..(n + 1), NEW j \in 1..(n + 1), i < j
       PROVE  Above(frames'[j], frames'[i])
  <2>1. CASE j = n + 1 /\ i = n
    BY <1>6, <1>9, <2>1
  <2>2. CASE j = n + 1 /\ i # n
    BY <1>1, <1>6, <1>9, <1>10, <2>2
  <2>3. CASE j = n
    <3>1. frames'[i] = frames[i] /\ Above(Top, frames[i])
      BY <1>1, <1>6, <1>10, <2>3
    <3>2. Above(g, frames[i])
      BY <1>2, <3>1 DEF Above
    <3> QED BY <1>6, <2>3, <3>1, <3>2
  <2>4. CASE j < n
    BY <1>1, <1>6, <1>10, <2>4 DEF Nested
  <2> QED BY <1>1, <2>1, <2>2, <2>3, <2>4
<1> HIDE DEF n
<1>11. Nested(frames')
  BY <1>6, <1>7, <1>8, <1>10 DEF Nested
<1> QED BY <1>6, <1>11 DEF n, g, f

LEMMA PopStep ==
  ASSUME Nested(frames), Top.who # Idle, frames' = Below
  PROVE  /\ Nested(frames')
         /\ Len(frames') = Len(frames) - 1
         /\ \A i \in 1..(Len(frames) - 1) : frames'[i] = frames[i]
<1> DEFINE n == Len(frames)
<1>1. /\ n \in Nat \ {0} /\ Top = frames[n]
      /\ Below \in Seq(FrameType) /\ Len(Below) = n - 1
      /\ \A i \in 1..(n - 1) : Below[i] = frames[i]
  BY TopProperties
<1>2. n # 1
  BY <1>1 DEF Nested
<1>3. frames' # <<>> /\ frames'[1].who = Idle
  BY <1>1, <1>2 DEF Nested
<1>4. /\ \A i \in 1..(n - 1) : WellFormed(frames'[i])
      /\ \A i, j \in 1..(n - 1) : i < j => Above(frames'[j], frames'[i])
  BY <1>1 DEF Nested
<1> HIDE DEF n
<1>5. Nested(frames')
  BY <1>1, <1>3, <1>4 DEF Nested
<1> QED BY <1>1, <1>5 DEF n

-----------------------------------------------------------------------------
(* The invariant of the stack. *)

StackInv == Nested(frames)

LEMMA IdleIsActor == Idle \in Actor
BY DEF Actor

LEMMA NewFrameWellFormed ==
  ASSUME NEW a \in Actor
  PROVE  NewFrame(a) \in FrameType /\ WellFormed(NewFrame(a)) /\ NewFrame(a).who = a
<1>1. Activates[a] \subseteq Task
  BY SwIntAssumption
<1>2. Level(a) \in Nat
  BY LevelType
<1> QED BY <1>1, <1>2 DEF NewFrame, FrameType, WellFormed, PC, Section

LEMMA InitNested == Init => StackInv
<1> SUFFICES ASSUME Init PROVE Nested(frames)
  BY DEF StackInv
<1> DEFINE f == NewFrame(Idle)
<1>1. f \in FrameType /\ WellFormed(f) /\ f.who = Idle
  BY IdleIsActor, NewFrameWellFormed
<1>2. frames = << f >>
  BY DEF Init
<1> HIDE DEF f
<1>3. frames \in Seq(FrameType) /\ frames # <<>> /\ Len(frames) = 1 /\ frames[1] = f
  BY <1>1, <1>2
<1> QED BY <1>1, <1>3 DEF Nested

(* Only tasks and interrupts return, and the levels they come with are     *)
(* those of their requests.                                                *)
LEMMA ReturnEndsNoIdle ==
  ASSUME Nested(frames), Return
  PROVE  Top.who # Idle /\ frames' = Below
<1>1. WellFormed(Top)
  BY TopProperties
<1>2. Idle \notin Task /\ Idle \notin Isr
  BY SwIntAssumption DEF Idle, Task
<1> QED BY <1>1, <1>2 DEF Return, WellFormed

LEMMA TaskLevel ==
  ASSUME NEW t \in Task
  PROVE  t \in Actor /\ Level(t) = Prio[t]
BY SwIntAssumption DEF Actor, Level, Idle, Task

LEMMA IsrLevel ==
  ASSUME NEW i \in Isr
  PROVE  i \in Actor /\ Level(i) = IsrPrio[i]
BY SwIntAssumption DEF Actor, Level

(* The steps of what is on top, each with the frame it leaves.             *)
LEMMA StepNested == StackInv /\ [Next]_vars => StackInv'
<1> SUFFICES ASSUME Nested(frames), [Next]_vars PROVE Nested(frames')
  BY DEF StackInv
<1>1. Top \in FrameType /\ WellFormed(Top)
  BY TopProperties
<1>2. Level(Top.who) \in Nat /\ Top.who \in Actor
  BY <1>1, LevelType DEF FrameType
<1>3. CASE Tick
  <2> DEFINE f == Interrupted(Top)
  <2>1. f \in FrameType /\ f.who = Top.who
    BY <1>1 DEF Interrupted, FrameType
  <2>2. WellFormed(f)
    BY <1>1 DEF Interrupted, WellFormed, FrameType
  <2>3. frames' = Append(Below, f)
    BY <1>3 DEF Tick
  <2> QED BY <2>1, <2>2, <2>3, ReplaceStep
<1>4. ASSUME NEW t \in Task, BeginCall(t) PROVE Nested(frames')
  <2> DEFINE g == [Top EXCEPT !.target = t, !.todo = IF Top.who = Idle THEN @ ELSE @ \ {t}]
             f == IF Ceiling[t] = 0 THEN [g EXCEPT !.pc = "test"] ELSE Raised(g, t)
  <2>1. f.who = Top.who /\ frames' = Append(Below, f)
    BY <1>1, <1>4 DEF BeginCall, TopBecomes, Raised, FrameType
  <2>2. /\ Top.pc = "run" /\ t \in Activates[Top.who]
        /\ Top.level = Level(Top.who) /\ Top.open = Top.level
        /\ Top.todo \subseteq Activates[Top.who] /\ Activates[Top.who] \subseteq Task
    BY <1>1, <1>2, <1>4, SwIntAssumption DEF BeginCall, WellFormed
  <2>3. /\ g \in FrameType /\ g.who = Top.who /\ g.target = t
        /\ g.level = Level(Top.who) /\ g.open = Level(Top.who)
        /\ g.todo \subseteq Activates[Top.who]
    BY <1>1, <2>2 DEF FrameType
  <2> HIDE DEF g
  <2>4. Ceiling[t] \in Nat
    BY SwIntAssumption
  <2>5. CASE Ceiling[t] = 0
    <3>1. Higher(Level(Top.who), Ceiling[t]) = Level(Top.who)
      BY <1>2, <2>4, <2>5, HigherProperties
    <3>2. /\ f \in FrameType /\ f.pc = "test" /\ f.target = t /\ f.who = Top.who
          /\ f.level = Level(Top.who) /\ f.open = Level(Top.who)
          /\ f.todo \subseteq Activates[Top.who]
      BY <2>3, <2>5 DEF FrameType, PC
    <3> HIDE DEF f
    <3>3. WellFormed(f)
      BY <2>2, <3>1, <3>2 DEF WellFormed, Section
    <3> QED BY <2>1, <3>2, <3>3, ReplaceStep
  <2>6. CASE Ceiling[t] # 0
    <3>1. Higher(Level(Top.who), Ceiling[t]) \in Nat
      BY <1>2, <2>4, HigherProperties
    <3>2. /\ f \in FrameType /\ f.pc = "raised" /\ f.target = t /\ f.who = Top.who
          /\ f.level = Higher(Level(Top.who), Ceiling[t]) /\ f.open = Level(Top.who)
          /\ f.todo \subseteq Activates[Top.who]
      BY <1>2, <2>3, <2>6, <3>1 DEF FrameType, PC, Raised
    <3> HIDE DEF f
    <3>3. WellFormed(f)
      BY <2>2, <3>2 DEF WellFormed, Section
    <3> QED BY <2>1, <3>2, <3>3, ReplaceStep
  <2> QED BY <2>5, <2>6
<1>5. CASE Synchronize
  <2> DEFINE f == [Top EXCEPT !.pc = "test", !.open = Top.level]
  <2>1. f \in FrameType /\ f.who = Top.who
    BY <1>1 DEF FrameType, PC
  <2>2. WellFormed(f)
    BY <1>1, <1>5 DEF Synchronize, WellFormed, FrameType, Section
  <2>3. frames' = Append(Below, f)
    BY <1>5 DEF Synchronize, TopBecomes
  <2> QED BY <2>1, <2>2, <2>3, ReplaceStep
<1>6. CASE ReadFlag
  <2> DEFINE f == [Top EXCEPT !.pc = IF flag[Top.target] THEN "busy" ELSE "free"]
  <2>1. f \in FrameType /\ f.who = Top.who
    BY <1>1 DEF FrameType, PC
  <2>2. WellFormed(f)
    BY <1>1, <1>6 DEF ReadFlag, WellFormed, FrameType, Section
  <2>3. frames' = Append(Below, f)
    BY <1>6 DEF ReadFlag, TopBecomes
  <2> QED BY <2>1, <2>2, <2>3, ReplaceStep
<1>7. CASE WriteFlag \/ CountLoss
  <2> DEFINE f == [Top EXCEPT !.pc = "leave"]
  <2>1. f \in FrameType /\ f.who = Top.who
    BY <1>1 DEF FrameType, PC
  <2>2. WellFormed(f)
    BY <1>1, <1>7 DEF WriteFlag, CountLoss, WellFormed, FrameType, Section
  <2>3. frames' = Append(Below, f)
    BY <1>7 DEF WriteFlag, CountLoss, TopBecomes
  <2> QED BY <2>1, <2>2, <2>3, ReplaceStep
<1>8. CASE EndCall
  <2> DEFINE f == [Top EXCEPT !.pc = "run", !.target = 0,
                              !.level = ResumeLevel(Top), !.open = ResumeLevel(Top)]
  <2>1. f \in FrameType /\ f.who = Top.who
    BY <1>1, <1>2 DEF FrameType, PC, ResumeLevel
  <2>2. WellFormed(f)
    BY <1>1, <1>8 DEF EndCall, ResumeLevel, WellFormed, FrameType, Section
  <2>3. frames' = Append(Below, f)
    BY <1>8 DEF EndCall, TopBecomes
  <2> QED BY <2>1, <2>2, <2>3, ReplaceStep
<1>9. CASE Acknowledge
  <2> DEFINE f == [Top EXCEPT !.pc = "acked"]
  <2>1. f \in FrameType /\ f.who = Top.who
    BY <1>1 DEF FrameType, PC
  <2>2. WellFormed(f)
    BY <1>1, <1>9 DEF Acknowledge, WellFormed, FrameType, Section
  <2>3. frames' = Append(Below, f)
    BY <1>9 DEF Acknowledge, TopBecomes
  <2> QED BY <2>1, <2>2, <2>3, ReplaceStep
<1>10. CASE Return
  BY <1>10, ReturnEndsNoIdle, PopStep DEF Return
<1>11. ASSUME NEW t \in Task, StartTask(t) PROVE Nested(frames')
  BY <1>11, PushStep, TaskLevel DEF StartTask
<1>12. ASSUME NEW i \in Isr, StartIsr(i) PROVE Nested(frames')
  BY <1>12, PushStep, IsrLevel DEF StartIsr
<1>13. CASE UNCHANGED vars
  BY <1>13 DEF vars
<1> QED BY <1>3, <1>4, <1>5, <1>6, <1>7, <1>8, <1>9, <1>10, <1>11, <1>12, <1>13 DEF Next, Run

(* Preemption excludes what the levels are made to exclude: no code comes  *)
(* on top of a critical section of its level or above, and none preempts   *)
(* itself, for any tasks, interrupts, levels and ceilings.                 *)
THEOREM PreemptionIsOrdered == Spec => []PreemptedFromAbove
<1>1. StackInv => PreemptedFromAbove
  <2> SUFFICES ASSUME Nested(frames) PROVE PreemptedFromAbove
    BY DEF StackInv
  <2>1. DOMAIN frames = 1..Len(frames) /\ frames \in Seq(FrameType)
    BY DEF Nested
  <2>2. ASSUME NEW i \in DOMAIN frames, NEW j \in DOMAIN frames, i < j
        PROVE  /\ frames[i].pc \in Section => Level(frames[j].who) > frames[i].level
               /\ frames[i].who # frames[j].who
    <3>1. i \in 1..Len(frames) /\ j \in 1..Len(frames)
      BY <2>1
    <3>2. Above(frames[j], frames[i])
      BY <2>2, <3>1 DEF Nested
    <3>3. Level(frames[i].who) \in Nat
      <4>1. frames[i] \in FrameType
        BY <2>1, <3>1
      <4>2. frames[i].who \in Actor
        BY <4>1 DEF FrameType
      <4> QED BY <4>2, LevelType
    <3>4. frames[i].who # frames[j].who
      <4> SUFFICES ASSUME frames[i].who = frames[j].who PROVE FALSE
        OBVIOUS
      <4>1. Level(frames[j].who) > Level(frames[j].who) /\ Level(frames[j].who) \in Nat
        BY <3>2, <3>3 DEF Above
      <4> QED BY <4>1
    <3>5. frames[i].pc \in Section => Level(frames[j].who) > frames[i].level
      BY <3>2 DEF Above
    <3> QED BY <3>4, <3>5
  <2> QED BY <2>2 DEF PreemptedFromAbove, SectionIsExclusive, NeverReentered, Section
<1> QED BY <1>1, InitNested, StepNested, PTL DEF Spec

-----------------------------------------------------------------------------
(* Flags and activations. *)

(* The flag of a running task is set until it is acknowledged, a flag that *)
(* was seen clear still is when it is written, and a flag that is set      *)
(* stands for one activation.                                              *)
FlagsInv ==
  /\ flag \in [Task -> BOOLEAN] /\ owed \in [Task -> Int]
  /\ \A t \in Task : owed[t] = IF flag[t] THEN 1 ELSE 0
  /\ \A i \in 1..Len(frames) :
       /\ frames[i].who \in Task /\ frames[i].pc # "acked" => flag[frames[i].who]
       /\ frames[i].pc = "free" => ~flag[frames[i].target]

(* Who reads the flag of a task before it sets it has excluded the timer   *)
(* interrupt, if that could set it, and all others who could.              *)
LEMMA ReaderIsAlone ==
  ASSUME Protected, Nested(frames), NEW i \in 1..Len(frames), frames[i].pc = "free"
  PROVE  /\ frames[i].target \in Task /\ frames[i].target \in Activates[frames[i].who]
         /\ Cycle[frames[i].target] > 0 => ~Accepts(Top, TickLevel)
         /\ i # Len(frames) => frames[i].target \notin Activates[Top.who]
<1> DEFINE f == frames[i]
           a == f.who
           t == f.target
<1>1. /\ f \in FrameType /\ WellFormed(f) /\ f.pc \in Section
      /\ Len(frames) \in Nat \ {0} /\ Top = frames[Len(frames)]
      /\ Top \in FrameType /\ WellFormed(Top)
  BY TopProperties DEF Nested, Section
<1>2. a \in Actor /\ Level(a) \in Nat /\ Activates[a] \subseteq Task
  BY <1>1, LevelType, SwIntAssumption DEF FrameType
<1>3. t \in Activates[a] /\ t \in Task /\ f.level = Higher(Level(a), Ceiling[t])
  BY <1>1, <1>2 DEF WellFormed
<1>4. /\ Cycle[t] > 0 => f.level >= TickLevel
      /\ \A b \in Actor \ {a} : t \in Activates[b] => f.level >= Level(b)
  BY <1>2, <1>3 DEF Protected
<1>5. /\ Top.who \in Actor /\ Level(Top.who) \in Nat /\ Level(Top.who) <= TickLevel
      /\ Top.open \in Nat /\ Top.open >= Level(Top.who) /\ f.level \in Nat
  BY <1>1, LevelType, WellFormedLevels DEF FrameType
<1>6. i # Len(frames) => Level(Top.who) > f.level /\ Top.who # a
  <2> SUFFICES ASSUME i # Len(frames) PROVE Level(Top.who) > f.level /\ Top.who # a
    OBVIOUS
  <2>1. Above(Top, f)
    BY <1>1, TopProperties
  <2> QED BY <1>1, <1>2, <2>1 DEF Above
<1>7. TickLevel \in Nat
  BY SwIntAssumption
<1>8. i = Len(frames) => Top.open = f.level
  BY <1>1, WellFormedLevels
<1>9. Cycle[t] > 0 => ~Accepts(Top, TickLevel)
  BY <1>4, <1>5, <1>6, <1>7, <1>8 DEF Accepts
<1>10. i # Len(frames) => t \notin Activates[Top.who]
  BY <1>4, <1>5, <1>6
<1> QED BY <1>3, <1>9, <1>10

LEMMA InitFlags == Init => FlagsInv
<1> SUFFICES ASSUME Init PROVE FlagsInv
  OBVIOUS
<1>1. frames = << NewFrame(Idle) >> /\ Len(frames) = 1 /\ frames[1] = NewFrame(Idle)
  BY DEF Init
<1>2. Idle \notin Task /\ frames[1].who = Idle /\ frames[1].pc = "run"
  BY <1>1 DEF NewFrame, Idle, Task
<1>3. /\ flag = [t \in Task |-> FALSE] /\ owed = [t \in Task |-> 0]
  BY DEF Init
<1> QED BY <1>1, <1>2, <1>3 DEF FlagsInv

(* The stack after f has been put in place of its top, whatever f is.      *)
LEMMA Replaced ==
  ASSUME Nested(frames), NEW f, frames' = Append(Below, f)
  PROVE  /\ Len(frames') = Len(frames) /\ frames'[Len(frames)] = f
         /\ \A i \in 1..(Len(frames) - 1) : frames'[i] = frames[i]
<1> DEFINE S == FrameType \cup {f}
<1>1. /\ Len(frames) \in Nat \ {0} /\ Below \in Seq(FrameType) /\ Len(Below) = Len(frames) - 1
      /\ \A i \in 1..(Len(frames) - 1) : Below[i] = frames[i]
  BY TopProperties
<1>2. FrameType \subseteq S /\ f \in S
  OBVIOUS
<1> HIDE DEF S
<1>3. Below \in Seq(S)
  BY <1>1, <1>2, SeqMonotonic
<1> QED BY <1>1, <1>2, <1>3

(* A step that changes neither flag nor activation, and leaves f on top.   *)
LEMMA ReplaceFlags ==
  ASSUME FlagsInv, Nested(frames), UNCHANGED <<flag, owed>>,
         NEW f, f.who = Top.who, frames' = Append(Below, f),
         Top.pc # "acked", f.pc = "free" => ~flag[f.target]
  PROVE  FlagsInv'
<1>1. /\ Len(frames') = Len(frames) /\ frames'[Len(frames)] = f
      /\ \A i \in 1..(Len(frames) - 1) : frames'[i] = frames[i]
      /\ Len(frames) \in Nat \ {0} /\ Top = frames[Len(frames)]
  BY Replaced, TopProperties
<1>2. ASSUME NEW i \in 1..Len(frames)
      PROVE  /\ frames'[i].who \in Task /\ frames'[i].pc # "acked" => flag[frames'[i].who]
             /\ frames'[i].pc = "free" => ~flag[frames'[i].target]
  <2>1. CASE i = Len(frames)
    BY <1>1, <2>1 DEF FlagsInv
  <2>2. CASE i # Len(frames)
    BY <1>1, <2>2 DEF FlagsInv
  <2> QED BY <2>1, <2>2
<1> QED BY <1>1, <1>2 DEF FlagsInv

(* Something starts on top. The flag of a task is set when it starts.      *)
LEMMA PushFlags ==
  ASSUME FlagsInv, Nested(frames), UNCHANGED <<flag, owed>>,
         NEW a \in Actor, Accepts(Top, Level(a)), Enter(a), a \in Task => flag[a]
  PROVE  FlagsInv'
<1> DEFINE n == Len(frames)
<1>1. /\ Len(frames') = n + 1
      /\ frames'[n] = Interrupted(Top) /\ frames'[n + 1] = NewFrame(a)
      /\ \A i \in 1..(n - 1) : frames'[i] = frames[i]
  BY PushStep
<1>2. n \in Nat \ {0} /\ Top = frames[n] /\ Top \in FrameType
  BY TopProperties
<1>3. NewFrame(a).who = a /\ NewFrame(a).pc = "run"
  BY DEF NewFrame
<1>4. /\ Interrupted(Top).who = Top.who /\ Interrupted(Top).pc = Top.pc
      /\ Interrupted(Top).target = Top.target
  BY <1>2 DEF Interrupted, FrameType
<1>5. ASSUME NEW i \in 1..(n + 1)
      PROVE  /\ frames'[i].who \in Task /\ frames'[i].pc # "acked" => flag[frames'[i].who]
             /\ frames'[i].pc = "free" => ~flag[frames'[i].target]
  <2>1. CASE i = n + 1
    BY <1>1, <1>3, <2>1
  <2>2. CASE i = n
    BY <1>1, <1>2, <1>4, <2>2 DEF FlagsInv
  <2>3. CASE i < n
    BY <1>1, <1>2, <2>3 DEF FlagsInv
  <2> QED BY <1>2, <2>1, <2>2, <2>3
<1> QED BY <1>1, <1>5 DEF FlagsInv

(* The flags after a step, with the stack as it was.                       *)
LEMMA StepFlags ==
  ASSUME Protected, StackInv, FlagsInv, [Next]_vars
  PROVE  FlagsInv'
<1> DEFINE n == Len(frames)
<1>1. /\ n \in Nat \ {0} /\ Top = frames[n] /\ Top \in FrameType /\ WellFormed(Top)
      /\ frames \in Seq(FrameType) /\ Nested(frames)
  BY TopProperties DEF StackInv, Nested
<1>2. Top.who \in Actor /\ Level(Top.who) \in Nat /\ Activates[Top.who] \subseteq Task
  BY <1>1, LevelType, SwIntAssumption DEF FrameType
<1>3. Top.pc \in Section => Top.target \in Task
  BY <1>1, <1>2 DEF WellFormed
<1>4. CASE Tick
  <2> DEFINE new == {t \in Task : IsTimed(t) /\ ~flag[t]}
  <2>1. /\ flag' = [t \in Task |-> flag[t] \/ t \in new]
        /\ owed' = [t \in Task |-> owed[t] + (IF t \in new THEN 1 ELSE 0)]
        /\ frames' = Append(Below, Interrupted(Top)) /\ Accepts(Top, TickLevel)
    BY <1>4 DEF Tick
  <2>2. \A t \in new : t \in Task /\ ~flag[t] /\ Cycle[t] > 0
    BY DEF IsTimed
  <2> HIDE DEF new
  <2>3. Interrupted(Top).who = Top.who /\ Interrupted(Top).pc = Top.pc
        /\ Interrupted(Top).target = Top.target
    BY <1>1 DEF Interrupted, FrameType
  <2>4. Len(frames') = n /\ frames'[n] = Interrupted(Top)
        /\ \A i \in 1..(n - 1) : frames'[i] = frames[i]
    BY <1>1, <2>1, Replaced
  <2>5. \A i \in 1..n : /\ frames'[i].who = frames[i].who
                        /\ frames'[i].pc = frames[i].pc
                        /\ frames'[i].target = frames[i].target
    BY <1>1, <2>3, <2>4
  <2>6. /\ flag' \in [Task -> BOOLEAN] /\ owed' \in [Task -> Int]
        /\ \A t \in Task : owed'[t] = IF flag'[t] THEN 1 ELSE 0
    <3>1. flag' \in [Task -> BOOLEAN]
      BY <2>1 DEF FlagsInv
    <3>2. owed' \in [Task -> Int]
      BY <2>1 DEF FlagsInv
    <3>3. ASSUME NEW t \in Task, t \in new PROVE owed'[t] = IF flag'[t] THEN 1 ELSE 0
      <4>1. flag'[t] /\ owed'[t] = owed[t] + 1
        BY <2>1, <3>3
      <4>2. owed[t] = 0
        BY <2>2, <3>3 DEF FlagsInv
      <4> QED BY <4>1, <4>2
    <3>4. ASSUME NEW t \in Task, t \notin new PROVE owed'[t] = IF flag'[t] THEN 1 ELSE 0
      <4>1. (flag'[t] <=> flag[t]) /\ owed'[t] = owed[t] + 0
        BY <2>1, <3>4
      <4>2. owed[t] \in Int /\ owed[t] = IF flag[t] THEN 1 ELSE 0
        BY DEF FlagsInv
      <4> QED BY <4>1, <4>2
    <3> QED BY <3>1, <3>2, <3>3, <3>4
  <2>7. ASSUME NEW i \in 1..n, frames[i].who \in Task, frames[i].pc # "acked"
        PROVE  flag'[frames[i].who]
    BY <2>1, <2>7 DEF FlagsInv
  <2>8. ASSUME NEW i \in 1..n, frames[i].pc = "free" PROVE ~flag'[frames[i].target]
    <3>1. frames[i].target \in Task /\ ~(Cycle[frames[i].target] > 0)
      BY <1>1, <2>1, <2>8, ReaderIsAlone
    <3>2. ~flag[frames[i].target]
      BY <2>8 DEF FlagsInv
    <3> QED BY <2>1, <2>2, <3>1, <3>2
  <2> QED BY <2>4, <2>5, <2>6, <2>7, <2>8 DEF FlagsInv
<1>5. ASSUME NEW t \in Task, BeginCall(t) PROVE FlagsInv'
  <2> DEFINE g == [Top EXCEPT !.target = t, !.todo = IF Top.who = Idle THEN @ ELSE @ \ {t}]
             f == IF Ceiling[t] = 0 THEN [g EXCEPT !.pc = "test"] ELSE Raised(g, t)
  <2>1. frames' = Append(Below, f) /\ Top.pc = "run" /\ UNCHANGED <<flag, owed>>
    BY <1>5 DEF BeginCall, TopBecomes
  <2>2. f.who = Top.who /\ f.pc # "free"
    BY <1>1 DEF Raised, FrameType
  <2> HIDE DEF f
  <2> QED BY <1>1, <2>1, <2>2, ReplaceFlags
<1>6. CASE Synchronize \/ ReadFlag \/ CountLoss \/ EndCall
  <2>1. CASE Synchronize
    <3> DEFINE f == [Top EXCEPT !.pc = "test", !.open = Top.level]
    <3>1. frames' = Append(Below, f) /\ Top.pc = "raised" /\ UNCHANGED <<flag, owed>>
      BY <2>1 DEF Synchronize, TopBecomes
    <3>2. f.who = Top.who /\ f.pc # "free"
      BY <1>1 DEF FrameType
    <3> HIDE DEF f
    <3> QED BY <1>1, <3>1, <3>2, ReplaceFlags
  <2>2. CASE ReadFlag
    <3> DEFINE f == [Top EXCEPT !.pc = IF flag[Top.target] THEN "busy" ELSE "free"]
    <3>1. frames' = Append(Below, f) /\ Top.pc = "test" /\ UNCHANGED <<flag, owed>>
      BY <2>2 DEF ReadFlag, TopBecomes
    <3>2. f.who = Top.who /\ f.target = Top.target /\ (f.pc = "free" => ~flag[Top.target])
      BY <1>1 DEF FrameType
    <3> HIDE DEF f
    <3> QED BY <1>1, <3>1, <3>2, ReplaceFlags
  <2>3. CASE CountLoss
    <3> DEFINE f == [Top EXCEPT !.pc = "leave"]
    <3>1. frames' = Append(Below, f) /\ Top.pc = "busy" /\ UNCHANGED <<flag, owed>>
      BY <2>3 DEF CountLoss, TopBecomes
    <3>2. f.who = Top.who /\ f.pc # "free"
      BY <1>1 DEF FrameType
    <3> HIDE DEF f
    <3> QED BY <1>1, <3>1, <3>2, ReplaceFlags
  <2>4. CASE EndCall
    <3> DEFINE f == [Top EXCEPT !.pc = "run", !.target = 0,
                                !.level = ResumeLevel(Top), !.open = ResumeLevel(Top)]
    <3>1. frames' = Append(Below, f) /\ Top.pc = "leave" /\ UNCHANGED <<flag, owed>>
      BY <2>4 DEF EndCall, TopBecomes
    <3>2. f.who = Top.who /\ f.pc # "free"
      BY <1>1 DEF FrameType
    <3> HIDE DEF f
    <3> QED BY <1>1, <3>1, <3>2, ReplaceFlags
  <2> QED BY <1>6, <2>1, <2>2, <2>3, <2>4
<1>7. CASE WriteFlag
  <2> DEFINE f == [Top EXCEPT !.pc = "leave"]
             t == Top.target
  <2>1. /\ flag' = [flag EXCEPT ![t] = TRUE] /\ owed' = [owed EXCEPT ![t] = @ + 1]
        /\ frames' = Append(Below, f) /\ Top.pc = "free"
    BY <1>7 DEF WriteFlag, TopBecomes
  <2>2. t \in Task /\ t \in Activates[Top.who] /\ ~flag[t]
    BY <1>1, <1>3, <2>1 DEF Section, WellFormed, FlagsInv
  <2>3. f.who = Top.who /\ f.pc = "leave"
    BY <1>1 DEF FrameType
  <2> HIDE DEF f
  <2>4. Len(frames') = n /\ frames'[n] = f /\ \A i \in 1..(n - 1) : frames'[i] = frames[i]
    BY <1>1, <2>1, Replaced
  <2>5. /\ flag' \in [Task -> BOOLEAN] /\ owed' \in [Task -> Int]
        /\ \A u \in Task : owed'[u] = IF flag'[u] THEN 1 ELSE 0
    BY <2>1, <2>2 DEF FlagsInv
  <2>6. ASSUME NEW i \in 1..n, frames'[i].who \in Task, frames'[i].pc # "acked"
        PROVE  flag'[frames'[i].who]
    <3>1. flag[frames'[i].who]
      BY <1>1, <2>1, <2>3, <2>4, <2>6 DEF FlagsInv
    <3> QED BY <2>1, <2>6, <3>1 DEF FlagsInv
  <2>7. ASSUME NEW i \in 1..n, frames'[i].pc = "free" PROVE ~flag'[frames'[i].target]
    <3>1. i # n /\ frames'[i] = frames[i]
      BY <1>1, <2>3, <2>4, <2>7
    <3>2. frames[i].target \in Task /\ frames[i].target # t
      BY <1>1, <2>2, <2>7, <3>1, ReaderIsAlone
    <3>3. ~flag[frames[i].target]
      BY <2>7, <3>1 DEF FlagsInv
    <3> QED BY <2>1, <3>1, <3>2, <3>3 DEF FlagsInv
  <2> QED BY <2>4, <2>5, <2>6, <2>7 DEF FlagsInv
<1>8. CASE Acknowledge
  <2> DEFINE f == [Top EXCEPT !.pc = "acked"]
             w == Top.who
  <2>1. /\ flag' = [flag EXCEPT ![w] = FALSE] /\ owed' = [owed EXCEPT ![w] = @ - 1]
        /\ frames' = Append(Below, f) /\ Top.pc = "run" /\ w \in Task
    BY <1>8 DEF Acknowledge, TopBecomes
  <2>2. flag[w]
    BY <1>1, <2>1 DEF FlagsInv
  <2>3. f.who = w /\ f.pc = "acked"
    BY <1>1 DEF FrameType
  <2> HIDE DEF f
  <2>4. Len(frames') = n /\ frames'[n] = f /\ \A i \in 1..(n - 1) : frames'[i] = frames[i]
    BY <1>1, <2>1, Replaced
  <2>5. /\ flag' \in [Task -> BOOLEAN] /\ owed' \in [Task -> Int]
        /\ \A u \in Task : owed'[u] = IF flag'[u] THEN 1 ELSE 0
    BY <2>1, <2>2 DEF FlagsInv
  <2>6. ASSUME NEW i \in 1..n, frames'[i].who \in Task, frames'[i].pc # "acked"
        PROVE  flag'[frames'[i].who]
    <3>1. i # n /\ frames'[i] = frames[i] /\ i \in 1..(n - 1)
      BY <1>1, <2>3, <2>4, <2>6
    <3>2. frames[i].who # w
      <4>1. Above(Top, frames[i])
        BY <1>1, <3>1, TopProperties
      <4>2. Level(w) > Level(frames[i].who)
        BY <4>1 DEF Above
      <4> SUFFICES ASSUME frames[i].who = w PROVE FALSE
        OBVIOUS
      <4>3. Level(w) > Level(w)
        BY <4>2
      <4> QED BY <1>2, <4>3
    <3>3. flag[frames[i].who]
      BY <2>6, <3>1 DEF FlagsInv
    <3> QED BY <2>1, <3>1, <3>2, <3>3 DEF FlagsInv
  <2>7. ASSUME NEW i \in 1..n, frames'[i].pc = "free" PROVE ~flag'[frames'[i].target]
    <3>1. i # n /\ frames'[i] = frames[i]
      BY <1>1, <2>3, <2>4, <2>7
    <3>2. frames[i].target \in Task
      BY <1>1, <2>7, <3>1, ReaderIsAlone
    <3>3. ~flag[frames[i].target]
      BY <2>7, <3>1 DEF FlagsInv
    <3> QED BY <2>1, <3>1, <3>2, <3>3 DEF FlagsInv
  <2> QED BY <2>4, <2>5, <2>6, <2>7 DEF FlagsInv
<1>9. CASE Return
  <2>1. /\ Len(frames') = n - 1 /\ \A i \in 1..(n - 1) : frames'[i] = frames[i]
        /\ UNCHANGED <<flag, owed>>
    BY <1>1, <1>9, ReturnEndsNoIdle, PopStep DEF Return
  <2> QED BY <1>1, <2>1 DEF FlagsInv
<1>10. ASSUME NEW t \in Task, StartTask(t) PROVE FlagsInv'
  <2>1. /\ Accepts(Top, Level(t)) /\ Enter(t) /\ t \in Actor /\ flag[t]
        /\ UNCHANGED <<flag, owed>>
    BY <1>10, TaskLevel DEF StartTask
  <2> QED BY <1>1, <2>1, PushFlags
<1>11. ASSUME NEW i \in Isr, StartIsr(i) PROVE FlagsInv'
  <2>1. /\ Accepts(Top, Level(i)) /\ Enter(i) /\ i \in Actor /\ i \notin Task
        /\ UNCHANGED <<flag, owed>>
    BY <1>11, IsrLevel, SwIntAssumption DEF StartIsr
  <2> QED BY <1>1, <2>1, PushFlags
<1>12. CASE UNCHANGED vars
  BY <1>12 DEF vars, FlagsInv
<1> QED BY <1>4, <1>5, <1>6, <1>7, <1>8, <1>9, <1>10, <1>11, <1>12 DEF Next, Run

(* An accepted activation is executed, and once, if the callers follow the *)
(* rule of rtos.c:561-565 and take the timer for one of them: between      *)
(* reading and setting a flag nobody else sets it.                         *)
THEOREM AcceptedOnceIfProtected ==
  ASSUME Protected
  PROVE  Spec => []AcceptedAreExecuted
<1>1. Init => StackInv /\ FlagsInv
  BY InitNested, InitFlags
<1>2. (StackInv /\ FlagsInv) /\ [Next]_vars => (StackInv /\ FlagsInv)'
  BY StepNested, StepFlags
<1>3. FlagsInv => AcceptedAreExecuted
  BY DEF FlagsInv, AcceptedAreExecuted
<1> QED BY <1>1, <1>2, <1>3, PTL DEF Spec
-----------------------------------------------------------------------------
(* Types of the variables, and due times. *)

TypesInv ==
  /\ flag \in [Task -> BOOLEAN]
  /\ due \in [Task -> Time]
  /\ tiOs \in Time
  /\ loss \in [Task -> 0..MaxLoss]
  /\ owed \in [Task -> Int]
  /\ failed \in [Task -> Nat]

LEMMA QuarterProperties ==
  /\ Modulus \in Nat \ {0} /\ 0 \in Time
  /\ \A i \in Int : i % Modulus \in Time
  /\ \A t \in Task : /\ Cycle[t] \in Nat /\ 4 * Cycle[t] < Modulus
                     /\ First[t] \in Nat /\ 4 * First[t] < Modulus
<1> DEFINE q == 2 ^ (Width - 2)
<1>1. q \in Nat \ {0} /\ Modulus = 4 * q
  BY WidthAssumption
<1>2. ASSUME NEW t \in Task
      PROVE  Cycle[t] \in 0..(q - 1) /\ First[t] \in 0..(q - 1)
  BY SwIntAssumption DEF Registered
<1> HIDE DEF q
<1>3. Modulus \in Nat \ {0}
  BY <1>1
<1>4. 0 \in Time /\ \A i \in Int : i % Modulus \in Time
  BY <1>3 DEF Time
<1>5. ASSUME NEW t \in Task
      PROVE  /\ Cycle[t] \in Nat /\ 4 * Cycle[t] < Modulus
             /\ First[t] \in Nat /\ 4 * First[t] < Modulus
  BY <1>1, <1>2
<1> QED BY <1>3, <1>4, <1>5

LEMMA CountedType ==
  ASSUME NEW n \in 0..MaxLoss
  PROVE  Counted(n) \in 0..MaxLoss
BY SwIntAssumption DEF Counted

LEMMA NotedType ==
  ASSUME NEW n \in Nat
  PROVE  Noted(n) \in Nat
BY SwIntAssumption DEF Noted

LEMMA InitTypes == Init => TypesInv
<1> SUFFICES ASSUME Init PROVE TypesInv
  OBVIOUS
<1>1. MaxLoss \in Nat /\ First \in [Task -> Nat]
  BY SwIntAssumption
<1>2. First \in [Task -> Time]
  BY <1>1, QuarterProperties DEF Time
<1> QED BY <1>1, <1>2, QuarterProperties DEF Init, TypesInv

(* A call of rtos_activateTask is about a task.                            *)
LEMMA TargetIsTask ==
  ASSUME Nested(frames), Top.pc \in Section
  PROVE  Top.target \in Task
BY TopProperties, SwIntAssumption DEF WellFormed, FrameType

LEMMA StepTypes == StackInv /\ TypesInv /\ [Next]_vars => TypesInv'
<1> SUFFICES ASSUME Nested(frames), TypesInv, [Next]_vars PROVE TypesInv'
  BY DEF StackInv
<1>1. CASE Tick
  <2>1. flag' \in [Task -> BOOLEAN] /\ owed' \in [Task -> Int]
    BY <1>1 DEF Tick, TypesInv
  <2>2. loss' \in [Task -> 0..MaxLoss]
    BY <1>1, CountedType DEF Tick, TypesInv
  <2>3. failed' \in [Task -> Nat]
    BY <1>1, NotedType DEF Tick, TypesInv
  <2>4. tiOs' \in Time
    <3>1. tiOs + 1 \in Int
      BY QuarterProperties DEF TypesInv, Time
    <3> QED BY <1>1, <3>1, QuarterProperties DEF Tick
  <2>5. ASSUME NEW t \in Task PROVE (due[t] + Cycle[t]) % Modulus \in Time
    <3>1. due[t] \in Int
      BY QuarterProperties DEF TypesInv, Time
    <3>2. Cycle[t] \in Int
      BY QuarterProperties
    <3>3. due[t] + Cycle[t] \in Int
      BY <3>1, <3>2
    <3> QED BY <3>3, QuarterProperties
  <2>6. due' \in [Task -> Time]
    BY <1>1, <2>5 DEF Tick, TypesInv
  <2> QED BY <2>1, <2>2, <2>3, <2>4, <2>6 DEF TypesInv
<1>2. CASE ReadFlag
  <2>1. Top.target \in Task
    BY <1>2, TargetIsTask DEF ReadFlag, Section
  <2> QED BY <1>2, <2>1, NotedType DEF ReadFlag, TypesInv
<1>3. CASE WriteFlag
  <2>1. Top.target \in Task
    BY <1>3, TargetIsTask DEF WriteFlag, Section
  <2> QED BY <1>3, <2>1 DEF WriteFlag, TypesInv
<1>4. CASE CountLoss
  <2>1. Top.target \in Task
    BY <1>4, TargetIsTask DEF CountLoss, Section
  <2> QED BY <1>4, <2>1, CountedType DEF CountLoss, TypesInv
<1>5. CASE Acknowledge
  BY <1>5 DEF Acknowledge, TypesInv
<1>6. CASE UNCHANGED <<flag, due, tiOs, loss, owed, failed>>
  BY <1>6 DEF TypesInv
<1>7. CASE \/ \E t \in Task : BeginCall(t) \/ StartTask(t)
           \/ Synchronize \/ EndCall \/ Return \/ \E i \in Isr : StartIsr(i)
           \/ UNCHANGED vars
  BY <1>6, <1>7 DEF BeginCall, StartTask, Synchronize, EndCall, Return, StartIsr, vars
<1> QED BY <1>1, <1>2, <1>3, <1>4, <1>5, <1>7 DEF Next, Run

(* A due time is looked at in each tick, and moves on when it is reached.  *)
LEMMA StepDue ==
  ASSUME TypesInv, DueInNextCycle, [Next]_vars
  PROVE  DueInNextCycle'
<1>1. CASE Tick
  <2> SUFFICES ASSUME NEW t \in Task, Cycle[t] > 0
               PROVE  LET ahead == (due'[t] - tiOs') % Modulus
                      IN ahead < Cycle[t] \/ ahead <= First[t]
    BY DEF DueInNextCycle
  <2> DEFINE m == Modulus
             d == due[t]
             c == Cycle[t]
             f == First[t]
             ahead == (d - tiOs) % m
  <2>1. /\ m \in Nat \ {0} /\ c \in Nat /\ 4 * c < m /\ f \in Nat /\ 4 * f < m
        /\ d \in 0..(m - 1) /\ tiOs \in 0..(m - 1)
    BY QuarterProperties DEF TypesInv, Time
  <2>2. ahead < c \/ ahead <= f
    BY DEF DueInNextCycle
  <2>3. /\ tiOs' = (tiOs + 1) % m
        /\ due'[t] = IF IsTimed(t) THEN (d + c) % m ELSE d
    BY <1>1 DEF Tick
  <2>4. IsTimed(t) <=> ahead = 0 \/ (ahead >= m \div 2 /\ ahead <= m - 1)
    BY <2>1 DEF IsTimed, IsDue
  <2> DEFINE now == tiOs
             dNext == due'[t]
             nowNext == tiOs'
  <2>5. c > 0
    OBVIOUS
  <2> HIDE DEF m, d, c, f
  <2>6. ahead \in 0..(m - 1) /\ (IsTimed(t) <=> ahead = 0)
    BY <2>1, <2>2, <2>4
  <2>7. CASE ahead = 0
    <3>1. d = now
      BY <2>1, <2>7
    <3>2. dNext = (now + c) % m /\ nowNext = (now + 1) % m
      BY <2>3, <2>6, <2>7, <3>1
    <3>3. (dNext - nowNext) % m = c - 1
      BY <2>1, <2>5, <3>2
    <3> QED BY <2>1, <3>3 DEF m, c
  <2>8. CASE ahead # 0
    <3>1. dNext = d /\ nowNext = (now + 1) % m
      BY <2>3, <2>6, <2>8
    <3>2. (dNext - nowNext) % m = ahead - 1
      BY <2>1, <2>6, <2>8, <3>1
    <3>3. ahead - 1 < c \/ ahead - 1 <= f
      BY <2>1, <2>2, <2>6
    <3> QED BY <3>2, <3>3 DEF m, c, f
  <2> QED BY <2>7, <2>8
<1>2. CASE UNCHANGED <<due, tiOs>>
  BY <1>2 DEF DueInNextCycle
<1>3. CASE Run \/ (\E t \in Task : StartTask(t)) \/ (\E i \in Isr : StartIsr(i)) \/ UNCHANGED vars
  BY <1>2, <1>3 DEF Run, BeginCall, StartTask, Synchronize, ReadFlag, WriteFlag, CountLoss, EndCall,
     Acknowledge, Return, StartIsr, vars
<1> QED BY <1>1, <1>3 DEF Next

(* No cyclic task falls behind the clock, whatever its cycle and its first *)
(* activation are and whenever clock and due time wrap around.             *)
THEOREM CyclicTasksAreInTime == Spec => []DueInNextCycle
<1>1. Init => DueInNextCycle
  <2> SUFFICES ASSUME Init, NEW t \in Task
               PROVE  (due[t] - tiOs) % Modulus <= First[t]
    BY DEF DueInNextCycle
  <2>1. First[t] \in 0..(Modulus - 1) /\ Modulus \in Nat \ {0}
    BY QuarterProperties
  <2>2. due[t] - tiOs = First[t]
    BY <2>1 DEF Init
  <2>3. First[t] % Modulus = First[t]
    BY <2>1
  <2> QED BY <2>1, <2>2, <2>3
<1>2. TypesInv /\ DueInNextCycle /\ [Next]_vars => DueInNextCycle'
  BY StepDue
<1> QED BY <1>1, <1>2, InitNested, StepNested, InitTypes, StepTypes, PTL DEF Spec
-----------------------------------------------------------------------------
(* Losses. *)

(* Those who have seen that the flag of t is set and will count it.        *)
OnTheWay(t) == {i \in 1..Len(frames) : frames[i].pc = "busy" /\ frames[i].target = t}
Counting(t) == Cardinality(OnTheWay(t))

(* What the counter is bound to be, with all of them, after a number of    *)
(* losses.                                                                 *)
Agrees(counted, losses) ==
  IF losses > MaxLoss THEN counted >= MaxLoss ELSE counted = losses

LossInv == \A t \in Task : Agrees(loss[t] + Counting(t), failed[t])

LEMMA CountingType ==
  ASSUME Nested(frames), NEW t
  PROVE  IsFiniteSet(OnTheWay(t)) /\ Counting(t) \in Nat
<1>1. OnTheWay(t) \subseteq 1..Len(frames) /\ Len(frames) \in Nat
  BY TopProperties DEF OnTheWay
<1>2. IsFiniteSet(1..Len(frames))
  BY <1>1, FS_Interval
<1> QED BY <1>1, <1>2, FS_Subset, FS_CardinalityType DEF Counting

(* The frame on top becomes f: it joins those who count, leaves them or    *)
(* does neither.                                                           *)
LEMMA ReplaceCounting ==
  ASSUME Nested(frames), NEW f, frames' = Append(Below, f), NEW t
  PROVE  /\ Top.pc # "busy" /\ f.pc # "busy" => Counting(t)' = Counting(t)
         /\ Top.pc # "busy" /\ f.pc = "busy"
              => Counting(t)' = Counting(t) + (IF f.target = t THEN 1 ELSE 0)
         /\ Top.pc = "busy" /\ f.pc # "busy"
              => Counting(t)' = Counting(t) - (IF Top.target = t THEN 1 ELSE 0)
         /\ Top.pc = f.pc /\ Top.target = f.target => Counting(t)' = Counting(t)
<1> DEFINE n == Len(frames)
<1>1. /\ Len(frames') = n /\ frames'[n] = f /\ Top = frames[n] /\ n \in Nat \ {0}
      /\ \A i \in 1..(n - 1) : frames'[i] = frames[i]
  BY Replaced, TopProperties
<1>2. \A i \in 1..n : i # n => i \in 1..(n - 1)
  BY <1>1
<1>3. IsFiniteSet(OnTheWay(t)) /\ Counting(t) \in Nat
  BY CountingType
<1>4. OnTheWay(t)' = {i \in 1..n : frames'[i].pc = "busy" /\ frames'[i].target = t}
  BY <1>1 DEF OnTheWay
<1>5. ASSUME (Top.pc = "busy" /\ Top.target = t) <=> (f.pc = "busy" /\ f.target = t)
      PROVE  Counting(t)' = Counting(t)
  <2>1. OnTheWay(t)' = OnTheWay(t)
    BY <1>1, <1>2, <1>4, <1>5 DEF OnTheWay
  <2> QED BY <2>1 DEF Counting
<1>6. ASSUME ~(Top.pc = "busy" /\ Top.target = t), f.pc = "busy" /\ f.target = t
      PROVE  Counting(t)' = Counting(t) + 1
  <2>1. OnTheWay(t)' = OnTheWay(t) \cup {n} /\ n \notin OnTheWay(t)
    BY <1>1, <1>2, <1>4, <1>6 DEF OnTheWay
  <2> QED BY <1>3, <2>1, FS_AddElement DEF Counting
<1>7. ASSUME Top.pc = "busy" /\ Top.target = t, ~(f.pc = "busy" /\ f.target = t)
      PROVE  Counting(t)' = Counting(t) - 1
  <2>1. OnTheWay(t)' = OnTheWay(t) \ {n} /\ n \in OnTheWay(t)
    BY <1>1, <1>2, <1>4, <1>7 DEF OnTheWay
  <2> QED BY <1>3, <2>1, FS_RemoveElement DEF Counting
<1> QED BY <1>3, <1>5, <1>6, <1>7

LEMMA PushCounting ==
  ASSUME Nested(frames), NEW a \in Actor, Accepts(Top, Level(a)), Enter(a), NEW t
  PROVE  Counting(t)' = Counting(t)
<1> DEFINE n == Len(frames)
<1>1. /\ Len(frames') = n + 1
      /\ frames'[n] = Interrupted(Top) /\ frames'[n + 1] = NewFrame(a)
      /\ \A i \in 1..(n - 1) : frames'[i] = frames[i]
  BY PushStep
<1>2. n \in Nat \ {0} /\ Top = frames[n] /\ Top \in FrameType
  BY TopProperties
<1>3. NewFrame(a).pc = "run" /\ Interrupted(Top).pc = Top.pc /\ Interrupted(Top).target = Top.target
  BY <1>2 DEF NewFrame, Interrupted, FrameType
<1>4. OnTheWay(t)' = {i \in 1..(n + 1) : frames'[i].pc = "busy" /\ frames'[i].target = t}
  BY <1>1 DEF OnTheWay
<1>5. \A i \in 1..(n + 1) : i = n + 1 \/ i = n \/ i \in 1..(n - 1)
  BY <1>2
<1>6. 1..n \subseteq 1..(n + 1) /\ n + 1 \notin 1..n /\ n \in 1..n /\ 1..(n - 1) \subseteq 1..n
  BY <1>2
<1>7. OnTheWay(t)' = OnTheWay(t)
  BY <1>1, <1>2, <1>3, <1>4, <1>5, <1>6 DEF OnTheWay
<1> QED BY <1>7 DEF Counting

LEMMA PopCounting ==
  ASSUME Nested(frames), Return, NEW t
  PROVE  Counting(t)' = Counting(t)
<1> DEFINE n == Len(frames)
<1>1. Len(frames') = n - 1 /\ \A i \in 1..(n - 1) : frames'[i] = frames[i]
  BY ReturnEndsNoIdle, PopStep
<1>2. n \in Nat \ {0} /\ Top = frames[n] /\ Top.pc # "busy"
  BY TopProperties DEF Return
<1>3. OnTheWay(t)' = {i \in 1..(n - 1) : frames'[i].pc = "busy" /\ frames'[i].target = t}
  BY <1>1 DEF OnTheWay
<1>4. \A i \in 1..n : i = n \/ i \in 1..(n - 1)
  BY <1>2
<1>5. 1..(n - 1) \subseteq 1..n
  BY <1>2
<1>6. OnTheWay(t)' = OnTheWay(t)
  BY <1>1, <1>2, <1>3, <1>4, <1>5 DEF OnTheWay
<1> QED BY <1>6 DEF Counting

(* The levels of a frame are those of the controller.                      *)
LEMMA LevelsAreInRange ==
  ASSUME NEW f \in FrameType, WellFormed(f)
  PROVE  f \in Frame
<1>1. Level(f.who) \in 0..TickLevel /\ TickLevel \in Nat /\ f.who \in Actor
  BY LevelType, SwIntAssumption DEF FrameType
<1>2. f.level \in 0..TickLevel /\ f.open \in 0..TickLevel
  <2>1. CASE f.pc \in {"run", "acked"}
    BY <1>1, <2>1 DEF WellFormed
  <2>2. CASE f.pc \in Section \cup {"raised"}
    <3>1. f.target \in Activates[f.who] /\ f.level = Higher(Level(f.who), Ceiling[f.target])
      BY <2>2 DEF WellFormed
    <3>2. Ceiling[f.target] \in 0..TickLevel
      BY <1>1, <3>1, SwIntAssumption
    <3>3. f.level \in 0..TickLevel
      BY <1>1, <3>1, <3>2 DEF Higher
    <3>4. f.open \in {f.level, Level(f.who)}
      BY <2>2 DEF WellFormed, Section
    <3> QED BY <1>1, <3>3, <3>4
  <2> QED BY <2>1, <2>2 DEF FrameType, PC, Section
<1> QED BY <1>2 DEF FrameType, Frame

(* What the counter misses beyond its maximum does not matter.             *)
LEMMA Saturates ==
  ASSUME NEW l \in 0..MaxLoss, NEW c \in Nat, NEW k \in Nat, Agrees(l + c, k)
  PROVE  /\ Agrees(Counted(l) + c, Noted(k))
         /\ Agrees(l + (c + 1), Noted(k))
         /\ c > 0 => Agrees(Counted(l) + (c - 1), k)
BY SwIntAssumption DEF Agrees, Counted, Noted

LEMMA StepLosses ==
  ASSUME StackInv, TypesInv, LossInv, [Next]_vars
  PROVE  LossInv'
<1>1. Nested(frames)
  BY DEF StackInv
<1>2. ASSUME NEW t \in Task
      PROVE  /\ loss[t] \in 0..MaxLoss /\ failed[t] \in Nat /\ Counting(t) \in Nat
             /\ Agrees(loss[t] + Counting(t), failed[t])
  BY <1>1, CountingType DEF TypesInv, LossInv
<1>3. ASSUME UNCHANGED <<loss, failed>>, \A t \in Task : Counting(t)' = Counting(t)
      PROVE  LossInv'
  BY <1>2, <1>3 DEF LossInv, Agrees
<1>4. CASE Tick
  <2> DEFINE over == {t \in Task : IsTimed(t)} \ {t \in {u \in Task : IsTimed(u)} : ~flag[t]}
  <2>1. /\ loss' = [t \in Task |-> IF t \in over THEN Counted(loss[t]) ELSE loss[t]]
        /\ failed' = [t \in Task |-> IF t \in over THEN Noted(failed[t]) ELSE failed[t]]
        /\ frames' = Append(Below, Interrupted(Top))
    BY <1>4 DEF Tick
  <2> HIDE DEF over
  <2>2. Interrupted(Top).pc = Top.pc /\ Interrupted(Top).target = Top.target
    BY <1>1, TopProperties DEF Interrupted, FrameType
  <2>3. ASSUME NEW t \in Task PROVE Counting(t)' = Counting(t)
    BY <1>1, <2>1, <2>2, ReplaceCounting
  <2>4. ASSUME NEW t \in Task PROVE Agrees(loss'[t] + Counting(t), failed'[t])
    <3>1. CASE t \in over
      BY <1>2, <2>1, <3>1, Saturates
    <3>2. CASE t \notin over
      BY <1>2, <2>1, <3>2
    <3> QED BY <3>1, <3>2
  <2> QED BY <2>3, <2>4 DEF LossInv, Agrees
<1>5. CASE ReadFlag
  <2> DEFINE f == [Top EXCEPT !.pc = IF flag[Top.target] THEN "busy" ELSE "free"]
             u == Top.target
  <2>1. /\ frames' = Append(Below, f) /\ Top.pc = "test" /\ loss' = loss
        /\ failed' = IF flag[u] THEN [failed EXCEPT ![u] = Noted(@)] ELSE failed
    BY <1>5 DEF ReadFlag, TopBecomes
  <2>2. u \in Task
    BY <1>1, <2>1, TargetIsTask DEF Section
  <2>3. f.target = u /\ f.pc = IF flag[u] THEN "busy" ELSE "free"
    BY <1>1, TopProperties DEF FrameType
  <2> HIDE DEF f, u
  <2>4. CASE flag[u]
    <3>1. ASSUME NEW t \in Task
          PROVE  Counting(t)' = Counting(t) + (IF u = t THEN 1 ELSE 0)
      BY <1>1, <2>1, <2>3, <2>4, ReplaceCounting
    <3>2. ASSUME NEW t \in Task PROVE Agrees(loss'[t] + Counting(t)', failed'[t])
      <4>1. CASE t = u
        <5>1. failed'[t] = Noted(failed[t]) /\ loss'[t] = loss[t] /\ Counting(t)' = Counting(t) + 1
          BY <2>1, <2>2, <2>4, <3>1, <4>1 DEF TypesInv
        <5> QED BY <1>2, <5>1, Saturates
      <4>2. CASE t # u
        <5>1. failed'[t] = failed[t] /\ loss'[t] = loss[t] /\ Counting(t)' = Counting(t)
          BY <1>2, <2>1, <2>2, <2>4, <3>1, <4>2 DEF TypesInv
        <5> QED BY <1>2, <5>1
      <4> QED BY <4>1, <4>2
    <3> QED BY <3>2 DEF LossInv, Agrees
  <2>5. CASE ~flag[u]
    BY <1>1, <1>3, <2>1, <2>3, <2>5, ReplaceCounting
  <2> QED BY <2>4, <2>5
<1>6. CASE CountLoss
  <2> DEFINE f == [Top EXCEPT !.pc = "leave"]
             u == Top.target
  <2>1. /\ frames' = Append(Below, f) /\ Top.pc = "busy" /\ failed' = failed
        /\ loss' = [loss EXCEPT ![u] = Counted(@)]
    BY <1>6 DEF CountLoss, TopBecomes
  <2>2. u \in Task
    BY <1>1, <2>1, TargetIsTask DEF Section
  <2>3. f.pc = "leave"
    BY <1>1, TopProperties DEF FrameType
  <2>4. ASSUME NEW t \in Task
        PROVE  Counting(t)' = Counting(t) - (IF u = t THEN 1 ELSE 0)
    BY <1>1, <2>1, <2>3, ReplaceCounting
  <2>5. Counting(u) > 0
    <3>1. Len(frames) \in OnTheWay(u)
      BY <1>1, <2>1, TopProperties DEF OnTheWay
    <3> QED BY <1>1, <3>1, CountingType, FS_EmptySet DEF Counting
  <2> HIDE DEF f, u
  <2>6. ASSUME NEW t \in Task PROVE Agrees(loss'[t] + Counting(t)', failed'[t])
    <3>1. CASE t = u
      <4>1. failed'[t] = failed[t] /\ loss'[t] = Counted(loss[t]) /\ Counting(t)' = Counting(t) - 1
        BY <2>1, <2>2, <2>4, <3>1 DEF TypesInv
      <4>2. Counting(t) > 0
        BY <2>5, <3>1
      <4> QED BY <1>2, <4>1, <4>2, Saturates
    <3>2. CASE t # u
      <4>1. failed'[t] = failed[t] /\ loss'[t] = loss[t] /\ Counting(t)' = Counting(t)
        BY <1>2, <2>1, <2>2, <2>4, <3>2 DEF TypesInv
      <4> QED BY <1>2, <4>1
    <3> QED BY <3>1, <3>2
  <2> QED BY <2>6 DEF LossInv, Agrees
<1>7. ASSUME NEW t \in Task, BeginCall(t) PROVE LossInv'
  <2> DEFINE g == [Top EXCEPT !.target = t, !.todo = IF Top.who = Idle THEN @ ELSE @ \ {t}]
             f == IF Ceiling[t] = 0 THEN [g EXCEPT !.pc = "test"] ELSE Raised(g, t)
  <2>1. frames' = Append(Below, f) /\ Top.pc = "run" /\ UNCHANGED <<loss, failed>>
    BY <1>7 DEF BeginCall, TopBecomes
  <2>2. f.pc # "busy"
    BY <1>1, TopProperties DEF Raised, FrameType
  <2> HIDE DEF f
  <2> QED BY <1>1, <1>3, <2>1, <2>2, ReplaceCounting
<1>8. CASE Synchronize
  <2> DEFINE f == [Top EXCEPT !.pc = "test", !.open = Top.level]
  <2>1. frames' = Append(Below, f) /\ Top.pc = "raised" /\ UNCHANGED <<loss, failed>>
    BY <1>8 DEF Synchronize, TopBecomes
  <2>2. f.pc # "busy"
    BY <1>1, TopProperties DEF FrameType
  <2> HIDE DEF f
  <2> QED BY <1>1, <1>3, <2>1, <2>2, ReplaceCounting
<1>9. CASE WriteFlag
  <2> DEFINE f == [Top EXCEPT !.pc = "leave"]
  <2>1. frames' = Append(Below, f) /\ Top.pc = "free" /\ UNCHANGED <<loss, failed>>
    BY <1>9 DEF WriteFlag, TopBecomes
  <2>2. f.pc # "busy"
    BY <1>1, TopProperties DEF FrameType
  <2> HIDE DEF f
  <2> QED BY <1>1, <1>3, <2>1, <2>2, ReplaceCounting
<1>10. CASE EndCall
  <2> DEFINE f == [Top EXCEPT !.pc = "run", !.target = 0,
                              !.level = ResumeLevel(Top), !.open = ResumeLevel(Top)]
  <2>1. frames' = Append(Below, f) /\ Top.pc = "leave" /\ UNCHANGED <<loss, failed>>
    BY <1>10 DEF EndCall, TopBecomes
  <2>2. f.pc # "busy"
    BY <1>1, TopProperties DEF FrameType
  <2> HIDE DEF f
  <2> QED BY <1>1, <1>3, <2>1, <2>2, ReplaceCounting
<1>11. CASE Acknowledge
  <2> DEFINE f == [Top EXCEPT !.pc = "acked"]
  <2>1. frames' = Append(Below, f) /\ Top.pc = "run" /\ UNCHANGED <<loss, failed>>
    BY <1>11 DEF Acknowledge, TopBecomes
  <2>2. f.pc # "busy"
    BY <1>1, TopProperties DEF FrameType
  <2> HIDE DEF f
  <2> QED BY <1>1, <1>3, <2>1, <2>2, ReplaceCounting
<1>12. CASE Return
  <2>1. UNCHANGED <<loss, failed>>
    BY <1>12 DEF Return
  <2> QED BY <1>1, <1>3, <1>12, <2>1, PopCounting
<1>13. ASSUME NEW t \in Task, StartTask(t) PROVE LossInv'
  <2>1. Accepts(Top, Level(t)) /\ Enter(t) /\ t \in Actor /\ UNCHANGED <<loss, failed>>
    BY <1>13, TaskLevel DEF StartTask
  <2> QED BY <1>1, <1>3, <2>1, PushCounting
<1>14. ASSUME NEW i \in Isr, StartIsr(i) PROVE LossInv'
  <2>1. Accepts(Top, Level(i)) /\ Enter(i) /\ i \in Actor /\ UNCHANGED <<loss, failed>>
    BY <1>14, IsrLevel DEF StartIsr
  <2> QED BY <1>1, <1>3, <2>1, PushCounting
<1>15. CASE UNCHANGED vars
  <2>1. UNCHANGED <<frames, loss, failed>>
    BY <1>15 DEF vars
  <2> QED BY <1>3, <2>1 DEF Counting, OnTheWay
<1> QED BY <1>4, <1>5, <1>6, <1>7, <1>8, <1>9, <1>10, <1>11, <1>12, <1>13, <1>14, <1>15
        DEF Next, Run

(* The loss counter, incremented by tasks, interrupts and the timer, in    *)
(* steps that others can preempt, misses no lost activation and stops at   *)
(* its maximum, whatever protects the calls.                               *)
THEOREM NoLossIsMissed == Spec => []LossesCounted
<1>1. Init => LossInv
  <2> SUFFICES ASSUME Init PROVE LossInv
    OBVIOUS
  <2>1. frames = << NewFrame(Idle) >> /\ NewFrame(Idle).pc = "run"
    BY DEF Init, NewFrame
  <2>2. \A t \in Task : OnTheWay(t) = {}
    BY <2>1 DEF OnTheWay
  <2>3. \A t \in Task : Counting(t) = 0 /\ loss[t] = 0 /\ failed[t] = 0
    BY <2>2, FS_EmptySet DEF Counting, Init
  <2> QED BY <2>3, SwIntAssumption DEF LossInv, Agrees
<1>2. (StackInv /\ TypesInv) /\ LossInv /\ [Next]_vars => LossInv'
  BY StepLosses
<1>3. StackInv /\ TypesInv /\ LossInv => LossesCounted
  <2> SUFFICES ASSUME Nested(frames), TypesInv, LossInv PROVE LossesCounted
    BY DEF StackInv
  <2>1. frames \in Seq(Frame) /\ frames # <<>>
    <3>1. ASSUME NEW i \in 1..Len(frames) PROVE frames[i] \in Frame
      <4>1. frames[i] \in FrameType /\ WellFormed(frames[i])
        BY DEF Nested
      <4> QED BY <4>1, LevelsAreInRange
    <3> QED BY <3>1 DEF Nested
  <2>2. ASSUME NEW t \in Task
        PROVE  {i \in DOMAIN frames : frames[i].pc = "busy" /\ frames[i].target = t} = OnTheWay(t)
    BY DEF Nested, OnTheWay
  <2> QED BY <2>1, <2>2 DEF LossesCounted, TypeOK, TypesInv, LossInv, Agrees, Counting
<1> QED BY <1>1, <1>2, <1>3, InitNested, StepNested, InitTypes, StepTypes, PTL DEF Spec
=============================================================================
