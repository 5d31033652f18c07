--------------------------- MODULE SwIntScheduler ---------------------------
(***************************************************************************)
(* The RTOS that leaves scheduling to the interrupt controller: each task  *)
(* is the service routine of one of the software interrupts of the INTC,   *)
(* its flag CLRi is set to make it ready and cleared when it has run.      *)
(* Modelled from LSM/RTOS-VLE/code/RTOS/rtos.c, rtos.h and the interrupt   *)
(* handler int_INTCInterruptHandler.S (LSM/RTOS holds the Book E variant). *)
(*                                                                         *)
(* frames is the stack of what is running: the idle task at the bottom,    *)
(* then tasks and application interrupts that preempt each other. The      *)
(* timer interrupt has the highest level and can't be preempted: it is one *)
(* step. A step of the others is what they do between two accesses to      *)
(* state they share.                                                       *)
(***************************************************************************)
EXTENDS Integers, Sequences, FiniteSets, SequencesExt

CONSTANTS
  NoTasks,         (* _noTasks, after registration                         *)
  Prio,            (* task -> taskDesc.priority                            *)
  Cycle,           (* task -> taskDesc.tiCycleInMs, 0: not cyclic          *)
  First,           (* task -> tiFirstActivationInMs                        *)
  Isr,             (* application interrupts                               *)
  IsrPrio,         (* their levels in the INTC                             *)
  TickLevel,       (* level of the timer interrupt, 15                     *)
  Activates,       (* what runs -> tasks it passes to rtos_activateTask    *)
  Ceiling,         (* task -> level of the critical section its activation *)
                   (* is placed in, 0: no critical section                 *)
  Width,           (* number of bits of the times, 32                      *)
  MaxLoss          (* UINT_MAX, where the loss counter saturates           *)

Task == 1..NoTasks                   (* task i is idTask i - 1             *)
Idle == 0
Actor == {Idle} \cup Task \cup Isr

Modulus == 2 ^ Width
Time == 0..(Modulus - 1)

(* The level an actor starts at: what the INTC writes to CPR.              *)
Level(a) == IF a = Idle THEN 0 ELSE IF a \in Task THEN Prio[a] ELSE IsrPrio[a]

(* The checks of rtos_registerTask. Times have the two upper bits clear.   *)
Registered(t) ==
  /\ Prio[t] \in 1..TickLevel
  /\ Cycle[t] \in 0..(2 ^ (Width - 2) - 1)
  /\ First[t] \in 0..(2 ^ (Width - 2) - 1)
  /\ Cycle[t] = 0 => First[t] = 0

ASSUME SwIntAssumption ==
  /\ NoTasks \in 0..8
  /\ Width \in Nat /\ Width >= 2
  /\ TickLevel \in Nat
  /\ MaxLoss \in Nat
  /\ Isr \cap ({Idle} \cup Task) = {}
  /\ Prio \in [Task -> Nat] /\ Cycle \in [Task -> Nat] /\ First \in [Task -> Nat]
  /\ \A t \in Task : Registered(t)
  /\ IsrPrio \in [Isr -> 1..(TickLevel - 1)]
  /\ Ceiling \in [Task -> 0..TickLevel]
  /\ Activates \in [Actor -> SUBSET Task]

(* What the operator ^ makes of it: the quarter of the range that a cycle  *)
(* does not reach.                                                         *)
ASSUME WidthAssumption ==
  2 ^ (Width - 2) \in Nat \ {0} /\ Modulus = 4 * 2 ^ (Width - 2)

VARIABLES
  frames,          (* what runs, the innermost one last                    *)
  flag,            (* CLRi of each task: ready or running                  *)
  due,             (* tiDue                                                *)
  tiOs,            (* tiOs_                                                *)
  loss,            (* noActivationLoss                                     *)
  owed,            (* ghost: activations accepted, not yet executed        *)
  failed           (* ghost: activations not accepted                      *)

vars == <<frames, flag, due, tiOs, loss, owed, failed>>

(* pc of a frame: application code; critical section requested, not yet    *)
(* begun; flag to be read; flag seen clear; flag seen set; to leave the    *)
(* critical section; flag of the task cleared, return to the preempted one.*)
PC == {"run", "raised", "test", "free", "busy", "leave", "acked"}

(* level: CPR while the frame is on top. open: requests above this level   *)
(* are taken; it is still lower than level for a request that the INTC had *)
(* passed on before CPR was raised. todo: the tasks it will activate, each *)
(* once in a run.                                                          *)
Frame == [who : Actor, pc : PC, target : {0} \cup Task, level : 0..TickLevel,
          open : 0..TickLevel, todo : SUBSET Task]

NewFrame(a) == [who |-> a, pc |-> "run", target |-> 0, level |-> Level(a),
                open |-> Level(a), todo |-> Activates[a]]

Top == Last(frames)
Below == Front(frames)

Init ==
  /\ frames = << NewFrame(Idle) >>
  /\ flag = [t \in Task |-> FALSE]
  /\ due = First
  /\ tiOs = 0
  /\ loss = [t \in Task |-> 0]
  /\ owed = [t \in Task |-> 0]
  /\ failed = [t \in Task |-> 0]

(* A request of this level interrupts f; there is only one such request    *)
(* that was passed on before CPR was raised.                               *)
Accepts(f, level) == level > f.open
Interrupted(f) == [f EXCEPT !.open = f.level]

-----------------------------------------------------------------------------
(* Activation. A definition directly in front of the one it varies is a    *)
(* plausible mistake in the code, not part of the model.                   *)

(* ++noActivationLoss, unless it wraps to zero.                            *)
CountedWrapping(n) == (n + 1) % (MaxLoss + 1)
Counted(n) == IF n < MaxLoss THEN n + 1 ELSE n

(* The ghost stops at more than the counter can hold.                      *)
Noted(n) == IF n > MaxLoss THEN n ELSE n + 1

(* (signed int)(tiDue - tiOs) <= 0.                                        *)
IsDueUnsigned(t) == due[t] <= tiOs
IsDue(t) == (due[t] - tiOs) % Modulus \in {0} \cup (Modulus \div 2)..(Modulus - 1)

IsTimed(t) == Cycle[t] > 0 /\ IsDue(t)

(* rtos_onOsTimerTick: the tasks that are due are made ready or, when they *)
(* are still busy, counted; in both cases they are due again a cycle later.*)
Tick ==
  LET timed == {t \in Task : IsTimed(t)}
      new == {t \in timed : ~flag[t]}
      over == timed \ new
  IN /\ Accepts(Top, TickLevel)
     /\ flag' = [t \in Task |-> flag[t] \/ t \in new]
     /\ owed' = [t \in Task |-> owed[t] + (IF t \in new THEN 1 ELSE 0)]
     /\ loss' = [t \in Task |-> IF t \in over THEN Counted(loss[t]) ELSE loss[t]]
     /\ failed' = [t \in Task |-> IF t \in over THEN Noted(failed[t]) ELSE failed[t]]
     /\ due' = [t \in Task |-> IF t \in timed THEN (due[t] + Cycle[t]) % Modulus
                               ELSE due[t]]
     /\ tiOs' = (tiOs + 1) % Modulus
     /\ frames' = Append(Below, Interrupted(Top))

(* What runs on top takes a step and is then as f says.                    *)
TopBecomes(f) == frames' = Append(Below, f)

(* rtos_suspendAllInterruptsByPriority: CPR is raised, never lowered. The  *)
(* critical section begins after the synchronization.                      *)
Higher(x, y) == IF x > y THEN x ELSE y
RaisedUnsynchronized(f, t) ==
  [f EXCEPT !.pc = "test", !.open = f.level, !.level = Higher(@, Ceiling[t])]
RaisedToTarget(f, t) ==
  [f EXCEPT !.pc = "raised", !.open = f.level, !.level = Higher(@, Prio[t])]
Raised(f, t) ==
  [f EXCEPT !.pc = "raised", !.open = f.level, !.level = Higher(@, Ceiling[t])]

(* An actor is about to call rtos_activateTask(t). The idle task does it   *)
(* over and over again.                                                    *)
BeginCall(t) ==
  LET f == [Top EXCEPT !.target = t,
                       !.todo = IF Top.who = Idle THEN @ ELSE @ \ {t}]
  IN /\ Top.pc = "run"
     /\ t \in Top.todo
     /\ TopBecomes(IF Ceiling[t] = 0 THEN [f EXCEPT !.pc = "test"] ELSE Raised(f, t))
     /\ UNCHANGED <<flag, due, tiOs, loss, owed, failed>>

Synchronize ==
  /\ Top.pc = "raised"
  /\ TopBecomes([Top EXCEPT !.pc = "test", !.open = Top.level])
  /\ UNCHANGED <<flag, due, tiOs, loss, owed, failed>>

(* The flag is read, and written or not in a later step.                   *)
ReadFlag ==
  LET t == Top.target
  IN /\ Top.pc = "test"
     /\ TopBecomes([Top EXCEPT !.pc = IF flag[t] THEN "busy" ELSE "free"])
     /\ failed' = IF flag[t] THEN [failed EXCEPT ![t] = Noted(@)] ELSE failed
     /\ UNCHANGED <<flag, due, tiOs, loss, owed>>

WriteFlag ==
  /\ Top.pc = "free"
  /\ flag' = [flag EXCEPT ![Top.target] = TRUE]
  /\ owed' = [owed EXCEPT ![Top.target] = @ + 1]
  /\ TopBecomes([Top EXCEPT !.pc = "leave"])
  /\ UNCHANGED <<due, tiOs, loss, failed>>

(* Here the counter is updated with all interrupts locked.                 *)
CountLoss ==
  /\ Top.pc = "busy"
  /\ loss' = [loss EXCEPT ![Top.target] = Counted(@)]
  /\ TopBecomes([Top EXCEPT !.pc = "leave"])
  /\ UNCHANGED <<flag, due, tiOs, owed, failed>>

(* rtos_resumeAllInterruptsByPriority: back to the level at entry.         *)
ResumeNot(f) == f.level
ResumeLevel(f) == Level(f.who)

EndCall ==
  /\ Top.pc = "leave"
  /\ TopBecomes([Top EXCEPT !.pc = "run", !.target = 0,
                            !.level = ResumeLevel(Top), !.open = ResumeLevel(Top)])
  /\ UNCHANGED <<flag, due, tiOs, loss, owed, failed>>

-----------------------------------------------------------------------------
(* Run of a task or interrupt.                                             *)

(* The INTC chooses the highest level, among equals the first vector.      *)
Precedes(t, u) == Prio[t] > Prio[u] \/ (Prio[t] = Prio[u] /\ t < u)

(* Software interrupts, as any others, are requested as long as the flag   *)
(* is set and served when their level is above that of what is running.    *)
Enter(a) == frames' = Below \o << Interrupted(Top), NewFrame(a) >>

StartTask(t) ==
  /\ flag[t]
  /\ Accepts(Top, Prio[t])
  /\ \A u \in Task \ {t} : flag[u] => Precedes(t, u)
  /\ Enter(t)
  /\ UNCHANGED <<flag, due, tiOs, loss, owed, failed>>

StartIsr(i) ==
  /\ Accepts(Top, IsrPrio[i])
  /\ Enter(i)
  /\ UNCHANGED <<flag, due, tiOs, loss, owed, failed>>

(* The task function has returned: ACKN_ISR clears the flag, the accepted  *)
(* activation is thereby done.                                             *)
Acknowledge ==
  /\ Top.who \in Task
  /\ Top.pc = "run"
  /\ flag' = [flag EXCEPT ![Top.who] = FALSE]
  /\ owed' = [owed EXCEPT ![Top.who] = @ - 1]
  /\ TopBecomes([Top EXCEPT !.pc = "acked"])
  /\ UNCHANGED <<due, tiOs, loss, failed>>

(* int_INTCInterruptHandler writes EOIR and returns: the INTC restores the *)
(* level that was set when the interrupt was taken.                        *)
Return ==
  /\ \/ Top.pc = "acked"
     \/ Top.who \in Isr /\ Top.pc = "run"
  /\ frames' = Below
  /\ UNCHANGED <<flag, due, tiOs, loss, owed, failed>>

(* The step of the code that has the CPU.                                  *)
Run ==
  \/ \E t \in Task : BeginCall(t)
  \/ Synchronize
  \/ ReadFlag
  \/ WriteFlag
  \/ CountLoss
  \/ EndCall
  \/ Acknowledge
  \/ Return

Next ==
  \/ Tick
  \/ Run
  \/ \E t \in Task : StartTask(t)
  \/ \E i \in Isr : StartIsr(i)

Spec == Init /\ [][Next]_vars

(* The CPU runs the code on top, and it does not for ever leave a request  *)
(* alone that it could serve again and again.                              *)
LiveSpec == Spec /\ WF_vars(Run) /\ \A t \in Task : SF_vars(StartTask(t))

-----------------------------------------------------------------------------
(* Properties.                                                             *)

TypeOK ==
  /\ frames \in Seq(Frame) /\ frames # <<>>
  /\ flag \in [Task -> BOOLEAN]
  /\ due \in [Task -> Time]
  /\ tiOs \in Time
  /\ loss \in [Task -> 0..MaxLoss]
  /\ owed \in [Task -> Int]
  /\ failed \in [Task -> Nat]

(* While code is in a critical section of level c, nothing has come on top *)
(* of it that had not to be above c: the request that was on its way when  *)
(* CPR was raised is served before the section begins.                     *)
SectionIsExclusive ==
  \A i, j \in DOMAIN frames :
    /\ i < j
    /\ frames[i].pc \in {"test", "free", "busy", "leave"}
    => Level(frames[j].who) > frames[i].level

(* The flag of a running task is set all the time and its level keeps it   *)
(* from being taken a second time: no task or interrupt preempts itself.   *)
NeverReentered ==
  \A i, j \in DOMAIN frames : i < j => frames[i].who # frames[j].who

(* Both of it: preemption excludes what the levels are made to exclude.    *)
PreemptedFromAbove == SectionIsExclusive /\ NeverReentered

(* The restriction on callers of rtos_activateTask that rtos.c:561-565 asks*)
(* for, extended to the timer interrupt (line 603): whoever else could     *)
(* activate the same task is excluded by the critical section or below.    *)
Protected ==
  \A a \in Actor : \A t \in Activates[a] :
    LET level == Higher(Level(a), Ceiling[t])
    IN /\ Cycle[t] > 0 => level >= TickLevel
       /\ \A b \in Actor \ {a} : t \in Activates[b] => level >= Level(b)

(* An activation that was accepted is executed, and once: the flag stands  *)
(* for exactly one run that is still to be completed.                      *)
AcceptedAreExecuted ==
  \A t \in Task : owed[t] = IF flag[t] THEN 1 ELSE 0

(* The loss counter, which tasks, interrupts and the timer write, misses   *)
(* no failing activation and never starts over. All variables have their   *)
(* types, the counter is one of them.                                      *)
LossesCounted ==
  /\ TypeOK
  /\ \A t \in Task :
       LET onTheWay == {i \in DOMAIN frames : frames[i].pc = "busy" /\ frames[i].target = t}
           counted == loss[t] + Cardinality(onTheWay)
       IN IF failed[t] > MaxLoss THEN counted >= MaxLoss ELSE counted = failed[t]

(* The due time of a cyclic task is never behind the clock and not further *)
(* ahead than its cycle (its first activation at the beginning), also when *)
(* the 32 Bit clock or the due time has wrapped.                           *)
DueInNextCycle ==
  \A t \in Task : Cycle[t] > 0 =>
    LET ahead == (due[t] - tiOs) % Modulus
    IN ahead < Cycle[t] \/ ahead <= First[t]

(* When no more interrupts come in and the idle task doesn't activate any  *)
(* task, all tasks become inactive again.                                  *)
Load == Tick \/ (\E i \in Isr : StartIsr(i)) \/ (Top.who = Idle /\ WriteFlag)
AllServedAtLast ==
  <>[][~Load]_vars => \A t \in Task : []<>(~flag[t])
=============================================================================
