--------------------------- MODULE SafeScheduler ---------------------------
(***************************************************************************)
(* The task scheduler of safe-RTOS-VLE: rtos_scheduler.c together with the *)
(* assembly code that enters and leaves it (external interrupt IVOR #4,    *)
(* start and end of a user task, the priority ceiling protocol).           *)
(*                                                                         *)
(* safe-RTOS runs everything on one CPU and one supervisor stack. A context*)
(* that preempts another one is put on top of it, and the scheduler itself *)
(* is a C function whose invocations nest on that stack. The model keeps   *)
(* this stack explicitly: a sequence of frames, the last one executing.    *)
(*                                                                         *)
(*   idle   the code behind rtos_osInitKernel(), always at the bottom      *)
(*   sched  an invocation of rtos_osProcessTriggeredEvents()               *)
(*   task   a task function, OS or user mode                               *)
(*   isr    rtos_ivor4Handler and the interrupt service routine it calls   *)
(*                                                                         *)
(* Code that runs with MSR[EE]=0 (a critical section) is one step.         *)
(***************************************************************************)
EXTENDS Integers, Sequences

CONSTANTS
  NoEvents,        (* rtos_noEvents: number of created events              *)
  Priority,        (* event -> its priority; the array is kept sorted      *)
  Tasks,           (* event -> sequence of "os" | "user", its taskAry      *)
  MaxPriority,     (* RTOS_MAX_TASK_PRIORITY                               *)
  MaxLockable,     (* RTOS_MAX_LOCKABLE_TASK_PRIORITY                      *)
  Ceilings,        (* levels the tasks pass to the PCP functions           *)
  Irqs,            (* INTC vectors in use                                  *)
  IrqLevel,        (* vector -> INTC priority 1..15                        *)
  Preemptable,     (* vectors whose handler is entered with MSR[EE]=1      *)
  IrqEvents,       (* vector -> events its handler triggers                *)
  TaskEvents,      (* event (or Guard: idle) -> events its tasks trigger   *)
  Params,          (* values of a task parameter                           *)
  InitParam,       (* the one all events are created with                  *)
  MaxLoss          (* UINT_MAX, where the activation loss saturates        *)

Event == 1..NoEvents

(* The terminating element of rtos_eventAry: priority 0 ends every search. *)
Guard == NoEvents + 1

(* rtos_pNextEventToSchedule = -1: a pointer behind all elements.          *)
Unset == NoEvents + 2

ASSUME EventAssumption ==
  /\ NoEvents \in Nat \ {0}
  /\ MaxPriority \in Nat \ {0}
  /\ MaxLockable \in 0..MaxPriority
  /\ Priority \in [Event -> 1..MaxPriority]
  /\ \A d, e \in Event : d < e => Priority[d] >= Priority[e]
  /\ Tasks \in [Event -> Seq({"os", "user"}) \ {<<>>}]
  /\ Ceilings \subseteq 1..MaxPriority

ASSUME TriggerAssumption ==
  /\ Irqs \subseteq Nat
  /\ IrqLevel \in [Irqs -> 1..15]
  /\ Preemptable \subseteq Irqs
  /\ IrqEvents \in [Irqs -> SUBSET Event]
  /\ TaskEvents \in [1..Guard -> SUBSET Event]
  /\ InitParam \in Params
  /\ MaxLoss \in Nat

VARIABLES
  stack,           (* the nested execution contexts, the running one last  *)
  ee,              (* MSR[EE]: external interrupts are accepted            *)
  evState,         (* eventDesc_t.state                                    *)
  taskParam,       (* eventDesc_t.taskParam                                *)
  loss,            (* eventDesc_t.noActivationLoss                         *)
  currentPrio,     (* rtos_currentPrio                                     *)
  currentEvent,    (* rtos_pCurrentEvent                                   *)
  pNext            (* rtos_pNextEventToSchedule                            *)

vars == <<stack, ee, evState, taskParam, loss, currentPrio, currentEvent, pNext>>

-----------------------------------------------------------------------------
(* A definition that stands directly in front of the one it varies         *)
(* (EventBelowPriority before EventByPriority, AcceptBusy before Accept...)*)
(* is a plausible mistake in the code. It is not part of the model: TLC    *)
(* puts it in the place of its successor to see that a property fails.     *)

(* The sorted table of events. *)

Prio(e) == IF e = Guard THEN 0 ELSE Priority[e]

First(S) == CHOOSE x \in S : \A y \in S : x <= y

(* rtos_mapPrioToEvent: the most urgent event not above level p.           *)
EventBelowPriority(p) == First({e \in 1..Guard : Prio(e) < p})
EventByPriority(p) == First({e \in 1..Guard : Prio(e) <= p})

(* pNextScheduledEvent: where the search goes on after event e was served. *)
(* The first of a group of same priority leads to its successor, all the   *)
(* others lead back to the first of the group.                             *)
NextInTable(e) == e + 1
NextScheduled(e) ==
  LET group == {x \in Event : Priority[x] = Priority[e]}
  IN  IF e = First(group) THEN e + 1 ELSE First(group)

(* The hits of the search that starts at e and ends at the first event not *)
(* above level p.                                                          *)
DueFromSame(e, p) == {x \in Event : x >= e /\ Prio(x) >= p /\ evState[x] = "triggered"}
DueFrom(e, p) == {x \in Event : x >= e /\ Prio(x) > p /\ evState[x] = "triggered"}

-----------------------------------------------------------------------------
(* Frames.                                                                 *)
(*   ev     task: the event it serves; sched: pEvent; else Guard           *)
(*   prio   rtos_currentPrio when the context was entered: prioAtEntry of  *)
(*          the scheduler, RUT_O_CPR of a user task                        *)
(*   hint   task: first event to look at when a ceiling is given back      *)
(*          sched: rtos_pCurrentEvent to be restored                       *)
(*   n      sched: tasks started so far; task: its index; isr: the vector  *)
(*   arg    sched: the parameter handed to the tasks                       *)
(*   lock   the level the context has established and relies on. The code  *)
(*          has no such variable, it is what the context itself knows      *)
Frame(kind, pc, ev, hint, n, lock) ==
  [kind |-> kind, pc |-> pc, ev |-> ev, prio |-> lock, hint |-> hint,
   n |-> n, arg |-> InitParam, lock |-> lock]

IdleFrame == Frame("idle", "run", Guard, Guard, 0, 0)
SchedFrame(e) == Frame("sched", "enter", e, currentEvent, 0, currentPrio)
TaskFrame(e, k) == Frame("task", "run", e, Guard, k, currentPrio)
IsrFrame(i) == Frame("isr", "run", Guard, Guard, i, currentPrio)

Top == stack[Len(stack)]
Front(s) == SubSeq(s, 1, Len(s) - 1)
WithTop(f) == [stack EXCEPT ![Len(stack)] = f]

InTaskCode == Top.kind \in {"idle", "task"} /\ Top.pc = "run"
InTask(class) == Top.kind = "task" /\ Top.pc = "run" /\ Tasks[Top.ev][Top.n] = class

(* Call of rtos_osProcessTriggeredEvents(e): the caller waits at pc.       *)
CallScheduler(e, pc) ==
  /\ stack' = Append(WithTop([Top EXCEPT !.pc = pc]), SchedFrame(e))
  /\ ee' = FALSE

Init ==
  /\ stack = <<IdleFrame>>
  /\ ee = TRUE
  /\ evState = [e \in Event |-> "idle"]
  /\ taskParam = [e \in Event |-> InitParam]
  /\ loss = [e \in Event |-> 0]
  /\ currentPrio = 0
  /\ currentEvent = Guard
  /\ pNext = Unset

-----------------------------------------------------------------------------
(* osTriggerEvent, one critical section.                                   *)

(* The event is idle: it accepts the trigger and its parameter.            *)
AcceptBusy(e, p) ==
  /\ evState[e] # "triggered"
  /\ evState' = [evState EXCEPT ![e] = "triggered"]
  /\ taskParam' = [taskParam EXCEPT ![e] = p]
  /\ UNCHANGED loss
Accept(e, p) ==
  /\ evState[e] = "idle"
  /\ evState' = [evState EXCEPT ![e] = "triggered"]
  /\ taskParam' = [taskParam EXCEPT ![e] = p]
  /\ UNCHANGED loss

(* The event is still busy: the trigger is lost and counted, saturated.    *)
RefuseWrapping(e) ==
  /\ evState[e] # "idle"
  /\ loss' = [loss EXCEPT ![e] = @ + 1]
  /\ UNCHANGED <<evState, taskParam>>
Refuse(e) ==
  /\ evState[e] # "idle"
  /\ loss' = [loss EXCEPT ![e] = IF @ < MaxLoss THEN @ + 1 ELSE @]
  /\ UNCHANGED <<evState, taskParam>>

(* The request an ISR leaves behind: the most urgent event it triggered.   *)
PostponeLast(e) == IF Prio(e) > currentPrio THEN e ELSE pNext
PostponeFirst(e) == IF Prio(e) > currentPrio /\ pNext = Unset THEN e ELSE pNext
Postpone(e) == IF Prio(e) > currentPrio /\ e < pNext THEN e ELSE pNext

(* Called from an ISR: the scheduler call is postponed until its end. The  *)
(* timer tick (checkEventDue) passes no parameter and keeps the old one.   *)
IsrTrigger(e, p) ==
  /\ Top.kind = "isr" /\ Top.pc = "run"
  /\ e \in IrqEvents[Top.n]
  /\ \/ /\ Accept(e, p)
        /\ pNext' = Postpone(e)
     \/ /\ Refuse(e)
        /\ UNCHANGED pNext
  /\ UNCHANGED <<stack, ee, currentPrio, currentEvent>>

(* Called from a task or the idle task, directly or by system call: an     *)
(* event of higher priority is scheduled before the function returns.      *)
TaskTrigger(e, p) ==
  /\ InTaskCode
  /\ e \in TaskEvents[Top.ev]
  /\ \/ /\ Accept(e, p)
        /\ IF Prio(e) > currentPrio
           THEN CallScheduler(e, "call")
           ELSE UNCHANGED <<stack, ee>>
     \/ /\ Refuse(e)
        /\ UNCHANGED <<stack, ee>>
  /\ UNCHANGED <<currentPrio, currentEvent, pNext>>

-----------------------------------------------------------------------------
(* rtos_ivor4Handler.                                                      *)

(* Interrupts that have not been acknowledged yet hold the INTC at their   *)
(* priority (INTC_CPR).                                                    *)
Unfinished(s) == {i \in 1..Len(s) : s[i].kind = "isr" /\ s[i].pc = "run"}

IrqEnter(i) ==
  /\ ee
  /\ \A j \in Unfinished(stack) : IrqLevel[stack[j].n] < IrqLevel[i]
  /\ stack' = Append(stack, IsrFrame(i))
  /\ ee' = (i \in Preemptable)
  /\ UNCHANGED <<evState, taskParam, loss, currentPrio, currentEvent, pNext>>

(* The handler returns, end of interrupt is written: only the last of all  *)
(* nested interrupts serves a postponed call of the scheduler.             *)
SchedulerIsDueNested(s) == pNext # Unset
SchedulerIsDue(s) == pNext # Unset /\ Unfinished(s) = {}

IsrExit ==
  /\ Top.kind = "isr" /\ Top.pc = "run"
  /\ IF SchedulerIsDue(Front(stack))
     THEN /\ pNext' = Unset
          /\ CallScheduler(pNext, "call")
     ELSE /\ stack' = Front(stack)
          /\ ee' = TRUE
          /\ UNCHANGED pNext
  /\ UNCHANGED <<evState, taskParam, loss, currentPrio, currentEvent>>

-----------------------------------------------------------------------------
(* rtos_osProcessTriggeredEvents.                                          *)

InScan == Top.kind = "sched" /\ Top.pc \in {"enter", "scan"}
InLaunch == Top.kind = "sched" /\ Top.pc = "launch"

(* The search hits a triggered event: acknowledge it, take its priority    *)
(* and leave the critical section.                                         *)
SchedLaunch ==
  /\ InScan
  /\ DueFrom(Top.ev, Top.prio) # {}
  /\ LET e == First(DueFrom(Top.ev, Top.prio)) IN
       /\ evState' = [evState EXCEPT ![e] = "inProgress"]
       /\ currentEvent' = e
       /\ currentPrio' = Prio(e)
       /\ stack' = WithTop([Top EXCEPT !.pc = "launch", !.ev = e, !.n = 0,
                                       !.arg = taskParam[e], !.lock = Prio(e)])
  /\ ee' = TRUE
  /\ UNCHANGED <<taskParam, loss, pNext>>

(* launchAllTasksOfEvent starts the next task of the event.                *)
LaunchTask ==
  /\ InLaunch
  /\ Top.n < Len(Tasks[Top.ev])
  /\ stack' = Append(WithTop([Top EXCEPT !.n = @ + 1]), TaskFrame(Top.ev, Top.n + 1))
  /\ UNCHANGED <<ee, evState, taskParam, loss, currentPrio, currentEvent, pNext>>

(* All tasks are done: release the event inside the next critical section. *)
EventDone ==
  /\ InLaunch
  /\ Top.n = Len(Tasks[Top.ev])
  /\ evState' = [evState EXCEPT ![Top.ev] = "idle"]
  /\ stack' = WithTop([Top EXCEPT !.pc = "scan", !.ev = NextScheduled(@), !.n = 0,
                                  !.arg = InitParam, !.lock = Top.prio])
  /\ ee' = FALSE
  /\ UNCHANGED <<taskParam, loss, currentPrio, currentEvent, pNext>>

(* What is left when the scheduler returns into the context below it: an   *)
(* ISR returns from interrupt and an ended user task is gone, too.         *)
ReturnInto(s) ==
  LET caller == s[Len(s)] IN
  IF caller.kind = "isr" \/ caller.pc = "endCall"
  THEN Front(s)
  ELSE [s EXCEPT ![Len(s)] = [caller EXCEPT !.pc = "run"]]

(* Nothing left above the priority at entry: restore it and return. The    *)
(* caller leaves the critical section, with its rfi at the latest.         *)
SchedReturn ==
  /\ InScan
  /\ DueFrom(Top.ev, Top.prio) = {}
  /\ currentEvent' = Top.hint
  /\ currentPrio' = Top.prio
  /\ stack' = ReturnInto(Front(stack))
  /\ ee' = TRUE
  /\ UNCHANGED <<evState, taskParam, loss, pNext>>

-----------------------------------------------------------------------------
(* Priority ceiling protocol and end of a task.                            *)

(* rtos_osSuspendAllTasksByPriority, rtos_suspendAllTasksByPriority. A     *)
(* level not above the current one has no effect; a user task is aborted   *)
(* (UserTaskEnd) if it asks for more than the lockable maximum.            *)
Suspend(level) ==
  /\ InTask("os") \/ (InTask("user") /\ level <= MaxLockable)
  /\ level > currentPrio
  /\ currentPrio' = level
  /\ stack' = WithTop([Top EXCEPT !.lock = level])
  /\ UNCHANGED <<ee, evState, taskParam, loss, currentEvent, pNext>>

(* Give the ceiling back down to level: the priority is lowered while      *)
(* interrupts are (or are about to be) enabled, the scheduler is called    *)
(* only by the next step, Reschedule, starting at event e.                 *)
LowerTo(level, e, pc) ==
  /\ currentPrio' = level
  /\ stack' = WithTop([Top EXCEPT !.pc = pc, !.hint = e, !.lock = level])
  /\ UNCHANGED <<ee, evState, taskParam, loss, currentEvent, pNext>>

(* rtos_osResumeAllTasksByPriority: an OS task is expected not to go below *)
(* the priority it was started with.                                       *)
OsResume(level) ==
  /\ InTask("os")
  /\ level \in Top.prio..(currentPrio - 1)
  /\ LowerTo(level, EventByPriority(currentPrio), "release")

(* rtos_scBscHdlr_resumeAllTasksByPriority: the system call looks for a    *)
(* triggered event first and mostly returns without calling the scheduler. *)
UserResume(level) ==
  /\ InTask("user")
  /\ level \in Top.prio..(currentPrio - 1)
  /\ LET due == DueFrom(EventByPriority(currentPrio), level) IN
     IF due = {} THEN LowerTo(level, Guard, "run")
                 ELSE LowerTo(level, First(due), "release")

(* The critical section with the call of the scheduler that completes the  *)
(* release of a ceiling.                                                   *)
Reschedule ==
  /\ Top.kind = "task" /\ Top.pc \in {"release", "ending"}
  /\ CallScheduler(Top.hint, IF Top.pc = "ending" THEN "endCall" ELSE "call")
  /\ UNCHANGED <<evState, taskParam, loss, currentPrio, currentEvent, pNext>>

(* An OS task returns; it has to have undone all its Suspends.             *)
OsTaskEnd ==
  /\ InTask("os")
  /\ currentPrio = Top.prio
  /\ stack' = Front(stack)
  /\ UNCHANGED <<ee, evState, taskParam, loss, currentPrio, currentEvent, pNext>>

(* A user task returns, terminates itself or is aborted by an exception, a *)
(* bad system call argument or, on return from an interrupt, an exceeded   *)
(* deadline: rut_endWithoutErr restores the priority if need be.           *)
UserTaskEndAsIs ==
  /\ InTask("user")
  /\ stack' = Front(stack)
  /\ UNCHANGED <<ee, evState, taskParam, loss, currentPrio, currentEvent, pNext>>
UserTaskEnd ==
  /\ InTask("user")
  /\ IF currentPrio = Top.prio
     THEN /\ stack' = Front(stack)
          /\ UNCHANGED <<ee, evState, taskParam, loss, currentPrio, currentEvent, pNext>>
     ELSE LowerTo(Top.prio, EventByPriority(currentPrio), "ending")

-----------------------------------------------------------------------------
IsrStep == \/ \E i \in Irqs : IrqEnter(i)
           \/ \E e \in Event, p \in Params : IsrTrigger(e, p)
           \/ IsrExit

SchedStep == SchedLaunch \/ LaunchTask \/ EventDone \/ SchedReturn

TaskStep == \/ \E e \in Event, p \in Params : TaskTrigger(e, p)
            \/ \E level \in Ceilings : Suspend(level)
            \/ \E level \in Ceilings \cup {Top.prio} : OsResume(level) \/ UserResume(level)
            \/ Reschedule
            \/ OsTaskEnd
            \/ UserTaskEnd

Next == IsrStep \/ SchedStep \/ TaskStep

Spec == Init /\ [][Next]_vars

(* Interrupts may come for ever, but they leave CPU time to the scheduler  *)
(* and the tasks; a task that locks and releases again and again ends.     *)
LoadSpec == /\ Spec
            /\ \A i \in Irqs : SF_vars(Top.n = i /\ IsrExit)
            /\ SF_vars(LaunchTask) /\ SF_vars(EventDone)
            /\ WF_vars(SchedLaunch) /\ WF_vars(SchedReturn)
            /\ SF_vars(Reschedule)
            /\ SF_vars(OsResume(Top.prio)) /\ SF_vars(UserResume(Top.prio))
            /\ SF_vars(OsTaskEnd) /\ SF_vars(UserTaskEnd)

-----------------------------------------------------------------------------
(* Types. *)

Kinds == {"idle", "task", "sched", "isr"}
Pcs == {"run", "call", "release", "ending", "endCall", "enter", "scan", "launch"}

FrameType ==
  [kind : Kinds, pc : Pcs, ev : 1..Guard, prio : 0..MaxPriority, hint : 1..Guard,
   n : Nat, arg : Params, lock : 0..MaxPriority]

TypeOK ==
  /\ stack \in Seq(FrameType) /\ stack # <<>>
  /\ ee \in BOOLEAN
  /\ evState \in [Event -> {"idle", "triggered", "inProgress"}]
  /\ taskParam \in [Event -> Params]
  /\ loss \in [Event -> 0..MaxLoss]
  /\ currentPrio \in 0..MaxPriority
  /\ currentEvent \in 1..Guard
  /\ pNext \in 1..Unset

-----------------------------------------------------------------------------
(* Safety. *)

Scheds == {i \in 1..Len(stack) : stack[i].kind = "sched"}
Serving == {i \in Scheds : stack[i].pc = "launch"}
TaskFrames == {i \in 1..Len(stack) : stack[i].kind = "task"}

(* The event a call of rtos_osProcessTriggeredEvents names is one of the   *)
(* table and not below the current priority, as asserted at its entry.     *)
EntryAssertion ==
  InScan /\ Top.pc = "enter" => Top.ev # Guard /\ Prio(Top.ev) >= Top.prio

(* All assertions of rtos_osProcessTriggeredEvents: also, it is entered in *)
(* a critical section, no postponed call is pending, the search meets no   *)
(* event in progress and the tasks of an event leave the current priority  *)
(* as they found it.                                                       *)
SchedulerAssertions ==
  /\ EntryAssertion
  /\ InScan => /\ ~ee
               /\ pNext = Unset
               /\ \A e \in Event : e >= Top.ev /\ Prio(e) > Top.prio
                                     => evState[e] # "inProgress"
  /\ InLaunch => currentPrio = Prio(Top.ev)

(* "There can be outermost one stack frame per event priority": the events *)
(* in progress are the ones some invocation of the scheduler serves, and   *)
(* the invocations on the stack serve strictly increasing priorities.      *)
OneFramePerPriority ==
  /\ \A e \in Event : evState[e] = "inProgress" <=> \E i \in Serving : stack[i].ev = e
  /\ \A i, j \in Serving : i < j => Prio(stack[i].ev) < Prio(stack[j].ev)

(* Tasks nest like function calls, by priority, and the ceiling protocol   *)
(* is mutual exclusion: no task starts on top of one that has locked its   *)
(* priority, and the task that has the CPU finds exactly the level it had  *)
(* established before it was preempted.                                    *)
CeilingExclusion ==
  /\ \A i, j \in TaskFrames : i < j => stack[i].lock < Prio(stack[j].ev)
  /\ InTaskCode => currentPrio = Top.lock

(* An ISR postpones scheduling to the end of the outermost interrupt: the  *)
(* scheduler never runs on top of an unfinished interrupt and the request  *)
(* is not left behind when the last one is finished.                       *)
SchedulingIsPostponed ==
  /\ \A i \in Unfinished(stack) : \A j \in (i + 1)..Len(stack) : stack[j].kind = "isr"
  /\ pNext # Unset => Unfinished(stack) # {}

(* A task that is about to give back a ceiling: priority already lowered,  *)
(* scheduler not called yet.                                               *)
Releasing == {i \in TaskFrames : stack[i].pc \in {"release", "ending"}}

(* No trigger is forgotten: whenever task code has the CPU, every triggered*)
(* event is held back by the current priority, or else by a task that is   *)
(* about to give back the ceiling and that will look at this event.        *)
NoForgottenTrigger ==
  InTaskCode \/ InLaunch =>
    \A e \in Event : evState[e] = "triggered" =>
      \/ Prio(e) <= currentPrio
      \/ \E i \in Releasing : stack[i].hint <= e /\ stack[i].lock < Prio(e)

(* "The function of the task with higher priority is executed first": no   *)
(* task executes while an event above the level it runs at is waiting.     *)
UrgentFirst ==
  Top.kind = "task" /\ Top.pc = "run" =>
    \A e \in Event : evState[e] = "triggered" => Prio(e) <= Top.lock

(* Two conditions on the levels that a configuration of ceilings may meet: *)
(* each one is the priority of an event; and above the event of a task, a  *)
(* ceiling holds back events of one priority only.                         *)
CeilingsOfEvents == \A level \in Ceilings : \E e \in Event : Priority[e] = level
NarrowCeilings ==
  \A level \in Ceilings : \A b, d, e \in Event :
    ~(Priority[b] < Priority[d] /\ Priority[d] < Priority[e] /\ Priority[e] <= level)

(* Events are taken in the order of the table: by priority and, at the     *)
(* same priority, in order of creation. Only the release of a ceiling can  *)
(* have left one behind that comes earlier.                                *)
ServedInOrder ==
  [][\A e \in Event : evState[e] = "triggered" /\ evState'[e] = "inProgress" =>
       \A x \in 1..(e - 1) : evState[x] = "triggered" =>
         \E i \in Releasing : stack[i].hint <= x]_vars

(* All tasks of an activation get the parameter of the trigger that was    *)
(* accepted; triggers that come while the event is busy do not change it.  *)
ActivationKeepsParam == \A i \in Serving : stack[i].arg = taskParam[stack[i].ev]

-----------------------------------------------------------------------------
(* The inductive invariant behind the safety properties: what each context *)
(* looks like, how neighbours on the stack fit together and what holds for *)
(* the running one.                                                        *)

WellFormed(f) ==
  /\ f.kind = "idle" => f.pc \in {"run", "call"} /\ f.lock = f.prio
  /\ f.kind = "isr" => f.pc \in {"run", "call"} /\ f.lock = f.prio /\ f.n \in Irqs
  /\ f.kind = "task" => /\ f.pc \in {"run", "call", "release", "ending", "endCall"}
                        /\ f.ev \in Event
                        /\ f.prio <= f.lock
                        /\ f.pc \in {"ending", "endCall"} => f.lock = f.prio
  /\ f.kind = "sched" => /\ f.pc \in {"enter", "scan", "launch"}
                         /\ IF f.pc = "launch"
                            THEN /\ f.ev \in Event
                                 /\ f.lock = Prio(f.ev)
                                 /\ f.prio < f.lock
                            ELSE f.lock = f.prio

(* A frame starts at the level of the one below it. A task runs on top of  *)
(* the scheduler invocation that serves its event, and nothing runs on top *)
(* of an invocation that is inside its critical section.                   *)
FitsOn(f, g) ==
  /\ f.prio = g.lock
  /\ ~(g.kind = "sched" /\ g.pc \in {"enter", "scan"})
  /\ f.kind = "task" => g.kind = "sched" /\ g.pc = "launch" /\ g.ev = f.ev
  /\ f.kind = "sched" => g.pc \in {"call", "endCall"}

Nested(s) ==
  /\ \A i \in 1..Len(s) : WellFormed(s[i]) /\ (s[i].kind = "idle" <=> i = 1)
  /\ \A i \in 1..(Len(s) - 1) : FitsOn(s[i + 1], s[i])
  /\ \A i, j \in 1..Len(s) :
       i < j => /\ s[i].lock <= s[j].prio
                /\ s[i].kind = "isr" /\ s[i].pc = "run" => s[j].kind = "isr"

(* The critical section of the scheduler, and the level of the context that*)
(* has the CPU: between two searches the scheduler still has the one of the*)
(* event it has just finished.                                             *)
TopInv ==
  /\ InScan => ~ee
  /\ ~(Top.kind = "sched" /\ Top.pc = "scan") => currentPrio = Top.lock

ServedBy(s) ==
  {e \in Event : \E i \in 1..Len(s) : s[i].kind = "sched" /\ s[i].pc = "launch" /\ s[i].ev = e}

InProgressInv == {e \in Event : evState[e] = "inProgress"} = ServedBy(stack)

PostponedInv == pNext # Unset => Unfinished(stack) # {}

(* Every context on the stack is entered and left consistently, whatever   *)
(* the order of interrupts, triggers and ceilings.                         *)
IInv == TypeOK /\ Nested(stack) /\ TopInv /\ InProgressInv /\ PostponedInv

(* What a triggered event waits for: the end of what runs at its level or  *)
(* above, the search that is going on, a task that is about to give back a *)
(* ceiling, or the end of the interrupt that has triggered it.             *)
Covered(e) ==
  \/ Prio(e) <= Top.lock
  \/ InScan /\ Top.ev <= e
  \/ \E i \in Releasing : stack[i].hint <= e /\ stack[i].lock < Prio(e)
  \/ pNext <= e

TriggersCovered == \A e \in Event : evState[e] = "triggered" => Covered(e)

(* Where the levels of the tasks come from: their event or a ceiling. The  *)
(* search a task leaves behind starts not above a ceiling it has had.      *)
LevelsFromCeilings ==
  \A i \in TaskFrames :
    /\ stack[i].lock \in {stack[i].prio} \cup Ceilings
    /\ i \in Releasing => \E c \in Ceilings : Prio(stack[i].hint) <= c

(* Every search, begun or still to come, starts at an event that is not    *)
(* below the level it goes down to.                                        *)
SearchesStartAbove ==
  /\ EntryAssertion
  /\ \A i \in Releasing : stack[i].hint # Guard /\ Prio(stack[i].hint) >= stack[i].lock
  /\ pNext # Unset => pNext # Guard /\ Prio(pNext) > Top.lock

-----------------------------------------------------------------------------
(* Liveness. *)

(* New work: an interrupt, a trigger or a task that raises its priority.   *)
NewWork == \/ \E i \in Irqs : IrqEnter(i)
           \/ \E e \in Event, p \in Params : IsrTrigger(e, p) \/ TaskTrigger(e, p)
           \/ \E level \in Ceilings : Suspend(level)

(* When no new work comes in, every triggered event is served and the CPU  *)
(* gets back to the idle task with nothing left over.                      *)
AllServedAtLast ==
  <>[][~NewWork]_vars => <>[](/\ stack = <<IdleFrame>>
                             /\ \A e \in Event : evState[e] = "idle")

(* Under any load that leaves the CPU some time, the event of the highest  *)
(* priority is served: neither tasks nor ceilings nor triggers starve it.  *)
TopEventServed == evState[1] = "triggered" ~> evState[1] = "inProgress"

=============================================================================
