----------------------------- MODULE UserTasks -----------------------------
(***************************************************************************)
(* User mode tasks and processes of safe-RTOS-VLE: the assembly code that  *)
(* starts, interrupts, aborts and ends a user task (rtos_ivorHandler.S),   *)
(* the service rtos_runTask, suspension of processes and the init tasks    *)
(* that rtos_osInitKernel runs while interrupts are already enabled.       *)
(*                                                                         *)
(* All contexts share one supervisor stack, here a sequence of frames; the *)
(* user code of a process runs on the stack of the process:                *)
(*                                                                         *)
(*   os     rtos_osInitKernel and the idle task (always the first frame),  *)
(*          or the scheduler executing the OS part of an event             *)
(*   isr    rtos_ivor4Handler and the service routine it calls             *)
(*   task   rtos_osRunUserTask and the user code it starts                 *)
(*   sc     rtos_ivor8Handler with a system call handler of class "full"   *)
(*                                                                         *)
(* Only the scheduler's effect is kept: what it starts has a level above   *)
(* the current one (SafeScheduler has the rest). Code with MSR[EE]=0 is one*)
(* step. A user stack pointer is the number of units in use.               *)
(***************************************************************************)
EXTENDS Integers, Sequences, FiniteSetsExt

CONSTANTS
  NoProcesses,      (* RTOS_NO_PROCESSES                                    *)
  InitTasks,        (* PIDs that have an init task, 0 is the OS             *)
  RunPermissions,   (* pairs caller, target of rtos_runTask                 *)
  SuspendPermissions, (* pairs caller, target of rtos_suspendProcess        *)
  OsSuspends,       (* processes that OS code may suspend                   *)
  Services,         (* full system calls in use: "run", "trigger"           *)
  MaxLevel,         (* highest priority of an event                         *)
  Ceilings,         (* levels user tasks raise their priority to            *)
  Irqs,             (* INTC levels of the interrupts                        *)
  CallbackIrqs,     (* those whose service routines run user callbacks      *)
  Budget,           (* processes whose tasks have a deadline                *)
  MaxSp,            (* bound: units of a user stack in use                  *)
  MaxCount          (* UINT32_MAX, where a failure counter saturates        *)

PIDs == 1..NoProcesses

ASSUME ProcessAssumption ==
  /\ NoProcesses \in Nat \ {0}
  /\ InitTasks \subseteq 0..NoProcesses
  /\ RunPermissions \subseteq PIDs \X PIDs
  /\ SuspendPermissions \subseteq PIDs \X PIDs
  /\ OsSuspends \subseteq PIDs
  /\ Budget \subseteq PIDs

ASSUME LevelAssumption ==
  /\ MaxLevel \in Nat
  /\ Ceilings \subseteq 1..MaxLevel
  /\ Irqs \subseteq Nat
  /\ CallbackIrqs \subseteq Irqs
  /\ MaxSp \in Nat
  /\ MaxCount \in Nat

VARIABLES
  stack,            (* the supervisor stack                                 *)
  svsp,             (* SPRG0: the frame of the innermost user task          *)
  pid0,             (* PID0, not 0 exactly while user code executes         *)
  usp,              (* stack pointer of the executing user code             *)
  userSP,           (* rtos_processAry[].userSP                             *)
  state,            (* rtos_processAry[].state, 0: stopped                  *)
  cnt,              (* rtos_processAry[].cntTotalTaskFailure and causes     *)
  currentPrio,      (* rtos_currentPrio                                     *)
  minLevel,         (* minPriorityLevel_ of rtos_scFlHdlr_runTask           *)
  aborts,           (* history: failed tasks per process, up to MaxCount    *)
  initDone          (* history: PIDs whose init task has returned           *)

vars == <<stack, svsp, pid0, usp, userSP, state, cnt, currentPrio, minLevel,
          aborts, initDone>>

cpu == <<svsp, pid0, usp>>
history == <<aborts, initDone>>

-----------------------------------------------------------------------------
(* Frames *)

(* The failure causes that matter: a bad argument is found by a system call*)
(* handler, which may be preemptable, all others with MSR[EE]=0.           *)
Counters == {"total", "badArg", "other"}

Frame == [kind |-> "os", pc |-> "run", pid |-> 0, level |-> 0, cpr |-> 0,
          usp |-> 0, svsp |-> 0, reg |-> "none", out |-> "none", load |-> 0,
          late |-> FALSE]

OsFrame(level) == [Frame EXCEPT !.level = level, !.cpr = currentPrio]
IsrFrame(i) == [Frame EXCEPT !.kind = "isr", !.level = i, !.pid = pid0, !.usp = usp]
TaskFrame(p) == [Frame EXCEPT !.kind = "task", !.pc = "enter", !.pid = p, !.cpr = currentPrio]
CallFrame(pc) == [Frame EXCEPT !.kind = "sc", !.pc = pc, !.pid = pid0, !.usp = usp]

Top == stack[Len(stack)]
Below == SubSeq(stack, 1, Len(stack) - 1)
WithTop(f) == Append(Below, f)
At(kind, pc) == Top.kind = kind /\ Top.pc = pc

InUserCode == At("task", "user")

(* Code of the kernel, a driver or the idle task that may use OS services. *)
InOsCode == At("os", "run") \/ At("isr", "run")

(* rtos_getTaskBasePriority: the priority of rtos_pCurrentEvent.           *)
BasePriority(s) ==
  s[Max({d \in 1..Len(s) : s[d].kind = "os"})].level

UnfinishedIrqs == {stack[d].level : d \in {c \in 1..Len(stack) :
                                           stack[c].kind = "isr" /\ stack[c].pc = "run"}}

Init ==
  /\ stack = <<[Frame EXCEPT !.pc = "init"]>>
  /\ svsp = 0 /\ pid0 = 0 /\ usp = 0
  /\ userSP = [p \in PIDs |-> 0]
  /\ state = [p \in PIDs |-> 1]
  /\ cnt = [p \in PIDs |-> [c \in Counters |-> 0]]
  /\ currentPrio = 0 /\ minLevel = 0
  /\ aborts = [p \in PIDs |-> 0] /\ initDone = {}

-----------------------------------------------------------------------------
(* Start of a user task *)

(* rtos_osRunUserTask returns at once if the process is stopped; otherwise *)
(* it goes on with interrupts still enabled.                               *)
RunTask(p) ==
  /\ At("os", "run") \/ (At("isr", "run") /\ Top.level \in CallbackIrqs)
  /\ state[p] # 0
  /\ stack' = Append(stack, TaskFrame(p))
  /\ UNCHANGED <<cpu, userSP, state, cnt, currentPrio, minLevel, history>>

(* The critical section that shapes the user context and enters it. The new*)
(* task takes the stack of its process from where the last one left it.    *)
EnterTaskSavingLate ==
  /\ At("task", "enter")
  /\ stack' = WithTop([Top EXCEPT !.pc = "user", !.usp = userSP[Top.pid], !.svsp = Len(stack)])
  /\ svsp' = Len(stack)
  /\ pid0' = Top.pid
  /\ usp' = userSP[Top.pid]
  /\ UNCHANGED <<userSP, state, cnt, currentPrio, minLevel, history>>
EnterTask ==
  /\ At("task", "enter")
  /\ stack' = WithTop([Top EXCEPT !.pc = "user", !.usp = userSP[Top.pid], !.svsp = svsp])
  /\ svsp' = Len(stack)
  /\ pid0' = Top.pid
  /\ usp' = userSP[Top.pid]
  /\ UNCHANGED <<userSP, state, cnt, currentPrio, minLevel, history>>

(* User code calls functions and returns from them. *)
UseStack ==
  /\ InUserCode
  /\ usp' \in {usp - 1, usp + 1} \cap Top.usp..MaxSp
  /\ UNCHANGED <<stack, svsp, pid0, userSP, state, cnt, currentPrio, minLevel, history>>

-----------------------------------------------------------------------------
(* End of a user task *)

(* Counters saturate: they are not stored if they wrap around.             *)
SatWrapping(n) == IF n < MaxCount THEN n + 1 ELSE 0
Sat(n) == IF n < MaxCount THEN n + 1 ELSE n

Counted(p, causes) ==
  /\ cnt' = [cnt EXCEPT ![p] = [c \in Counters |->
               IF causes # {} /\ c \in causes \cup {"total"} THEN Sat(@[c]) ELSE @[c]]]
  /\ aborts' = [aborts EXCEPT ![p] = IF causes # {} /\ @ < MaxCount THEN @ + 1 ELSE @]

(* Back to the frame of the task, which is where SPRG0 points to.          *)
Unwound == SubSeq(stack, 1, svsp)
Ended(result) == Append(SubSeq(stack, 1, svsp - 1),
                        [stack[svsp] EXCEPT !.pc = "restore", !.reg = result, !.out = result,
                                            !.late = FALSE])

(* rut_endUserTaskByException and the system call rtos_terminateTask with  *)
(* MSR[EE]=0: count the cause, give SPRG0 and the user stack back to the   *)
(* task below, leave the process. causes is {} if the task has not failed. *)
LeaveTaskKeepingStack(result, causes) ==
  LET t == stack[svsp] IN
    /\ stack' = Ended(result)
    /\ Counted(t.pid, causes)
    /\ svsp' = t.svsp
    /\ UNCHANGED userSP
    /\ pid0' = 0
    /\ usp' = 0
    /\ UNCHANGED <<minLevel, initDone>>
LeaveTask(result, causes) ==
  LET t == stack[svsp] IN
    /\ stack' = Ended(result)
    /\ Counted(t.pid, causes)
    /\ svsp' = t.svsp
    /\ userSP' = [userSP EXCEPT ![t.pid] = t.usp]
    /\ pid0' = 0
    /\ usp' = 0
    /\ UNCHANGED <<minLevel, initDone>>

(* The user code returns or calls rtos_terminateTask.                      *)
UserEnd(result) ==
  /\ InUserCode
  /\ LeaveTask(result, IF result = "err" THEN {"other"} ELSE {})
  /\ UNCHANGED <<state, currentPrio>>

(* An exception of the CPU, each with a handler of its own but one effect. *)
Exception ==
  /\ InUserCode
  /\ LeaveTask("err", {"other"})
  /\ UNCHANGED <<state, currentPrio>>

(* Behind the critical section: a ceiling the task has not released is     *)
(* taken back, and tasks it has locked are scheduled from here. The result *)
(* of the task is kept in register r4, which no called C function saves.   *)
RestorePriority ==
  /\ At("task", "restore")
  /\ IF Top.cpr < currentPrio
     THEN /\ currentPrio' = Top.cpr
          /\ stack' = WithTop([Top EXCEPT !.pc = "sched"])
     ELSE /\ UNCHANGED currentPrio
          /\ stack' = WithTop([Top EXCEPT !.pc = "return"])
  /\ UNCHANGED <<cpu, userSP, state, cnt, minLevel, history>>

ScheduleAtEnd(level, value) ==
  /\ At("task", "sched")
  /\ level \in {0} \cup (currentPrio + 1)..MaxLevel
  /\ LET returning == WithTop([Top EXCEPT !.pc = "return", !.reg = value]) IN
       IF level = 0
       THEN /\ stack' = returning
            /\ UNCHANGED currentPrio
       ELSE /\ stack' = Append(returning, OsFrame(level))
            /\ currentPrio' = level
  /\ UNCHANGED <<cpu, userSP, state, cnt, minLevel, history>>

(* rtos_osRunUserTask returns to its caller: an init task's result decides *)
(* on the startup, rtos_scFlHdlr_runTask goes on, others ignore it.        *)
ReturnToCaller ==
  /\ At("task", "return")
  /\ LET caller == stack[Len(stack) - 1]
         resumed == CASE caller.kind = "sc"   -> [caller EXCEPT !.pc = "ungate"]
                      [] caller.pc = "init" /\ Top.reg = "err" -> [caller EXCEPT !.reg = "err"]
                      [] OTHER                -> caller
     IN  /\ stack' = Append(SubSeq(stack, 1, Len(stack) - 2), resumed)
         /\ initDone' = IF caller.pc = "init" THEN initDone \cup {Top.pid} ELSE initDone
  /\ UNCHANGED <<cpu, userSP, state, cnt, currentPrio, minLevel, aborts>>

-----------------------------------------------------------------------------
(* Interrupts *)

(* Code with MSR[EE]=0 in between of two steps: the IVOR #4 handler after  *)
(* the scheduler, and the preemption of the process' code is complete.     *)
Interruptible == ~At("isr", "exit")

(* If user code is preempted its stack pointer is published for tasks of   *)
(* the same process that are started on top of it.                         *)
IrqEnter(i) ==
  /\ Interruptible
  /\ \A j \in UnfinishedIrqs : j < i
  /\ stack' = Append(stack, IsrFrame(i))
  /\ userSP' = IF pid0 # 0 THEN [userSP EXCEPT ![stack[svsp].pid] = usp] ELSE userSP
  /\ pid0' = 0
  /\ usp' = 0
  /\ UNCHANGED <<svsp, state, cnt, currentPrio, minLevel, history>>

(* The last of all nested interrupts may start the scheduler.              *)
IrqSchedules(level) ==
  /\ At("isr", "run")
  /\ Cardinality(UnfinishedIrqs) = 1
  /\ level > currentPrio
  /\ stack' = Append(WithTop([Top EXCEPT !.pc = "exit"]), OsFrame(level))
  /\ currentPrio' = level
  /\ UNCHANGED <<cpu, userSP, state, cnt, minLevel, history>>

(* Return from the interrupt. A preempted user task is not resumed but     *)
(* ended if its process has been stopped or if its deadline is over.       *)
AbortConditionLateOnly(t) == t.late
AbortConditionStoppedOnly(t) == state[t.pid] = 0
AbortCondition(t) == state[t.pid] = 0 \/ t.late

IrqReturn ==
  /\ Top.kind = "isr"
  /\ IF Top.pid # 0 /\ AbortCondition(stack[Len(stack) - 1])
     THEN LeaveTask("err", {"other"})
     ELSE /\ stack' = Below
          /\ pid0' = Top.pid
          /\ usp' = Top.usp
          /\ UNCHANGED <<svsp, userSP, cnt, minLevel, history>>
  /\ UNCHANGED <<state, currentPrio>>

(* The deadline of a task passes, whatever the CPU does meanwhile.         *)
Expire(d) ==
  /\ d \in 1..Len(stack)
  /\ stack[d].kind = "task" /\ stack[d].pc = "user" /\ stack[d].pid \in Budget
  /\ ~stack[d].late
  /\ stack' = [stack EXCEPT ![d].late = TRUE]
  /\ UNCHANGED <<cpu, userSP, state, cnt, currentPrio, minLevel, history>>

-----------------------------------------------------------------------------
(* System calls *)

(* rtos_ivr8_switchBasicToFullHandler: to the supervisor stack and kernel  *)
(* PID, and interrupts are enabled again.                                  *)
SwitchToFullUnpublished(pc) ==
  /\ stack' = Append(stack, CallFrame(pc))
  /\ UNCHANGED userSP
  /\ pid0' = 0
  /\ usp' = 0
SwitchToFull(pc) ==
  /\ stack' = Append(stack, CallFrame(pc))
  /\ userSP' = [userSP EXCEPT ![stack[svsp].pid] = usp]
  /\ pid0' = 0
  /\ usp' = 0

FullCall(service) ==
  /\ InUserCode
  /\ SwitchToFull(IF service = "run" THEN "gate" ELSE "trigger")
  /\ UNCHANGED <<svsp, state, cnt, currentPrio, minLevel, history>>

CallReturn ==
  /\ Top.kind = "sc" /\ Top.pc \in {"trigger", "done", "return"}
  /\ stack' = Below
  /\ pid0' = Top.pid
  /\ usp' = Top.usp
  /\ UNCHANGED <<svsp, userSP, state, cnt, currentPrio, minLevel, history>>

(* Trigger of an event and release of a ceiling, from a system call or from*)
(* OS code: an event above the current level is served at once.            *)
Schedule(level) ==
  /\ At("os", "run") \/ At("sc", "trigger") \/ At("sc", "done")
  /\ level > currentPrio
  /\ stack' = Append(WithTop([Top EXCEPT !.pc = IF Top.kind = "sc" THEN "done" ELSE @]),
                     OsFrame(level))
  /\ currentPrio' = level
  /\ UNCHANGED <<cpu, userSP, state, cnt, minLevel, history>>

ScheduleReturn ==
  /\ At("os", "run") /\ Len(stack) > 1
  /\ stack' = Below
  /\ currentPrio' = Top.cpr
  /\ UNCHANGED <<cpu, userSP, state, cnt, minLevel, history>>

(* The basic handlers of the priority ceiling protocol; the release is     *)
(* continued as a full handler if an event above the level is waiting.     *)
RaisePriority(level) ==
  /\ InUserCode /\ level > currentPrio
  /\ currentPrio' = level
  /\ UNCHANGED <<stack, cpu, userSP, state, cnt, minLevel, history>>

LowerPriority ==
  /\ InUserCode /\ Top.cpr < currentPrio
  /\ currentPrio' = Top.cpr
  /\ \/ SwitchToFull("done")
     \/ UNCHANGED <<stack, userSP, pid0, usp>>
  /\ UNCHANGED <<svsp, state, cnt, minLevel, history>>

(* rtos_osSystemCallBadArgument, jumped to by a preemptable full handler:  *)
(* the counters are loaded and stored with interrupts enabled.             *)
BadArgument ==
  /\ stack' = [Unwound EXCEPT ![svsp].pc = "count", ![svsp].load = cnt[Unwound[svsp].pid].badArg]
  /\ UNCHANGED <<cpu, userSP, state, cnt, currentPrio, minLevel, history>>

TriggerBadArgument == At("sc", "trigger") /\ BadArgument

CountCause ==
  /\ At("task", "count")
  /\ cnt' = [cnt EXCEPT ![Top.pid].badArg = Sat(Top.load)]
  /\ stack' = WithTop([Top EXCEPT !.pc = "total", !.load = cnt[Top.pid].total])
  /\ UNCHANGED <<cpu, userSP, state, currentPrio, minLevel, history>>

CountTotal ==
  /\ At("task", "total")
  /\ cnt' = [cnt EXCEPT ![Top.pid].total = Sat(Top.load)]
  /\ aborts' = [aborts EXCEPT ![Top.pid] = IF @ < MaxCount THEN @ + 1 ELSE @]
  /\ stack' = WithTop([Top EXCEPT !.pc = "leave", !.load = 0])
  /\ UNCHANGED <<cpu, userSP, state, currentPrio, minLevel, initDone>>

LeaveInterruptible ==
  /\ At("task", "leave")
  /\ svsp' = Top.svsp
  /\ stack' = WithTop([Top EXCEPT !.pc = "unwind"])
  /\ UNCHANGED <<pid0, usp, userSP, state, cnt, currentPrio, minLevel, history>>

UnwindUserStack ==
  /\ At("task", "unwind")
  /\ userSP' = [userSP EXCEPT ![Top.pid] = Top.usp]
  /\ stack' = WithTop([Top EXCEPT !.pc = "restore", !.reg = "err", !.out = "err", !.late = FALSE])
  /\ UNCHANGED <<cpu, state, cnt, currentPrio, minLevel, history>>

-----------------------------------------------------------------------------
(* rtos_runTask *)

(* The gate: the caller's priority has to be above that of all callers who *)
(* are still waiting for a task.                                           *)
PassGateAtLevel(level) ==
  /\ level >= minLevel
  /\ minLevel' = level
PassGate(level) ==
  /\ level >= minLevel
  /\ minLevel' = level + 1

RunGate(p) ==
  /\ At("sc", "gate")
  /\ <<Top.pid, p>> \in RunPermissions
  /\ PassGate(BasePriority(stack))
  /\ stack' = WithTop([Top EXCEPT !.pc = "call", !.level = p, !.load = minLevel])
  /\ UNCHANGED <<cpu, userSP, state, cnt, currentPrio, history>>

RunRefused(p) ==
  /\ At("sc", "gate")
  /\ <<Top.pid, p>> \notin RunPermissions \/ BasePriority(stack) < minLevel
  /\ BadArgument

RunCall ==
  /\ At("sc", "call")
  /\ stack' = IF state[Top.level] # 0 THEN Append(stack, TaskFrame(Top.level))
                                      ELSE WithTop([Top EXCEPT !.pc = "ungate"])
  /\ UNCHANGED <<cpu, userSP, state, cnt, currentPrio, minLevel, history>>

RunUngate ==
  /\ At("sc", "ungate")
  /\ minLevel' = Top.load
  /\ stack' = WithTop([Top EXCEPT !.pc = "return", !.level = 0, !.load = 0])
  /\ UNCHANGED <<cpu, userSP, state, cnt, currentPrio, history>>

-----------------------------------------------------------------------------
(* Processes and startup *)

Stop(p) == state' = [state EXCEPT ![p] = 0]

(* rtos_osSuspendProcess *)
OsSuspend(p) ==
  /\ InOsCode
  /\ Stop(p)
  /\ UNCHANGED <<stack, cpu, userSP, cnt, currentPrio, minLevel, aborts, initDone>>

(* rtos_scSmplHdlr_suspendProcess, MSR[EE]=0. *)
UserSuspend(p) ==
  /\ InUserCode
  /\ IF <<Top.pid, p>> \in SuspendPermissions
     THEN /\ Stop(p)
          /\ UNCHANGED <<stack, cpu, userSP, cnt, minLevel, aborts, initDone>>
     ELSE /\ LeaveTask("err", {"badArg"})
          /\ UNCHANGED state
  /\ UNCHANGED currentPrio

(* The loop of rtos_osInitKernel over the processes 1, 2, ... and 0 at last*)
InitNextFromSecond ==
  /\ At("os", "init")
  /\ Top.pid < NoProcesses
  /\ LET p == IF Top.pid = 0 THEN 2 ELSE Top.pid + 1
         base == [Top EXCEPT !.pid = p]
     IN stack' = IF p \in InitTasks THEN <<base, TaskFrame(p)>> ELSE <<base>>
  /\ UNCHANGED <<cpu, userSP, state, cnt, currentPrio, minLevel, history>>
InitNext ==
  /\ At("os", "init")
  /\ Top.pid < NoProcesses
  /\ LET p == Top.pid + 1
         base == [Top EXCEPT !.pid = p]
     IN stack' = IF p \in InitTasks THEN <<base, TaskFrame(p)>> ELSE <<base>>
  /\ UNCHANGED <<cpu, userSP, state, cnt, currentPrio, minLevel, history>>

(* The OS init task, a plain C function, and the verdict on the startup.   *)
InitOs(result) ==
  /\ At("os", "init")
  /\ Top.pid = NoProcesses
  /\ 0 \in InitTasks \/ result = "ok"
  /\ initDone' = initDone \cup (InitTasks \cap {0})
  /\ stack' = <<[Top EXCEPT !.pid = 0, !.reg = "none",
                  !.pc = IF result = "ok" /\ Top.reg # "err" THEN "release" ELSE "failed"]>>
  /\ UNCHANGED <<cpu, userSP, state, cnt, currentPrio, minLevel, aborts>>

(* The processes are released and the tick is started.                     *)
Release ==
  /\ At("os", "release")
  /\ state' = [p \in PIDs |-> 1]
  /\ stack' = WithTop([Top EXCEPT !.pc = "run"])
  /\ UNCHANGED <<cpu, userSP, cnt, currentPrio, minLevel, history>>

-----------------------------------------------------------------------------
(* The specification *)

StartStep == InitNext \/ (\E result \in {"ok", "err"} : InitOs(result)) \/ Release

TaskStep == \/ \E p \in PIDs : RunTask(p)
            \/ EnterTask
            \/ UseStack
            \/ \E result \in {"ok", "err"} : UserEnd(result)
            \/ Exception
            \/ RestorePriority
            \/ \E level \in 0..MaxLevel, value \in {"ok", "err"} : ScheduleAtEnd(level, value)
            \/ ReturnToCaller

IrqStep == \/ \E i \in Irqs : IrqEnter(i)
           \/ \E level \in 1..MaxLevel : IrqSchedules(level)
           \/ IrqReturn
           \/ \E d \in 1..Len(stack) : Expire(d)

CallStep == \/ \E service \in Services : FullCall(service)
            \/ CallReturn
            \/ \E level \in 1..MaxLevel : Schedule(level)
            \/ ScheduleReturn
            \/ \E level \in Ceilings : RaisePriority(level)
            \/ LowerPriority
            \/ TriggerBadArgument
            \/ CountCause \/ CountTotal \/ LeaveInterruptible \/ UnwindUserStack

RunStep == \/ \E p \in PIDs : RunGate(p) \/ RunRefused(p)
           \/ RunCall
           \/ RunUngate

SuspendStep == \E p \in PIDs : (p \in OsSuspends /\ OsSuspend(p)) \/ UserSuspend(p)

Next == StartStep \/ TaskStep \/ IrqStep \/ CallStep \/ RunStep \/ SuspendStep

Spec == Init /\ [][Next]_vars

(* Kernel code goes on at every depth of the stack: interrupts may come for*)
(* ever but leave CPU time to all contexts, and a scheduler invocation ends*)
(* User code need not end on its own. The interrupt of the highest level,  *)
(* the kernel's tick, comes again and again, and deadlines pass.           *)
Tick == IrqEnter(Max(Irqs))

(* No stack is deeper: the idle task, each event level and each interrupt  *)
(* that runs callbacks may have one user task on top.                      *)
MaxDepth == 2 * (1 + MaxLevel) + Cardinality(Irqs) + Cardinality(CallbackIrqs)

KernelStep == \/ StartStep \/ EnterTask \/ RestorePriority \/ ReturnToCaller
              \/ \E level \in 0..MaxLevel, value \in {"ok", "err"} : ScheduleAtEnd(level, value)
              \/ IrqReturn \/ CallReturn
              \/ CountCause \/ CountTotal \/ LeaveInterruptible \/ UnwindUserStack
              \/ RunCall \/ RunUngate

LiveSpec == /\ Spec
            /\ \A d \in 1..MaxDepth : /\ SF_vars((KernelStep \/ ScheduleReturn) /\ Len(stack) = d)
                                     /\ WF_vars(Expire(d))
            /\ SF_vars(Tick)

-----------------------------------------------------------------------------
(* Types *)

FrameType ==
  [kind : {"os", "isr", "task", "sc"},
   pc : {"init", "release", "failed", "run", "exit", "enter", "user", "restore", "sched",
         "return", "count", "total", "leave", "unwind", "gate", "call", "ungate", "trigger", "done"},
   pid : 0..NoProcesses, level : Nat, cpr : 0..MaxLevel, usp : 0..MaxSp, svsp : Nat,
   reg : {"none", "ok", "err"}, out : {"none", "ok", "err"}, load : Nat,
   late : BOOLEAN]

(* Every variable has its type.                                            *)
TypeOK ==
  /\ stack \in Seq(FrameType) \ {<<>>}
  /\ svsp \in 0..Len(stack)
  /\ pid0 \in 0..NoProcesses /\ usp \in 0..MaxSp
  /\ userSP \in [PIDs -> 0..MaxSp]
  /\ state \in [PIDs -> {0, 1}]
  /\ cnt \in [PIDs -> [Counters -> 0..MaxCount]]
  /\ currentPrio \in 0..MaxLevel /\ minLevel \in 0..(MaxLevel + 1)
  /\ aborts \in [PIDs -> 0..MaxCount]
  /\ initDone \subseteq 0..NoProcesses

-----------------------------------------------------------------------------
(* Safety *)

(* Frames of tasks that have entered user code and not left it yet.        *)
Entered == {d \in 1..Len(stack) : stack[d].kind = "task"
                                  /\ stack[d].pc \in {"user", "count", "total", "leave"}}

(* SPRG0 always leads to the innermost user task, whoever has been started,*)
(* preempted or aborted in between, and PID0 is that task's process while  *)
(* its code executes and 0 in all kernel code: abort and preemption always *)
(* find the right frame (rtos_ivorHandler.S:550-580, 926-1010).            *)
ContextIsInnermost ==
  /\ svsp = Max({0} \cup Entered)
  /\ pid0 = (IF InUserCode THEN Top.pid ELSE 0)

(* A task that is suspended by an interrupt or waits in a system call, or  *)
(* is executing: its stack is in use up to SpOf.                           *)
Holding == {d \in Entered : \/ d = Len(stack) /\ InUserCode
                            \/ /\ d < Len(stack) /\ stack[d + 1].pid # 0
                               /\ stack[d + 1].kind \in {"isr", "sc"}}
SpOf(d) == IF d = Len(stack) THEN usp ELSE stack[d + 1].usp

(* Tasks of one process share its stack. A task never starts in the part   *)
(* that another one, suspended below it, still has in use, whatever was    *)
(* aborted on top of it (rtos_ivorHandler.S:875-891, 1005-1010, 1333).      *)
StacksApart ==
  \A d \in Holding, e \in Entered :
    d < e /\ stack[d].pid = stack[e].pid => SpOf(d) <= stack[e].usp

(* When all tasks of a process are over its stack is empty again: aborts   *)
(* leave nothing behind.                                                   *)
StackGivenBack ==
  \A p \in PIDs :
    (\A d \in 1..Len(stack) : stack[d].kind = "task" => stack[d].pid # p \/ stack[d].pc \in
                                                        {"enter", "restore", "sched", "return"})
      => userSP[p] = 0

(* Callers that wait in rtos_runTask have rising priorities, so that there *)
(* are never more of them than priorities, and no task that was started by *)
(* rtos_runTask starts another one (rtos_runTask.c:231, 266-285).          *)
Waiting == {d \in 1..Len(stack) : stack[d].kind = "sc" /\ stack[d].pc \in {"call", "ungate"}}
Lower(d) == SubSeq(stack, 1, d)
RunTaskIsNotRecursive ==
  /\ \A d, e \in Waiting : d < e => BasePriority(Lower(d)) < BasePriority(Lower(e))
  /\ minLevel = (IF Waiting = {} THEN 0 ELSE BasePriority(Lower(Max(Waiting))) + 1)

(* The total of failures of a process is the number of its failed tasks    *)
(* (rtos_process.c:92-94), up to saturation and abort in progress; the     *)
(* counters, as all other variables, keep their types.                     *)
Counting(p) == \E d \in 1..Len(stack) : /\ stack[d].kind = "task" /\ stack[d].pid = p
                                        /\ stack[d].pc \in {"count", "total"}
EveryFailureCounts ==
  /\ TypeOK
  /\ \A p \in PIDs : ~Counting(p) =>
       /\ cnt[p].total = aborts[p]
       /\ LET sum == cnt[p].badArg + cnt[p].other
          IN cnt[p].total = (IF sum < MaxCount THEN sum ELSE MaxCount)

(* rtos_osRunUserTask returns what the task has returned or the code of its*)
(* abort (rtos_ivorHandler.S:728-733).                                     *)
ResultIsTheTasks ==
  At("task", "return") => Top.reg = Top.out

Phase == stack[1].pc

(* Init tasks of processes are served in order of rising process ID and    *)
(* before the OS init task, each completely before the next.               *)
InitInOrder ==
  \A p, q \in InitTasks \ {0} :
    /\ p < q /\ q \in initDone => p \in initDone
    /\ 0 \in initDone => p \in initDone

-----------------------------------------------------------------------------
(* Liveness *)

(* A task that nothing limits: its process is running and it has no        *)
(* deadline. The code below it, an interrupt included, waits for it.       *)
Unlimited(d) ==
  \E e \in Entered : e > d /\ state[stack[e].pid] # 0 /\ stack[e].pid \notin Budget

(* A task with a deadline ends, even if it never returns: at the next tick *)
(* after its deadline it is aborted and its frame is given up, unless a    *)
(* task without a deadline has been started on top of it.                  *)
Late(d) == d <= Len(stack) /\ stack[d].late
LateTaskEnds == \A d \in 1..MaxDepth : Late(d) ~> ~Late(d) \/ Unlimited(d)

(* All tasks of a suspended process end, without their cooperation and     *)
(* whether or not they have a deadline.                                    *)
SuspendedProcessEnds ==
  \A p \in PIDs : (Phase = "run" /\ state[p] = 0)
                   ~> \A d \in Entered : stack[d].pid = p => Unlimited(d)
=============================================================================
