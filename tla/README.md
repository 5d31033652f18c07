# Verification of safe-RTOS and its sister systems

This directory holds TLA+ specifications of code of the repository
TRK-USB-MPC5643L, the TLC configurations that check them on small instances and
TLAPS proofs about all of them. The repository is a collection of embedded
applications for the evaluation board TRK-USB-MPC5643L (one PowerPC e200z4 core in
use). Its own logic is in a few small operating systems. The largest and most
intricate of them is **safe-RTOS** (`LSM/safe-RTOS-VLE`), a preemptive,
priority-driven kernel with memory protected processes. Its two predecessors are
**RTOS-VLE** (`LSM/RTOS`, `LSM/RTOS-VLE`), which leaves scheduling to the interrupt
controller, and **RTuinOS** (`LSM/RTuinOS`), a kernel with waiting tasks, mutexes
and semaphores. All three and the serial I/O driver they share are modelled.

Paths below are relative to `src/`; `RTOS/` abbreviates
`LSM/safe-RTOS-VLE/code/system/RTOS/`.

## 1. Inventory

### safe-RTOS: one CPU, one supervisor stack

All OS code, all interrupts, the scheduler and the entry and exit code of user
tasks share one supervisor stack; a context that preempts another one is put on
top of it. The scheduler is a C function, `rtos_osProcessTriggeredEvents`, whose
invocations nest on that stack. It executes tasks by calling them. There are no
task switches other than call, return and abort. The only means of mutual
exclusion are MSR[EE]=0 (a critical section) and the priority ceiling protocol,
which raises `rtos_currentPrio`.

| component | state | operations | interacts with | what is hard | what makes it correct |
|---|---|---|---|---|---|
| scheduler (`rtos_scheduler.c`) | event table with state, task parameter, loss counter per event; `rtos_currentPrio`, `rtos_pCurrentEvent`, `rtos_pNextEventToSchedule` | trigger an event (from an ISR, an OS task, a user task), search and serve events, launch tasks | called by triggers, by the exit of an interrupt, by the release of a ceiling, by the end of a user task | interrupts trigger events behind the back of the search; groups of same priority; requests postponed by nested interrupts | no trigger is forgotten, the more urgent is first, one invocation per priority, the parameter of an activation is stable, asserted conditions hold |
| priority ceiling protocol (`rtos_priorityCeilingProtocol.S`, `rtos_scheduler.c` 1940-2080) | `rtos_currentPrio`, the level a task keeps to restore it | suspend and resume tasks by priority, for user code (system call) and OS code | resume calls the scheduler | the level is lowered and the scheduler called at different moments; nesting; levels no event has | exclusion, the level is found again, what was held back is served |
| event table (`rtos_scheduler.c` 960-1475) | table sorted by priority, map from ID, list of tasks, init tasks, map from priority | create an event, register a task, initialize the kernel | read by the scheduler and by the tick | events and lists move in memory while they are built | the tables do what the calls by ID asked for |
| system timer (`onOsTimerTick`, `checkEventDue`) | `rtos_tiOs`, due time per event | tick | triggers events from an ISR | times wrap around; cycles that are no multiple of the tick; preemption of the scan | every cyclic event is triggered at its times, for ever |
| user tasks (`rtos_ivorHandler.S`) | SPRG0 chain of task frames, PID0, `userSP` of each process | start, end, exception, deadline, abort from a system call | started by the scheduler, by ISRs (callbacks), by `rtos_runTask` and by init | tasks of one process on one stack; abort from any depth; deadlines checked at the return from an interrupt only | abort finds the right frame, stacks do not overlap and are given back, late tasks end, results are the task's |
| processes (`rtos_process.c`, start in `rtos_osInitKernel`) | state, failure counters, permissions | initialize, run init tasks, release, suspend | checked at the start of a task and at the return from an interrupt | suspension while tasks are preempted; interrupts during startup | suspended processes get rid of their tasks, every failure is counted, init tasks run in order and alone |
| run-task service (`rtos_runTask.c`) | a gate: lowest base priority that may call | run a task in another process and wait for it | user tasks | save and restore of the gate around a preemptable call | bounded recursion on the supervisor stack |
| system calls (`rtos_systemCall.c`, `rtos_ivorHandler.S`) | none of their own | basic, simple and full handlers, switch from basic to full | all of the above | full handlers are preemptable | as for user tasks |
| exceptions, memory protection | region tables | abort the task or halt | user tasks | an exception inside another handler | one effect for user code: abort |
| interrupt registration, CPU load, delay, assert | tables, registers | at initialization | - | - | - |
| serial I/O driver (`code/system/drivers/serial`) | input ring with a count of its ends of line, output ring, registers of the DMA channel | receive interrupt, getChar, getLine; write | UART, DMA, system calls | the DMA is stopped and restarted in the middle of a transfer; full buffers, with and without an end of line | two queues: in order, each character once, losses counted; everything accepted is sent, readers are never stuck |
| LED and button driver | pin states | poll, callback | `rtos_osRunTask` | - | - |
| sample applications (`testPCP`, `basicTest`, `default`, ...) | counters | tasks | users of the kernel | - | show which calls are legal |

### The other systems

| component | state | operations | what is hard | what makes it correct |
|---|---|---|---|---|
| `LSM/RTOS`, `LSM/RTOS-VLE` (`rtos.c`, `rtos.h`, `int_INTCInterruptHandler.S`) | due time and loss counter per task, the clock, the software interrupt flags of the INTC and its current priority | timer tick, `rtos_activateTask`, critical sections by priority, start and end of a task | a flag is read and set in two steps; a request that is already under way when the level is raised; times wrap around | an accepted activation is executed exactly once, a lost one is counted, sections exclude, no task preempts itself |
| `LSM/RTuinOS` (`rtos.c`, `sc_systemCalls.c`) | list of suspended tasks, due list per priority class, active task; per task the events posted and waited for, two timers, time slice, overruns; free mutexes, semaphores | timer tick, send event, wait for event, kernel interrupts | hand-over of mutexes and units to waiting tasks, part by part and against a timeout; posted events are state of the wait, signal and result at once | the lists agree, sync objects are conserved and given to the first, nobody waits in vain, signals arrive, overruns are counted, timeouts end waits, round robin is fair |
| RTuinOS test cases (`mai_main.c` tc01 to tc16) | - | users of the kernel | - | not modelled |
| `LSM/kernelBuilder` | saved contexts | context switch at the end of an interrupt; samples `simpleRTOS`, `alternatingContexts`, `chainedContextCreation` | - | not modelled: saves and restores registers |
| `LSM/ADC` and other hardware samples | registers | conversion triggered by a timer | - | not modelled |
| startup code, printf, vendor headers | registers | C library glue | - | not modelled |

`PROJECT.json` lists each of them with its files under `components`, and the
points where this code is hard to test under `hazards`.

## 2. Modules

| module | models | lines of the source |
|---|---|---|
| `SafeScheduler` | scheduler, interrupts, task end, ceiling protocol | `rtos_scheduler.c` 636-744, 834-850, 1645-1732, 1810-1924, 1999-2077; `rtos_ivorHandler.S` 536-710, 754-1054; `rtos_priorityCeilingProtocol.S` |
| `MCSafeScheduler` | instances | |
| `SafeSchedulerProofs` | five theorems about `SafeScheduler`: stack, levels, ceilings | |
| `SafeTriggerProofs` | five more: triggers, order, parameters, assertions | |
| `EventPlan` | abstract: what creation of events, registration of tasks and the timer promise | documentation of these functions |
| `EventTable` | the tables and the timer; implements `EventPlan` | `rtos_scheduler.c` 480-600, 750-825, 960-1475 |
| `MCEventTable` | instance | |
| `EventTableProofs` | one theorem and the refinement of `EventPlan` | |
| `UserTasks` | user tasks, processes, run-task service, startup | `rtos_ivorHandler.S` 154-1385, `rtos_process.c`, `rtos_runTask.c`, `rtos_scheduler.c` 1477-1577 |
| `MCUserTasks` | permissions | |
| `UserTasksProofs` | eight theorems about `UserTasks` | |
| `SwIntScheduler` | tasks on software interrupts | `LSM/RTOS-VLE/code/RTOS/rtos.c` 117-124, 206-309, 361-427, 575-629; `rtos.h` 143-226; `int_INTCInterruptHandler.S` 138-215 |
| `MCSwIntScheduler` | instance | |
| `SwIntSchedulerProofs` | four theorems about `SwIntScheduler` | |
| `RTuinOS` | kernel of RTuinOS | `LSM/RTuinOS/code/RTOS/rtos.c` 264-550, 764-1052, 1076-1408, 1492-1508, 1686-1697, 1807-1896 |
| `MCRTuinOS` | two instances | |
| `RTuinOSLists` | lemmas about the list operators of `RTuinOS` | |
| `RTuinOSProofs` | eight theorems about `RTuinOS` | |
| `SerialQueues` | abstract: two queues of limited capacity | documentation of the driver's functions |
| `SerialIO` | serial driver and its DMA channel; implements `SerialQueues` | `drivers/serial/sio_serialIO.c` 519-1076 |
| `MCSerialIO` | instance | |
| `SerialIOProofs` | two theorems and the refinement of `SerialQueues` | |

The three modules of safe-RTOS meet at the scheduler. `EventTable` checks the order
and the links of the table that `SafeScheduler` takes as its constant `Priority`
and its operators `EventByPriority` and `NextScheduled`: the assumption that
`Priority` falls is the sortedness of the table, and the two
parts of `TablesSteerTheSearch`, `PrioMapFindsTheFirst` and `LinksFindTheFirst`, are the facts about the search
tables. `UserTasks` keeps of the scheduler only that what it starts has a level
above the current one and that the level is restored when it returns
(`SafeScheduler`, `IInv`).

A definition in front of the one it varies (`AcceptBusy` before `Accept`,
`EnterTaskSavingLate` before `EnterTask`) is a plausible mistake in the code.
It is not part of a model: put in the place of its successor it makes
the property named with it in `PROJECT.json` (`mutants`) fail, which shows that
the property depends on the code.

### SafeScheduler

`stack` is the supervisor stack as a sequence of frames, the executing one last:
`idle` (code behind `rtos_osInitKernel`), `sched` (an invocation of the
scheduler), `task` and `isr`. A frame has a program counter, the event, the
priority at entry (`prioAtEntry` of the scheduler, the saved priority of a user
task) and `lock`, the level the context has established; the code has no
variable for the latter, it is what the context relies on. `ee` is MSR[EE]. Code with
MSR[EE]=0 is one step, the rest is split where an interrupt makes a difference.

| action | code |
|---|---|
| `IsrTrigger`, `TaskTrigger` | `rtos_osTriggerEvent`, `rtos_triggerEvent` and `osTriggerEvent`: accept or count a loss, then call the scheduler at once or postpone |
| `IrqEnter`, `IsrExit` | `rtos_ivor4Handler`, non preemptable handlers included; the last interrupt hands a postponed request to the scheduler |
| `SchedLaunch`, `LaunchTask`, `EventDone`, `SchedReturn` | the loop of `rtos_osProcessTriggeredEvents` and `launchAllTasksOfEvent` |
| `Suspend`, `OsResume`, `UserResume`, `Reschedule` | the two forms of the ceiling protocol; the OS form lowers the level with interrupts enabled and calls the scheduler afterwards, the user form does both in one critical section except when it has to go on as a full handler |
| `OsTaskEnd`, `UserTaskEnd` | return of a task function; a user task that ends for any reason and still holds a ceiling is restored and the scheduler is called |

The idle task and all tasks may trigger, lock and release in any order and
number. Not in this module: a task started by an ISR that triggers an event (the
scheduler then runs inside the interrupt); processes and deadlines.

### UserTasks

`stack` again, with frames `os` (idle task, startup, or the OS part of an event
the scheduler has started), `isr`, `task` (`rtos_osRunUserTask` with the user
code it runs) and `sc` (a system call handler of class full). `svsp` is SPRG0,
the index of the innermost user task frame, which each frame saves for its
predecessor; `pid0` is the PID register, `usp` the stack pointer of the executing
user code and `userSP` the pointer published per process. The failure counters
(two causes: bad arguments, found by possibly preemptable handlers, and all
others, found with interrupts locked) and the gate `minLevel` are as in
the code. `aborts`, `initDone` and the field `out` of a frame are history: what
has happened, to compare with what the code has stored.

Each exit of a user task is an action of its own: `UserEnd`, `Exception`,
`IrqReturn` (deadline or stopped process), `BadArgument` and refused suspension;
all of them run `LeaveTask`, the code at `rut_endUserTaskByException`. From a
full handler this code runs with interrupts enabled and is split into
`CountCause`, `CountTotal`, `LeaveInterruptible` and `UnwindUserStack`.
`RestorePriority`, `ScheduleAtEnd` and `ReturnToCaller` are the common way out.
`ScheduleAtEnd` chooses the value of r4 freely because a C function need not
preserve it.

### EventTable and EventPlan

`EventTable` keeps the arrays as the code does: `table` sorted by falling
priority, `idMap` from public ID to the entry, `tasks` as one list with a slice
per event, times of `Width` bits. `CreateEvent` inserts and corrects the IDs,
`RegisterTask` inserts into the list and moves the slices behind, `InitKernel`
checks the configuration and makes the links and `prioMap`. A tick is one step
for the increment of the time (`OnOsTimerTick`) and one per event
(`CheckEventDue`), because other interrupts preempt it. A refused call changes
nothing and is no step.

`EventPlan` knows no arrays: events are numbered in order of creation and have a
priority, a cycle and the sequence of their tasks in order of registration; time
is a countdown per event without limit; at one tick events are looked at by
priority and then by creation. The refinement mapping finds an event by its ID,
its tasks by its slice, and its countdown as the signed difference of the
wrapping times.

Two things the code does not check are assumptions, named in the module: a cycle
is not shorter than a tick (else the event falls behind for ever), and the number
of tasks per event cannot overflow its counter (the code at
`rtos_scheduler.c:508` reads the counter of the event at the *index* `idEvent`, not
of the event with this ID; with the shipped limits this is without effect).

### SwIntScheduler

`frames` is the stack of what is running: the idle task, tasks and application
interrupts that preempted each other. `level` of a frame is the INTC's current
priority (CPR) while it is on top. `open` is what the INTC still lets through: after a
write to CPR one request that was passed on to the CPU before may come,
which is why `rtos_suspendAllInterruptsByPriority` synchronizes behind the write
(`Raised`, then `Synchronize`). The call of `rtos_activateTask` is split at each access to
shared state, with the critical section that its caller has to place around
it: `BeginCall`, `ReadFlag`, then `WriteFlag` or `CountLoss`, `EndCall`. The timer interrupt
has the highest level and is one step. `StartTask`, `Acknowledge` and `Return` are the frame
of a task, `swInt0..7` and the interrupt handler. `owed` and `failed` are history:
activations accepted and refused.

The environment is free: interrupts come at any time, the start of a
task that is ready may lag behind (other vectors, latency of the INTC). In each of its runs an actor
activates each of its tasks at most once, the idle task again and again.

### RTuinOS

All kernel code runs with interrupts disabled, so that each system call and each
kernel interrupt is one action: `Tick` (`onTimerTick`), `TaskSends` and `IsrSends`
(`sendEvent`), `TaskWaits` (`waitForEvent`, which either goes on with what it could
acquire or suspends the task), `ResetOverrun`. What the active task asks for is taken from the
sets `Requests`; it follows the rules of the kernel's assertions and documentation: waits for nothing it
owns, releases only what it owns, the idle task never waits.
The variables are those of the code, times are of `Width` bits. The rest is history:
`ctx` (does the saved context wait for a signal?), `holds` (what a task was told
to own), `arrived` (order of suspension), `late` and `missed` (true lateness of regular
tasks). Semaphores are used as pools of units: who releases a unit has taken it before.

### SerialIO and SerialQueues

`SerialIO` has the two ring buffers with the indices of the code and the registers of the DMA
channel (source address, remaining count and its initial value, request enabled, request present). The
reading functions and the receive interrupt exclude each other and are one step each. Writing has interrupts locked, too,
but the UART and the DMA go on, so that each access to the DMA's registers is a step:
`BeginWrite`, `PollDMA` (the loop that waits until no request is being served, `sio_serialIO.c:717`), `ClearRequest` (719),
`ReadAddress` (731), `AppendMessage` (up to the length the channel is programmed with, 801 to 805) and `StartDMA`. `Request` and
`Transfer` are the hardware, as `configDMA` sets it up: read one byte, count down, reload the count and disable at the
end. They come between any two of these steps. A request that is present when the channel is disabled may
still be served or may be dropped: `ClearRequest` has both, as nothing in the repository tells which.

`slip` is history, about the gap between poll and stop: it is "request" when a request comes in this gap and
"taken" from the moment in which it is served behind `ReadAddress`, when the writer relies on an address that is no longer
true. The next message reads the address again, which ends it.

`SerialQueues` has two sequences and says what each function
returns; the mapping reads the sequences out of the rings. `last`, what a call
returned or the UART sent, is the observable result in both.
`ImplementsQueues` allows one exception, `OutputSpoiled`: steps that leave the input queue alone while `slip` is "taken".

Abstractions: two of the driver's diagnostic counters (number of transfers, number of
received bytes) are left out, those of losses count modulo `Wrap`; a character that
comes while interrupts are locked waits in the UART; received zero bytes are not
in the alphabet.

## 3. Runs

Counts are distinct states; a run that ends with a violation stops there and has none.

| run | specification, instance | properties | states |
|---|---|---|---|
| `core` | `SafeScheduler`, `LoadSpec`: 3 events of priorities 3, 2, 1, one with two tasks of both kinds, 2 nesting interrupts (one entered with MSR[EE]=1, one not), ceilings at 2 and 3 | `SchedulerAssertions`, `OneFramePerPriority`, `CeilingExclusion`, `SchedulingIsPostponed`, `NoForgottenTrigger`, `AllServedAtLast`, `TopEventServed` | 26 817 |
| `groups` | 4 events of priorities 3, 3, 1, 1, 2 task parameters, ceilings at 3 and at 2, which no event has, 1 interrupt, losses up to 1 | `TypeOK`, `UrgentFirst`, `ActivationKeepsParam`, `ServedInOrder` | 1.5 million |
| `inversion_os` | 3 events with OS tasks, ceiling at 3 | `UrgentFirst` is violated | - |
| `tasks_stacks` | `UserTasks`: 2 processes, tasks of one run tasks of the other, preemptable system calls, a ceiling, 2 interrupts of which one runs callbacks, user stacks of 1 unit | `ContextIsInnermost`, `StacksApart`, `StackGivenBack`, `RunTaskIsNotRecursive` | 2.1 million |
| `tasks_live` | startup with 3 init tasks, then two processes whose code need not end, one with a deadline, one suspended by the other and by the OS; tasks of both are started by the idle task and by the lower of 2 interrupts; counters up to 1, `LiveSpec` | `EveryFailureCounts`, `InitInOrder`, `LateTaskEnds`, `SuspendedProcessEnds` | 49 812 |
| `tasks_result` | a user task that ends with a ceiling | `ResultIsTheTasks` is violated | - |
| `tables` | `EventTable`: up to 3 of 5 requests (one refused for its priority, one for its cycle; priority 2 unused), up to 3 tasks in any order; 4 bit time with ticks of 2 and cycles of 2 and 3 | `TablesSteerTheSearch`, `KeepsThePlan` (refinement), `CyclicIsTriggered` | 291 505 |
| `swint` | `SwIntScheduler`: two cyclic tasks and an event task, an interrupt between their levels; tasks, the idle task and the timer activate the same task | `PreemptedFromAbove`, `AcceptedAreExecuted`, `LossesCounted`, `DueInNextCycle`, `AllServedAtLast` | 341 496 |
| `rtuinos_sync` | `RTuinOS`: 3 tasks of 2 classes, two of them round robin, the third one regular; a mutex, a semaphore with one unit, an event from an interrupt, waits for any and for all with both timers | `ListsAgree`, `SyncObjectsConserved`, `NobodyWaitsInVain`, `SignalReachesTask`, `OverrunsCounted`, `CollectsBeforeLaterOnes`, `HandedToFirst` | 1.9 million |
| `rtuinos_live` | the same tasks with little work and a clock of 2 bits, `LiveSpec` | `TimeoutEndsWait`, `EveryoneHasItsTurn` | 15 530 |
| `serial` | `SerialIO`: both rings of 4 characters, messages of 0, 1 and 5, lines read into strings of 1 to 4 | `EolsCounted`, `ImplementsQueues` (refinement), `EverythingIsSent`, `ReaderNeverStuck` | 665 997 |
| `serial_stop` | the same, `Spec` | `StoppedCoherently` is violated | - |

`LossesCounted`, `ListsAgree`, `EolsCounted`, `EveryFailureCounts` and
`TablesSteerTheSearch` include the type invariant of their module.

Why the bounds are enough:

- *Events.* The search distinguishes an event above, at and below the current
  level; three priorities have all of them with one event to be overtaken. Groups
  need a first and another member, with a second group to lead into. A ceiling between the groups is
  at a level no event has: the release of a nested ceiling calls the scheduler with the event below it.
- *Interrupts.* Two levels have an outermost and a nested one; an interrupt can
  trigger any event any number of times, so more vectors add nothing but depth.
- *Losses and failure counters.* The code compares with the maximum only; a
  maximum of 1 has a value below, at and beyond it.
- *User stacks.* Stack pointers are compared only; one unit makes the difference
  between in use and free.
- *Levels.* In `UserTasks` the scheduler adds contexts above the current level;
  one level gives a preempting task on top of each kind of frame.
- *Time.* Four bits wrap every eight ticks. Cycle 2 is the tick itself and cycle 3
  falls between ticks, so that the phase moves; the largest cycle accepted is 3
  (a quarter of the range).
- *SwIntScheduler.* The timer level 4 stands for 15: it is above all others. Two
  tasks of same level and one above an interrupt have each order two actors can be
  in. The clock has 4 bits and wraps while activations are lost and served.
- *RTuinOS.* One class with two tasks has a first and a later waiter, the other
  class a preempting one. Clocks of 2 and 3 bits wrap often; a regular task can be
  early, late, and too late to tell (more than half the range, which
  `OverrunsCounted` excludes).
- *SerialIO.* A ring of four has room for three: empty, wrapped, full and a message
  split at the end all occur. A message longer than the ring finds room for any number of characters,
  none included. The write index has one bit more than the ring, so that both
  of its ranges matter. Input and output have no state in common; `OneSideSpec` uses one
  of them per behaviour to keep the product of their states out of the run.

The supervisor stack needs no bound: its depth is finite in each instance because
priorities rise along it, which is part of what is shown. `MaxDepth` in `UserTasks`
is not a bound of the model but names the depths `LiveSpec` is fair to: the idle task, each event
level and each interrupt that runs callbacks may have one user task on top. Without
`rtos_runTask`, as in `tasks_live`, no stack is deeper.

Deadlock is checked except in `tables`, where a refused configuration is never
started and nothing else happens.

### What the violations show

Each of these runs is a disagreement of the code with one of its comments or its
documentation; `findings` in `PROJECT.json` quotes the lines.

1. `inversion_os`: `rtos_osResumeAllTasksByPriority` lowers the priority before
   it enters the critical section in which it calls the scheduler. An interrupt in
   between may schedule an event of lower priority while a higher one, held
   back so far, is still waiting. Nothing is lost (`NoForgottenTrigger` holds in
   `core`, with all ceilings): the higher one is served afterwards. The user
   form of the release and the end of a user task with a ceiling have the same
   window.
2. `tasks_result`: the result of a user task that still holds a ceiling is kept in
   a register that the scheduler does not preserve.
3. `serial_stop`: a request of the UART comes between the poll of the DMA channel and the write that
   disables it, and the transfer is done when the address was read already. The channel is then resumed with a
   length that is one too large: behind the message a byte is sent that nobody wrote, and the address passes the
   write index. If the next message comes behind this, it finds no room although everything has been sent, is lost, and the
   channel is started to send the ring once more. From the reading of the address for that message on the driver and the
   DMA agree again. `DmaSendsWhatIsPending` proves that this is the only way out of step, that it ends there, and that the
   assertions on the length never fail.

### Divergences without a run

Seen while modelling, each a step of a model or excluded by an instance as said:

- `rtos_scheduler.c:1824`: with nested ceilings at levels no event has, the release of the inner one calls
  the scheduler with an event below the outer level, which the assertion at its
  entry excludes. In a production build the scheduler finds nothing and
  returns. In `core` each level of a ceiling has an event and all assertions hold. `groups` has a ceiling at
  another level and shows that order and urgency do not suffer.
- `rtos_ivorHandler.S:972`: the failure counters are incremented with interrupts
  enabled when a system call handler of class full finds a bad argument. A
  failure counted meanwhile by another task of the process is overwritten.
  `tasks_live` has no such handlers; `CountCause` and `CountTotal` are the
  two steps in the model.
- `rtos_process.c:253`: processes are in the running state from their initialization
  on. `rtos_scheduler.c:1481` says that they are stopped: "We don't want to see a callback from an I/O driver after
  resuming interrupt processing and while an init task is executed." In the model, as in the code, a
  callback from an interrupt can run in a process before and during its init task; `InitInOrder` is about the init
  tasks alone.
- `LSM/RTOS-VLE/code/RTOS/rtos.c:603`: the flag is tested and set in two steps. Lines 561 to 565 restrict
  concurrent callers, but the timer interrupt is one of them, too: without a
  critical section up to its level an activation of a cyclic task can merge with the one by the
  timer and none of them is counted as lost. `Protected` is the complete rule, and
  `AcceptedAreExecuted` is proved from it.
- `LSM/RTuinOS/code/RTOS/rtos.c:1695`: a task that is started by a delay and uses the absolute
  timer later has an overrun with its first use, since its reference is time zero; `rtos.h:526` says
  that it is the start of the task.
- The same kernel: a timeout of UINT_MAX waits one tick less than documented, as it is not
  incremented for the tick in progress; a start condition with an absolute time of INT_MAX starts at
  once; a regular task that is resumed early again and again gets ahead of its
  time by more than half of the range, where its overruns can't be told
  any more; tasks of *different* classes that wait for several mutexes can wait
  in a circle (`CollectsBeforeLaterOnes` holds within a class).
- `sio_serialIO.c:1012`: a full buffer handed out as a line is terminated at the end
  of the caller's string, not behind the copied characters as lines 891 to 892 let
  expect: with a string longer than the buffer old contents of the string
  become part of the line. The run has strings up to the length of the buffer, `WholeBuffer`
  has the code's behaviour for all.
- The init task of the OS is served last (`rtos_scheduler.c:1109`), another comment says
  first (459); every configured process is released after the init tasks, also one that an init
  task has suspended (`rtos_scheduler.c:1569`); the state of a process is tested
  before the critical section that starts its task
  (`rtos_ivorHandler.S:775`), so that one task may still start in a process just suspended. It is aborted as any other.

## 4. Fairness

Safety is checked without fairness.

- `LoadSpec` (`SafeScheduler`): strong fairness of every kernel step and of the end
  of tasks, per vector for the end of interrupts; weak fairness for steps inside a
  critical section, which nothing can disable. Interrupts may come for ever, hence strong
  fairness: the step is enabled again and again, and the CPU has time left. That
  is the condition on any schedulable system: finite ISRs and tasks, an interrupt
  load below 100 %. Nothing forces interrupts, triggers or ceilings to happen.
  `AllServedAtLast` says in addition that no new work comes from some moment on.
- `LiveSpec` (`UserTasks`): strong fairness of the kernel's steps, the return from the scheduler included, per depth of the
  stack, deadlines pass, and the interrupt of the highest level (the timer tick) comes again and
  again. User code has *no* fairness: it may loop for ever, and the point of
  the two properties is that the kernel gets rid of it nevertheless. There is one
  limit, which both properties state: a context waits for everything on top
  of it, so that a task without a deadline of a running process (say, a callback from
  an interrupt) that loops holds up the abort of a late task below it.
- `TickSpec` (`EventTable`): the tick comes and its loop over the events ends.
- `LiveSpec` (`SwIntScheduler`): weak fairness of the code on top, strong fairness of the start of
  each task: the INTC serves a request that is above the level again
  and again. `AllServedAtLast` holds when no new work comes from some moment on.
- `LiveSpec` (`RTuinOS`): the clock goes on (weak fairness of `Tick`, which is always possible). Nothing is
  asked of the tasks.
- `LiveSpec` (`SerialIO`): the steps of a write that has begun and of the DMA; strong
  fairness of `Request` because the UART's request is a level that stays until it is served, while the channel
  is disabled and enabled by writers. It is asked for outside of the gap between poll and stop: a level does not wait for
  just this moment each time. That anybody writes or reads is not assumed; `ReaderNeverStuck`
  has it as its condition.

## 5. Proofs

Each safety property that a run checks on a small instance, and each refinement, is also a
theorem, for every value of the constants that meets the named assumptions of its module. Liveness is
not (see the end of this section).

None of the properties is inductive. The proofs of a component rest on one inductive invariant
(`IInv`), and most need the same three facts: `Init` has it, each action keeps it,
and the property follows. TLC checked the invariants on the instances of the runs before they were proved.

### Assumptions

- The types of the constants and the checks that the code makes of them at
  initialization (`EventAssumption`, `TriggerAssumption`, `TableAssumption`, `ProcessAssumption`,
  `LevelAssumption`, `SwIntAssumption`, `RTuinOSAssumption`, `SerialIOAssumption`).
- `WidthAssumption` of `EventTable`, `SwIntScheduler`, `RTuinOS` and `SerialIO` says of 2^Width what the prover, which knows
  nothing of powers, has to know: that it is a multiple of 4, of 2, or of the size of the
  ring. TLC evaluates it in each run.
- Six theorems have a hypothesis of their own, each for a reason in the code:

| theorem | hypothesis | why |
|---|---|---|
| `AssertionsHold` | each ceiling is the level of an event | `rtos_scheduler.c:1824`, see the divergences; true of `core` |
| `UrgencyWithNarrowCeilings` | no two priorities above the event of a task fit below a ceiling | else the release of a ceiling inverts priorities (run `inversion_os`); true of `groups` |
| `AcceptedOnceIfProtected` | `Protected`: callers exclude each other and the timer | `rtos.c:561`; assumed by `MCSwIntScheduler` |
| `OverrunsAreCounted` | regular tasks use the absolute timer from their start | `LSM/RTuinOS/code/RTOS/rtos.c:1695`, see the divergences; assumed by `MCRTuinOS` |
| `FailuresAreCounted` | no preemptable system call handlers | `rtos_ivorHandler.S:972`, see the divergences; so in `tasks_live` |
| `QueuesAreImplemented` | a string is not longer than the input buffer | `sio_serialIO.c:1012`, see the divergences; so in `serial` |

### SafeScheduler

| theorem | statement |
|---|---|
| `ContextsNest` | `Spec => []IInv` |
| `TypeCorrect` | `Spec => []TypeOK` |
| `StackIsBounded` | `Spec => []OneFramePerPriority` |
| `CeilingIsExclusive` | `Spec => []CeilingExclusion` |
| `PostponedToTheEnd` | `Spec => []SchedulingIsPostponed` |
| `TriggersAreKept` | `Spec => []NoForgottenTrigger` |
| `ServingIsOrdered` | `Spec => ServedInOrder` |
| `ParameterIsKept` | `Spec => []ActivationKeepsParam` |
| `UrgencyWithNarrowCeilings` | `NarrowCeilings => (Spec => []UrgentFirst)` |
| `AssertionsHold` | `CeilingsOfEvents => (Spec => []SchedulerAssertions)` |

What a context finds when it gets the CPU back depends on everything that was put on
top of it meanwhile. `IInv` therefore speaks of the whole stack:

- `WellFormed`: what each kind of frame looks like at each of its points; a
  serving invocation has lifted the level strictly to the priority of its event.
- `FitsOn`: a frame starts at the level the one below has established
  (`f.prio = g.lock`), a task runs on the invocation that serves its event, an invocation
  on a waiting caller, and nothing on a search in progress.
- `Nested`: both along the stack, levels never fall upwards, and above an
  unfinished interrupt there are only interrupts.
- `TopInv`: the context that has the CPU finds its own level.
- `InProgressInv`: events in progress are those that are being served.
- `PostponedInv`: a request is pending only under an unfinished interrupt.

A step changes the top frame only, pushes one or pops one. `ReplaceStep`, `CallStep`
and `PopStep` say for each of the three what is left to prove at the top;
`IsrStepIInv`, `SchedStepIInv` and `TaskStepIInv` go through the actions with them.
Pushing needs that the new frame starts at the level of the top (`TopInv`),
popping that the context returns to the level of the one below (`FitsOn`).
`StackIsBounded` follows because serving invocations lift the level strictly and it
never falls; `CeilingIsExclusive` because a task on top of another one has an
invocation in between. `First` is a minimum of a set of numbers, whose existence comes from
the well-foundedness of < on the naturals.

`SafeTriggerProofs` adds what a search has left behind. A triggered event is *covered*
as long as somebody is going to look at it: a level above it, a request of an interrupt, a search that has not passed it, or a
task that remembers to call the scheduler (`TriggersCovered`). The steps hand an event from one cover to the
next. The order of the table makes this possible: a search that starts at a level leaves nothing
out that this level holds back (`EventByPriorityOrder`). For the assertions, each search has to start at or above the level at
which the scheduler was called (`SearchesStartAbove`), which is where the levels of the ceilings matter.
`UrgentFirst` needs that all levels in use are those of events and ceilings (`LevelsFromCeilings`).

### EventTable

| theorem | statement |
|---|---|
| `TablesAreRight` | `Spec => []TablesSteerTheSearch` |
| `PlanIsKept` | `Spec => KeepsThePlan` |

- `Sorted`: the table is sorted at each moment of its construction, `SlicesInv`: the slices of the
  events are behind each other in the list of tasks and fill it. With them, the links and the map of
  priorities lead to the *first* event below some priority (`LinksFindTheFirst`, `PrioMapFindsTheFirst`).
- `PhaseInv`: nothing is created after the kernel is running, no tick runs before.
- `IdsInv`: the map from IDs is a bijection that creation keeps while it moves entries.
- `TimesInv`: a due time is less than a quarter of the clock's range away from the time of the tick, therefore the
  signed difference of the wrapped numbers is the time that is left (lemmas about `SameTime` and `Signed`).

The refinement goes action by action: each one is the step of `EventPlan` with its name, or a stutter (a tick before the clock is
started, the scan of an event without a cycle). An insertion in the table or in
the list of tasks changes indices of all that is behind, but by ID nothing (`IsInserted`).

### UserTasks

| theorem | statement |
|---|---|
| `ContextsAreInOrder` | `Spec => []IInv` |
| `TypeCorrect` | `Spec => []TypeOK` |
| `TheRightTaskIsAborted` | `Spec => []ContextIsInnermost` |
| `StacksStayApart` | `Spec => []StacksApart` |
| `StacksAreGivenBack` | `Spec => []StackGivenBack` |
| `GateIsKept` | `Spec => []RunTaskIsNotRecursive` |
| `InitTasksAreInOrder` | `Spec => []InitInOrder` |
| `FailuresAreCounted` | `Spec => []EveryFailureCounts`, assuming `Services = {}` |

The supervisor stack is a chain of frames, of which each is `WellFormed` and `FitsOn` the one
below. What the code restores was saved in a frame somewhere in it, and each part of `StackInv`
says which frame that is: `Chained`, the SPRG0 of each task leads to the next task below, and the CPU's to the innermost;
`Apart` and `Returned`, the stack pointers of the tasks of a process, of the innermost one and of the
process agree; `Gated`, the gate has the level of the innermost caller of `rtos_runTask` that waits, and each caller saved the one of
the next. `CpuInv` has the executing frame's view of PID, stack pointer and level, `Started` the part of the
stack at its bottom during startup. For the failures, `CountsInv` adds that the
counters agree with the history, up to saturation, and that nobody is between two increments.

### SwIntScheduler

| theorem | statement |
|---|---|
| `PreemptionIsOrdered` | `Spec => []PreemptedFromAbove` |
| `AcceptedOnceIfProtected` | `Spec => []AcceptedAreExecuted`, assuming `Protected` |
| `CyclicTasksAreInTime` | `Spec => []DueInNextCycle` |
| `NoLossIsMissed` | `Spec => []LossesCounted` |

- `Nested`: each frame has the level of its actor, or the higher one of the section it is
  in (`WellFormed`), and what is on top of it was started at a level above (`Above`). The case
  that makes the synchronization necessary: a frame that has raised its level but has not
  synchronized may be preempted from below its new level, which `Above` allows only
  until the section has begun.
- `FlagsInv`: a running task's flag is set until it is acknowledged, a flag seen clear is clear when it is
  written, and a set flag stands for one activation.
- `ReaderIsAlone` is the heart of the second theorem: between reading a flag and writing it,
  the level of the section is at least that of the timer and of each other caller
  that could set the flag (`Protected`), and none of those can be on top of the reader (`Above`).
- `LossInv`: the loss counter and the activations that have failed but are not counted yet (`Counting`) make up the failed ones, as long as the
  maximum is not reached. This needs no protection.

### RTuinOS

| theorem | statement |
|---|---|
| `KernelIsConsistent` | `Spec => []IInv` |
| `TasksAreInOneList` | `Spec => []ListsAgree` |
| `SyncObjectsAreConserved` | `Spec => []SyncObjectsConserved` |
| `NobodyIsForgotten` | `Spec => []NobodyWaitsInVain` |
| `SignalsReachTasks` | `Spec => []SignalReachesTask` |
| `ReleasedObjectsGoToTheFirst` | `Spec => HandedToFirst` |
| `CollectorsWereFirst` | `Spec => []CollectsBeforeLaterOnes` |
| `OverrunsAreCounted` | `RegularFromStart => (Spec => []OverrunsCounted)` |

`IInv` has six parts: `ListInv` and `OrderInv`, each task is in one list and the suspended ones are ordered by class and by
the time of their suspension; `WaitInv`, nobody waits for what it owns or gets what it does not wait for; `HoldersInv`,
how often each sync object is under way or owned; `SignalReachesTask` and `NobodyWaitsInVain`. The last two
are properties, but are not inductive without the others: that a released object is handed to the first task that wants it
says little unless nobody waits for a free one.

`RTuinOSLists` has the lemmas about the kernel's lists: removal of those that are resumed, insertion by class, the due lists
(what is in them, that nothing is in them twice, and in which order). The tick and `sendEvent` are two cases of one step, which
posts something to suspended tasks and resumes those for which it is enough (`Serves`), so that each part of the invariant is proved
once for both. `CollectsInv` is the second invariant: who has got part of its objects was in the list before everybody
of its class that waits for the same ones, because objects go to the first one that wants them (`FirstIsServed`). The
overruns are counted with wrapping times; `AgeInv` relates the reference of the absolute timer to the true lateness of
a task by congruence modulo 2^Width (`SameTime`).

### SerialIO

| theorem | statement |
|---|---|
| `EolsAreCounted` | `Spec => []EolsCounted` |
| `DmaSendsWhatIsPending` | `Spec => []DmaHasWork` |
| `QueuesAreImplemented` | `Spec => ImplementsQueues`, assuming that no string is longer than the input buffer |

The contents of a ring are a sequence, its `Window`: writing appends to it (`WindowAppend`) and
reading drops from its front (`WindowDrop`), wherever the ring wraps.

- `EolsInv`: the counter is the number of ends of line in the window.
- `DmaInv` has two parts. `DmaAlways` holds in any case: an enabled channel, and one that is about to be, has something to
  transfer, and a writer has disabled it before it touches the buffer. `DmaCoherent` holds unless `slip` is "taken": an
  enabled channel has exactly the pending characters still to transfer, a disabled one has nothing pending except while
  a writer has it stopped, and the address the writer has read is the one of the channel. `ReadKeeps` shows that reading the address
  establishes it again.

`DmaHasWork` has the assertions of `sio_osWriteSerial` (`sio_serialIO.c:784`, 800) from the first part and `StoppedCoherently`
from the second one.

For the refinement each action is shown to be a step or a stutter of `SerialQueues`, or to have spoiled the output: the stutters are
`PollDMA`, `ClearRequest`, `ReadAddress`, `StartDMA`, `Request`, and `BeginWrite` unless
there is nothing to write; `AppendMessage` and `Transfer` are steps if the address is the one that was read (`InTime`). The copy of
a message, in one or in two parts, never writes on a character that is not transferred when the address is read (`CopyAppends`).

### Only model-checked

Liveness under fairness is out of the prover's reach: `AllServedAtLast` (both), `TopEventServed`, `LateTaskEnds`,
`SuspendedProcessEnds`, `CyclicIsTriggered`, `TimeoutEndsWait`, `EveryoneHasItsTurn`, `EverythingIsSent` and
`ReaderNeverStuck` stay with TLC and its instances. The runs that end with a violation are counterexamples and need no
proof.

## 6. Not modelled

- Pure hardware configuration (MPU regions, INTC and PIT registers, startup, pins)
  and the C library.
- Checks of addresses against linker symbols: they are a refusal that may
  happen (`BadArgument`).
- An exception inside the first instruction of another exception handler, and
  OS exceptions, which halt the system.
- Time budgets in microseconds: a deadline passes at any moment after the start of its task.
- The scheduler inside an ISR callback.
- In RTuinOS: stack usage, the task switch itself, configurations without semaphores, mutexes or
  round robin (conditional compilation removes parts of what is modelled).
- The components of section 1 that are marked as not modelled.

By far the largest part of the repository's lines is register definitions of the
vendor (`MPC5643L.h`, more than 20 000 lines, in ten copies), copies of the same files in each of
the projects, and hardware setup. None of it has behaviour of its own: the share of lines that the models
stand for is therefore small, the share of the kernels' logic is not.

## 7. Plan

In order of importance:

1. `SafeScheduler`, `UserTasks`, `EventTable`, `SwIntScheduler`, `RTuinOS`, `SerialIO` (done).
2. Their safety properties and both refinements as theorems (done, see section 5).
3. `PriorityServer`, abstract: a set of triggered events, one activity per
   priority, the most urgent first except across the release of a ceiling.
   `SafeScheduler` implements it; proof of the steps.
4. The failure counters with preemptable system call handlers: how many failures can be
   overwritten at most.
5. The scheduler inside ISR callbacks, and the message queue of RTuinOS' tc12.
