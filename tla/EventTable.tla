---------------------------- MODULE EventTable -----------------------------
(***************************************************************************)
(* The tables of safe-RTOS-VLE (rtos_scheduler.c): creation of events and  *)
(* registration of tasks, the checks and the search tables made at kernel  *)
(* initialization, and the clock tick that triggers cyclic events.         *)
(*                                                                         *)
(* The event table is kept in order of falling priority while it is built, *)
(* so that events and the lists of tasks move in memory; the public IDs and*)
(* the pointers into the list of tasks are corrected. Pointers are indexes *)
(* from 1 here, 0 is NULL; IDs count from 1, too. Index Len(table) + 1 is  *)
(* the guard, an event of priority 0. Times are unsigned of Width bits.    *)
(*                                                                         *)
(* A refused call changes nothing and is no step. Arguments that are stored*)
(* or compared only (time budget, PID that may trigger) are left out.      *)
(***************************************************************************)
EXTENDS Integers, Sequences, FiniteSetsExt, SequencesExt

CONSTANTS
  NoProcesses,     (* RTOS_NO_PROCESSES                                     *)
  Configured,      (* processes that have a stack, and the OS               *)
  RunPermissions,  (* pairs caller, target granted for rtos_runTask         *)
  MaxEvents,       (* RTOS_MAX_NO_EVENTS                                    *)
  MaxTasks,        (* RTOS_MAX_NO_TASKS                                     *)
  MaxTasksPerEvent, (* the range of eventDesc_t.noTasks                     *)
  MaxPriority,     (* RTOS_MAX_TASK_PRIORITY                                *)
  MaxLockable,     (* RTOS_MAX_LOCKABLE_TASK_PRIORITY                       *)
  Width,           (* bits of the system time                               *)
  Step,            (* RTOS_CLOCK_TICK_IN_MS                                 *)
  EventInputs,     (* arguments of rtos_osCreateEvent: prio, cycle, first   *)
  TaskInputs       (* arguments of registerTask: id, fct, pid               *)

NULL == 0
NoFct == "0"
InitTask == 0      (* EVENT_ID_INIT_TASK                                    *)

(* The code checks none of the last two conditions: fewer tasks than a     *)
(* counter holds, no cycle below the tick.                                 *)
ASSUME TableAssumption ==
  /\ NoProcesses \in Nat /\ Configured \subseteq 0..NoProcesses /\ 0 \in Configured
  /\ RunPermissions \subseteq (1..NoProcesses) \X (1..NoProcesses)
  /\ MaxEvents \in Nat \ {0} /\ MaxTasks \in Nat \ {0}
  /\ MaxPriority \in Nat \ {0} /\ MaxLockable \in 0..(MaxPriority - 1)
  /\ Width \in Nat /\ Width > 2 /\ Step \in Nat \ {0}
  /\ \A in \in EventInputs : in.prio \in Nat /\ in.cycle \in Nat /\ in.first \in Nat
  /\ \A in \in TaskInputs : in.id \in Nat /\ in.fct \in STRING /\ in.pid \in Nat
  /\ MaxTasksPerEvent \in Nat /\ MaxTasksPerEvent >= MaxTasks
  /\ \A in \in EventInputs : in.cycle = 0 \/ in.cycle >= Step

VARIABLES
  table,      (* rtos_eventAry without the guard                           *)
  idMap,      (* rtos_mapEventIDToPtr                                      *)
  tasks,      (* rtos_taskCfgAry                                           *)
  initTasks,  (* PIDs that have an entry in rtos_initTaskCfgAry            *)
  prioMap,    (* rtos_mapPrioToEvent, empty before the initialization      *)
  phase,      (* "config", "init": rtos_osInitKernel, "run" or "failed"    *)
  tiOs,       (* rtos_tiOs                                                 *)
  step,       (* rtos_tiOsStep                                             *)
  scan        (* pEvent of checkEventDue, 0 if the tick is not in progress *)

vars == <<table, idMap, tasks, initTasks, prioMap, phase, tiOs, step, scan>>
clock == <<tiOs, step, scan>>

Modulus == 2^Width

(* What the proofs use of the powers of two.                               *)
ASSUME WidthAssumption ==
  2^(Width - 2) \in Nat \ {0} /\ 2^(Width - 1) = 2 * 2^(Width - 2) /\ Modulus = 4 * 2^(Width - 2)

Wrapped(t) == t % Modulus
Signed(t) == IF Wrapped(t) < 2^(Width - 1) THEN Wrapped(t) ELSE Wrapped(t) - Modulus

NoEvents == Len(table)
Guard == NoEvents + 1
Prio(i) == IF i = Guard THEN 0 ELSE table[i].prio

Init ==
  /\ table = <<>> /\ idMap = <<>> /\ tasks = <<>> /\ initTasks = {}
  /\ prioMap = <<>> /\ phase = "config"
  /\ tiOs = Modulus - 1 /\ step = 0 /\ scan = 0

-----------------------------------------------------------------------------
(* Configuration *)

(* All times are below a quarter of the range.                             *)
TimingOk(in) ==
  IF in.cycle = 0 THEN in.first = 0
                  ELSE in.cycle < 2^(Width - 2) /\ in.first < 2^(Width - 2)

(* Behind all events of same or higher priority.                           *)
PositionBefore(prio) == Min({i \in 1..NoEvents : Prio(i) <= prio} \cup {Guard})
Position(prio) == Min({i \in 1..NoEvents : Prio(i) < prio} \cup {Guard})

(* The IDs issued so far follow their events, the new one is the last.     *)
MapInserted(pos) == Append([v \in 1..Len(idMap) |-> IF idMap[v] >= pos THEN idMap[v] + 1
                                                                      ELSE idMap[v]], pos)

CreateEvent(in) ==
  /\ phase = "config"
  /\ NoEvents < MaxEvents
  /\ in.prio \in 1..MaxPriority
  /\ TimingOk(in)
  /\ LET pos == Position(in.prio)
         new == [prio |-> in.prio, cycle |-> in.cycle, due |-> in.first, state |-> "idle",
                 taskAry |-> NULL, noTasks |-> 0, next |-> NULL]
     IN  /\ table' = InsertAt(table, pos, new)
         /\ idMap' = MapInserted(pos)
  /\ UNCHANGED <<tasks, initTasks, prioMap, phase, clock>>

(* The number of tasks is looked up by index instead of by ID.             *)
RegistrationOk(in) ==
  /\ in.id \in 1..NoEvents
  /\ in.pid <= NoProcesses
  /\ Len(tasks) < MaxTasks
  /\ table[in.id].noTasks < MaxTasksPerEvent
  /\ in.fct # NoFct

(* Tasks of an event are consecutive: the new one comes behind the last one*)
(* and all lists that start here or further behind move.                   *)
Moved(i, pos) == table[i].taskAry >= pos

RegisterTask(in) ==
  /\ phase = "config"
  /\ RegistrationOk(in)
  /\ LET e == idMap[in.id]
         new == [fct |-> in.fct, pid |-> in.pid]
         first == table[e].taskAry = NULL
         pos == IF first THEN Len(tasks) + 1 ELSE table[e].taskAry + table[e].noTasks
     IN  /\ tasks' = InsertAt(tasks, pos, new)
         /\ table' = [i \in 1..NoEvents |->
              IF i = e THEN [table[i] EXCEPT !.noTasks = @ + 1, !.taskAry = IF first THEN pos ELSE @]
              ELSE IF ~first /\ Moved(i, pos) THEN [table[i] EXCEPT !.taskAry = @ + 1]
              ELSE table[i]]
  /\ UNCHANGED <<idMap, initTasks, prioMap, phase, clock>>

RegisterInitTask(in) ==
  /\ phase = "config"
  /\ in.id = InitTask
  /\ in.pid <= NoProcesses /\ in.pid \notin initTasks
  /\ in.fct # NoFct
  /\ initTasks' = initTasks \cup {in.pid}
  /\ UNCHANGED <<table, idMap, tasks, prioMap, phase, clock>>

-----------------------------------------------------------------------------
(* Kernel initialization *)

TasksOf(i) == SubSeq(tasks, table[i].taskAry, table[i].taskAry + table[i].noTasks - 1)
MaxPidInUse == Max({tasks[k].pid : k \in 1..Len(tasks)})

ConfigurationOk ==
  /\ NoEvents > 0 /\ tasks # <<>>
  /\ \A k \in 1..Len(tasks) : tasks[k].pid \in Configured
  /\ initTasks \subseteq Configured
  /\ \A p \in 1..MaxPidInUse : <<p, MaxPidInUse>> \notin RunPermissions
  /\ \A i \in 1..NoEvents :
       /\ table[i].noTasks > 0
       /\ Prio(i) > MaxLockable =>
            \A k \in 1..Len(TasksOf(i)) : TasksOf(i)[k].pid \in {0, MaxPidInUse}

(* The first event of each priority; the guard is one of them.             *)
IsFirst(i) == i = 1 \/ Prio(i) < Prio(i - 1)
PrioBefore(i) == IF i = 1 THEN MaxPriority + 1 ELSE Prio(i - 1)
FirstOf(i) == Max({h \in 1..i : IsFirst(h)})

(* Where the scheduler goes on after it has served an event.               *)
Link(i) == IF IsFirst(i) THEN i + 1 ELSE FirstOf(i)

PrioEntryBelow(i) == Prio(i)..(PrioBefore(i) - 2)
PrioEntry(i) == Prio(i)..(PrioBefore(i) - 1)

InitKernel ==
  /\ phase = "config"
  /\ IF ConfigurationOk
     THEN /\ phase' = "init"
          /\ table' = [i \in 1..NoEvents |-> [table[i] EXCEPT !.next = Link(i)]]
          /\ prioMap' = [p \in 0..MaxPriority |->
                           Max({1} \cup {i \in 1..Guard : IsFirst(i) /\ p \in PrioEntry(i)})]
          /\ tiOs' = Modulus - 1 /\ step' = 0
     ELSE /\ phase' = "failed"
          /\ UNCHANGED <<table, prioMap, tiOs, step>>
  /\ UNCHANGED <<idMap, tasks, initTasks, scan>>

(* The init tasks are through, the clock starts to count.                  *)
ReleaseScheduler ==
  /\ phase = "init" /\ scan = 0
  /\ phase' = "run" /\ step' = Step
  /\ UNCHANGED <<table, idMap, tasks, initTasks, prioMap, tiOs, scan>>

-----------------------------------------------------------------------------
(* The clock tick, an interrupt service routine that others can preempt    *)

OnOsTimerTick ==
  /\ phase \in {"init", "run"} /\ scan = 0
  /\ tiOs' = Wrapped(tiOs + step)
  /\ scan' = 1
  /\ UNCHANGED <<table, idMap, tasks, initTasks, prioMap, phase, step>>

(* osTriggerEvent: a trigger of a busy event is counted as loss, if it is  *)
(* in progress already it is still "triggered" here.                       *)
Triggered(e) == [e EXCEPT !.state = "triggered"]

IsDueAtOnce(e) == e.due = tiOs
IsDue(e) == Signed(e.due - tiOs) <= 0

NextDue(e) == Wrapped(e.due + e.cycle)

CheckEventDue ==
  /\ scan # 0
  /\ LET e == table[scan] IN
       table' = IF e.cycle > 0 /\ IsDue(e)
                THEN [table EXCEPT ![scan] = [Triggered(e) EXCEPT !.due = NextDue(e)]]
                ELSE table
  /\ scan' = IF scan < NoEvents THEN scan + 1 ELSE 0
  /\ UNCHANGED <<idMap, tasks, initTasks, prioMap, phase, tiOs, step>>

(* rtos_osTriggerEvent by any OS code, and the scheduler, which runs when  *)
(* no interrupt is in progress and is specified in SafeScheduler.          *)
TriggerEvent(id) ==
  /\ phase \in {"init", "run"}
  /\ id \in 1..NoEvents
  /\ table' = [table EXCEPT ![idMap[id]] = Triggered(@)]
  /\ UNCHANGED <<idMap, tasks, initTasks, prioMap, phase, clock>>

ServeEvent(i) ==
  /\ phase \in {"init", "run"} /\ scan = 0
  /\ i \in 1..NoEvents
  /\ table[i].state = "triggered"
  /\ table' = [table EXCEPT ![i].state = "idle"]
  /\ UNCHANGED <<idMap, tasks, initTasks, prioMap, phase, clock>>

-----------------------------------------------------------------------------
Next ==
  \/ \E in \in EventInputs : CreateEvent(in)
  \/ \E in \in TaskInputs : RegisterTask(in) \/ RegisterInitTask(in)
  \/ InitKernel \/ ReleaseScheduler
  \/ OnOsTimerTick \/ CheckEventDue
  \/ \E i \in 1..MaxEvents : TriggerEvent(i) \/ ServeEvent(i)

Spec == Init /\ [][Next]_vars

(* The timer hardware raises its interrupt for ever.                       *)
TickSpec == Spec /\ WF_vars(OnOsTimerTick) /\ WF_vars(CheckEventDue)

-----------------------------------------------------------------------------
EventType == [prio : 1..MaxPriority, cycle : 0..(Modulus - 1), due : 0..(Modulus - 1),
              state : {"idle", "triggered"}, taskAry : 0..MaxTasks, noTasks : 0..MaxTasks,
              next : 0..(MaxEvents + 1)]

(* Every variable has its type: no time leaves its Width bits and no index *)
(* its array.                                                              *)
TypeOK ==
  /\ table \in Seq(EventType) /\ NoEvents <= MaxEvents
  /\ idMap \in [1..NoEvents -> 1..NoEvents]
  /\ tasks \in Seq([fct : STRING, pid : 0..NoProcesses]) /\ Len(tasks) <= MaxTasks
  /\ initTasks \subseteq 0..NoProcesses
  /\ prioMap = <<>> \/ prioMap \in [0..MaxPriority -> 1..Guard]
  /\ phase \in {"config", "init", "run", "failed"}
  /\ tiOs \in 0..(Modulus - 1) /\ step \in {0, Step} /\ scan \in 0..NoEvents

(* After an event has been served the search goes on at the most urgent of *)
(* the others that are not above it: the earlier ones of same priority may *)
(* have been triggered again meanwhile (rtos_scheduler.c:1394-1397).       *)
LinksFindTheFirst ==
  phase \in {"init", "run"} =>
    \A i \in 1..NoEvents :
      table[i].next = Min({j \in 1..Guard : j # i /\ Prio(j) <= Prio(i)})

(* The release of a ceiling starts the search at the most urgent event the *)
(* ceiling has held back (rtos_scheduler.c:1421-1431), whether some event  *)
(* has this priority or none.                                              *)
PrioMapFindsTheFirst ==
  phase \in {"init", "run"} =>
    \A p \in 0..MaxPriority : prioMap[p] = Min({i \in 1..Guard : Prio(i) <= p})

(* Whatever the order of the calls that configure the system, the tables   *)
(* have their types and lead each search to the most urgent event.         *)
TablesSteerTheSearch == TypeOK /\ LinksFindTheFirst /\ PrioMapFindsTheFirst

(* The tables keep the promise made by event IDs and times: EventPlan with *)
(* each event found by its ID, its tasks in the list and its remaining time*)
(* by the difference of wrapping numbers.                                  *)
EventOf(id) == table[idMap[id]]
InTick(id) == step # 0 /\ scan # 0 /\ idMap[id] >= scan
Remaining(id) == Signed(EventOf(id).due - tiOs + IF InTick(id) THEN step ELSE 0)

Plan == INSTANCE EventPlan WITH
  Requests <- EventInputs,
  Tasks <- {[fct |-> in.fct, pid |-> in.pid] : in \in TaskInputs},
  events <- [id \in 1..NoEvents |-> [prio |-> EventOf(id).prio, cycle |-> EventOf(id).cycle,
                                     tasks |-> TasksOf(idMap[id])]],
  left <- [id \in 1..NoEvents |-> IF EventOf(id).cycle = 0 THEN 1 ELSE Remaining(id)],
  pending <- {id \in 1..NoEvents : InTick(id)},
  triggered <- {id \in 1..NoEvents : EventOf(id).state = "triggered"}

KeepsThePlan == Plan!Spec

(* A cyclic event is triggered again and again, whatever else happens; its *)
(* time never drops out of the half of the clock that counts as future.    *)
CyclicIsTriggered ==
  \A id \in 1..MaxEvents :
    (phase = "run" /\ id <= NoEvents /\ EventOf(id).cycle > 0)
      ~> (id <= NoEvents /\ EventOf(id).state = "triggered")
=============================================================================
