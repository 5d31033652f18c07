------------------------------ MODULE RTuinOS ------------------------------
(***************************************************************************)
(* The kernel of RTuinOS: tasks that wait for events and for time, mutexes *)
(* and semaphores that are handed over to waiting tasks, priority classes  *)
(* with round robin. Modelled from LSM/RTuinOS/code/RTOS/rtos.c.           *)
(*                                                                         *)
(* A system call and a kernel interrupt run with interrupts disabled, each *)
(* is one step. Between two steps of the kernel only the active task runs; *)
(* what it calls the kernel for is chosen freely within the rules that the *)
(* assertions of the kernel and its documentation set: it waits only for   *)
(* sync objects it does not have and releases only those it has, and the   *)
(* idle task never waits.                                                  *)
(*                                                                         *)
(* A request is what a task passes to rtos_waitForEvent: the event mask,   *)
(* the flag that all of them are needed, and the time parameter.           *)
(***************************************************************************)
EXTENDS Integers, Sequences, FiniteSets

CONSTANTS
  NoTasks,         (* RTOS_NO_TASKS, without the idle task                 *)
  NoClasses,       (* RTOS_NO_PRIO_CLASSES                                 *)
  Class,           (* task -> prioClass, 1..NoClasses (0.. in the code)    *)
  Slice,           (* task -> timeRoundRobin, 0: not a round robin task    *)
  Mutex,           (* events of kind mutex                                 *)
  Semaphore,       (* events of kind semaphore                             *)
  Event,           (* the other events, broadcast to all waiting tasks     *)
  IsrEvents,       (* those posted by application interrupts               *)
  Units,           (* semaphore -> initial value of rtos_semaphoreAry      *)
  Start,           (* task -> request of its start condition               *)
  Requests,        (* task -> the requests it makes later                  *)
  Width,           (* number of bits of an unsigned int                    *)
  MaxOverrun       (* UINT_MAX, where the overrun counter saturates        *)

Task == 1..NoTasks
Idle == NoTasks + 1                  (* IDLE_TASK_ID                       *)

SyncObject == Mutex \cup Semaphore
Timer == {"delay", "absolute"}       (* RTOS_EVT_DELAY_TIMER, ..ABSOLUTE.. *)
AnyEvent == SyncObject \cup Event \cup Timer

Modulus == 2 ^ Width
Half == 2 ^ (Width - 1)
Time == 0..(Modulus - 1)
Lost == Half + 1                     (* more ticks than can be told apart  *)
InitTime == Modulus - 1              (* _time = (unsigned int)-1           *)

(* Difference of two unsigned values as a signed one.                      *)
Signed(d) == LET r == d % Modulus IN IF r < Half THEN r ELSE r - Modulus

(* Tasks that use the absolute timer, the regular ones.                    *)
Regular == {t \in Task : \E r \in Requests[t] \cup {Start[t]} : "absolute" \in r.mask}

Request == [mask : (SUBSET AnyEvent) \ {{}}, all : BOOLEAN, timeout : Time]

(* The assertions of storeResumeCondition and rtos_initializeTask. A time  *)
(* parameter of the absolute timer is at most INT_MAX.                     *)
Permitted(r) ==
  /\ ~(Timer \subseteq r.mask)
  /\ r.all => r.mask \ Timer # {}
  /\ "absolute" \in r.mask => r.timeout \in 1..(Half - 1)

ASSUME RTuinOSAssumption ==
  /\ NoTasks \in Nat
  /\ NoClasses \in Nat \ {0}
  /\ Width \in Nat \ {0}
  /\ MaxOverrun \in Nat
  /\ Mutex \cap Semaphore = {} /\ SyncObject \cap Event = {}
  /\ Timer \cap (SyncObject \cup Event) = {}
  /\ IsrEvents \subseteq Event
  /\ Class \in [Task -> 1..NoClasses]
  /\ Slice \in [Task -> Time]
  /\ Units \in [Semaphore -> Nat]
  /\ Requests \in [Task -> SUBSET Request]
  /\ Start \in [Task -> Request]
  /\ \A t \in Task : \A r \in Requests[t] \cup {Start[t]} : Permitted(r)
  /\ \A t \in Task : Start[t].mask \cap SyncObject = {}

(* What the proofs use of the powers of 2.                                 *)
ASSUME WidthAssumption == Half \in Nat \ {0} /\ Modulus = 2 * Half

VARIABLES
  time,            (* _time                                                *)
  susp,            (* _pSuspendedTaskAry                                   *)
  due,             (* class -> _pDueTaskAryAry[class]                      *)
  active,          (* _pActiveTask                                         *)
  posted,          (* task_t.postedEventVec                                *)
  mask,            (* task_t.eventMask                                     *)
  any,             (* task_t.waitForAnyEvent                               *)
  delay,           (* task_t.cntDelay                                      *)
  dueAt,           (* task_t.timeDueAt                                     *)
  slice,           (* task_t.cntRoundRobin                                 *)
  overrun,         (* task_t.cntOverrun                                    *)
  free,            (* _mutexVec, the mutexes nobody owns                   *)
  units,           (* rtos_semaphoreAry                                    *)
  (* What the code has no variable for:                                    *)
  ctx,             (* saved context: "new", "wait" in rtos_waitForEvent or *)
                   (* "run": running, or interrupted and not waiting       *)
  holds,           (* task -> sync objects it was told to own              *)
  arrived,         (* the suspended tasks, the one waiting longest first   *)
  late,            (* regular task -> ticks since the time that its next   *)
                   (* use of the absolute timer refers to                  *)
  missed           (* regular task -> times it had to be resumed and was   *)
                   (* not yet waiting, saturating at MaxOverrun            *)

lists == <<susp, due, active>>
condition == <<mask, any, delay, dueAt, overrun>>
history == <<ctx, holds, arrived, late, missed>>
vars == <<time, susp, due, active, posted, mask, any, delay, dueAt, slice, overrun,
          free, units, ctx, holds, arrived, late, missed>>

-----------------------------------------------------------------------------
(* A definition directly in front of the one it varies is a plausible      *)
(* mistake in the code, not part of the model.                             *)

Elements(s) == {s[i] : i \in 1..Len(s)}
Suspended == Elements(susp)
Least(S) == CHOOSE x \in S : \A y \in S : x <= y
Greatest(S) == CHOOSE x \in S : \A y \in S : x >= y

(* The elements of list s that are in S, in the order of the list.         *)
Those(s, S) ==
  LET upTo[i \in 0..Len(s)] ==
        IF i = 0 THEN <<>>
        ELSE IF s[i] \in S THEN Append(upTo[i - 1], s[i]) ELSE upTo[i - 1]
  IN  upTo[Len(s)]

(* The head of the highest class that is not empty, else the idle task.    *)
HighestDue(d) ==
  LET classes == {c \in 1..NoClasses : d[c] # <<>>}
  IN  IF classes = {} THEN Idle ELSE d[Greatest(classes)][1]

(* The suspended tasks are sorted by falling class, the one that waits for *)
(* the longest time first in its class.                                    *)
EnqueueFirst(s, t) ==
  Those(s, {u \in Task : Class[u] > Class[t]}) \o <<t>>
    \o Those(s, {u \in Task : Class[u] <= Class[t]})
Enqueue(s, t) ==
  Those(s, {u \in Task : Class[u] >= Class[t]}) \o <<t>>
    \o Those(s, {u \in Task : Class[u] < Class[t]})

(* Is the condition of t fulfilled by the events p? Timers are timeouts,   *)
(* they do not belong to the events that are all needed.                   *)
Fulfilled(isAny, m, p) ==
  IF isAny THEN p # {} ELSE p \ Timer = m \ Timer \/ p \cap m \cap Timer # {}

-----------------------------------------------------------------------------
(* storeResumeCondition: when the timers elapse.                           *)

(* The delay is incremented for the tick that has begun, except UINT_MAX.  *)
DelayAsIs(n) == n
DelayOf(n) == IF n + 1 < Modulus THEN n + 1 ELSE n

(* The absolute timer: n ticks after the time it was last set to. A time   *)
(* that is over is an overrun and is replaced by the next tick.            *)
IsOverBefore(d, n) == Signed(d + n - time) < 0
IsOver(d, n) == Signed(d + n - time) <= 0
DueTime(d, n) == IF IsOver(d, n) THEN (time + 1) % Modulus ELSE (d + n) % Modulus

UsesAbsolute(r) == "absolute" \in r.mask

(* Start: every task is suspended with its start condition. The absolute   *)
(* timer refers to time 0, the time of the first tick.                     *)
Enqueued[n \in 0..NoTasks] == IF n = 0 THEN <<>> ELSE Enqueue(Enqueued[n - 1], n)

Init ==
  /\ time = InitTime
  /\ susp = Enqueued[NoTasks]
  /\ due = [c \in 1..NoClasses |-> <<>>]
  /\ active = Idle
  /\ posted = [t \in 1..Idle |-> {}]
  /\ mask = [t \in Task |-> Start[t].mask]
  /\ any = [t \in Task |-> ~Start[t].all]
  /\ delay = [t \in Task |-> IF UsesAbsolute(Start[t]) THEN 0 ELSE DelayOf(Start[t].timeout)]
  /\ dueAt = [t \in Task |-> IF UsesAbsolute(Start[t]) THEN DueTime(0, Start[t].timeout) ELSE 0]
  /\ slice = [t \in Task |-> 0]
  /\ overrun = [t \in Task |-> 0]
  /\ free = Mutex
  /\ units = Units
  /\ ctx = [t \in Task |-> "new"]
  /\ holds = [t \in Task |-> {}]
  /\ arrived = susp
  /\ late = [t \in Regular |-> IF ~UsesAbsolute(Start[t]) THEN 0
                                ELSE IF Start[t].timeout + 1 >= Half THEN Lost
                                ELSE -1 - Start[t].timeout]
  /\ missed = [t \in Regular |-> 0]

-----------------------------------------------------------------------------
(* Parts of the kernel functions. *)

(* checkTaskForActivation for all suspended tasks, p being what is posted  *)
(* to them now: those whose events changed and fulfil the condition become *)
(* due, in the order of the list, with a new time slice.                   *)
Resumed(p) == {t \in Suspended : p[t] # posted[t] /\ Fulfilled(any[t], mask[t], p[t])}

DueWith(R) ==
  [c \in 1..NoClasses |-> due[c] \o Those(susp, {t \in R : Class[t] = c})]
SliceWith(R) == [t \in Task |-> IF t \in R THEN Slice[t] ELSE slice[t]]

Leave(R) ==
  /\ susp' = Those(susp, Task \ R)
  /\ arrived' = Those(arrived, Task \ R)

(* Task t becomes active, or stays it. On a switch the posted events are   *)
(* the signal to its context. A context that waits, or starts, takes it and*)
(* owns the sync objects in it; one that was interrupted ignores it.       *)
SwitchToKeeping(t, p, c, h) ==
  /\ active' = t
  /\ posted' = p
  /\ ctx' = IF t \in {active, Idle} THEN c ELSE [c EXCEPT ![t] = "run"]
  /\ holds' = IF t \in {active, Idle} \/ c[t] = "run" THEN h
              ELSE [h EXCEPT ![t] = @ \cup (p[t] \cap SyncObject)]
SwitchTo(t, p, c, h) ==
  /\ active' = t
  /\ posted' = IF t = active THEN p ELSE [p EXCEPT ![t] = {}]
  /\ ctx' = IF t \in {active, Idle} THEN c ELSE [c EXCEPT ![t] = "run"]
  /\ holds' = IF t \in {active, Idle} \/ c[t] = "run" THEN h
              ELSE [h EXCEPT ![t] = @ \cup (p[t] \cap SyncObject)]

-----------------------------------------------------------------------------
(* The system timer, onTimerTick. *)

(* Both timers of a suspended task. Its events are limited to the mask.    *)
Elapsed(t) ==
  (IF (time + 1) % Modulus = dueAt[t] THEN {"absolute"} ELSE {})
    \cup (IF delay[t] = 1 THEN {"delay"} ELSE {})

(* Round robin: the active task is put at the end of the due list of its   *)
(* class when its time slice has elapsed and it is not alone in its class. *)
SliceElapsed(s) == active # Idle /\ s[active] = 1
Rolls(d, s) == SliceElapsed(s) /\ Len(d[Class[active]]) > 1

RollOff(d, s) == d
Roll(d, s) ==
  IF Rolls(d, s) THEN [d EXCEPT ![Class[active]] = Append(Tail(@), active)] ELSE d

CountSlice(s) ==
  IF active = Idle \/ s[active] = 0 THEN s
  ELSE [s EXCEPT ![active] = IF @ = 1 THEN Slice[active] ELSE @ - 1]

(* Time passes for the regular tasks. Without the absolute timer in its    *)
(* start condition the time of a task begins when it is started.           *)
Ages(t) == ctx[t] # "new" \/ UsesAbsolute(Start[t]) \/ t \notin Suspended

(* A new active task is looked for only if a task was resumed or rolled.   *)
NextActiveIfResumed(R, d, rolled) == IF R # {} THEN HighestDue(d) ELSE active
NextActive(R, d, rolled) == IF R # {} \/ rolled THEN HighestDue(d) ELSE active

Tick ==
  LET p == [t \in 1..Idle |-> IF t \in Suspended
                              THEN posted[t] \cup (Elapsed(t) \cap mask[t]) ELSE posted[t]]
      R == Resumed(p)
      s == SliceWith(R)
      d == Roll(DueWith(R), s)
  IN  /\ time' = (time + 1) % Modulus
      /\ delay' = [t \in Task |-> IF t \in Suspended /\ delay[t] # 0
                                  THEN delay[t] - 1 ELSE delay[t]]
      /\ Leave(R)
      /\ due' = d
      /\ slice' = CountSlice(s)
      /\ SwitchTo(NextActive(R, d, Rolls(DueWith(R), s)), p, ctx, holds)
      /\ late' = [t \in Regular |-> IF Ages(t) /\ late[t] # Lost THEN late[t] + 1 ELSE late[t]]
      /\ UNCHANGED <<mask, any, dueAt, overrun, free, units, missed>>

-----------------------------------------------------------------------------
(* rtos_sendEvent. *)

(* A mutex or a unit of a semaphore goes to the first task in the list of  *)
(* suspended tasks that waits for it; a task gets only one unit.           *)
Wants(t, o) == o \in mask[t] /\ (o \in Mutex \/ o \notin posted[t])
Waiting(o) == {i \in 1..Len(susp) : Wants(susp[i], o)}

GivenToAll(t, evs) == {o \in evs : Wants(t, o)}
Given(t, evs) ==
  {e \in evs \cap Event : e \in mask[t]}
    \cup {o \in evs \cap SyncObject : Waiting(o) # {} /\ susp[Least(Waiting(o))] = t}

(* What no task waits for is kept by the kernel.                           *)
Kept(evs) == {o \in evs \cap SyncObject : Waiting(o) = {}}

SendEvent(evs) ==
  LET p == [t \in 1..Idle |-> IF t \in Suspended
                              THEN posted[t] \cup Given(t, evs) ELSE posted[t]]
      R == Resumed(p)
      d == DueWith(R)
  IN  /\ Leave(R)
      /\ due' = d
      /\ slice' = SliceWith(R)
      /\ free' = free \cup (Kept(evs) \cap Mutex)
      /\ units' = [s \in Semaphore |-> IF s \in Kept(evs) THEN units[s] + 1 ELSE units[s]]
      /\ SwitchTo(NextActive(R, d, FALSE), p, ctx,
                  IF active = Idle THEN holds ELSE [holds EXCEPT ![active] = @ \ evs])
      /\ UNCHANGED <<time, condition, late, missed>>
(* The active task, also the idle task, broadcasts events and releases sync*)
(* objects that it owns.                                                   *)
TaskSends == \E evs \in SUBSET (Event \cup IF active = Idle THEN {} ELSE holds[active]) \ {{}} :
               SendEvent(evs)

(* isrUser00 and isrUser01 post their event the same way, whatever runs.   *)
IsrSends == \E e \in IsrEvents : SendEvent({e})

-----------------------------------------------------------------------------
(* rtos_waitForEvent. *)

(* acquireFreeSyncObjs: all that is free of what the task asks for.        *)
Acquired(r) == (r.mask \cap free) \cup {s \in r.mask \cap Semaphore : units[s] > 0}

Acquire(r) ==
  /\ free' = free \ r.mask
  /\ units' = [s \in Semaphore |-> IF s \in Acquired(r) THEN units[s] - 1 ELSE units[s]]

(* Nothing is left to wait for: the task goes on with what it acquired.    *)
ImmediatelyWithTimer(r) == IF r.all THEN Acquired(r) = r.mask ELSE Acquired(r) # {}
Immediately(r) == IF r.all THEN Acquired(r) \ Timer = r.mask \ Timer ELSE Acquired(r) # {}

AcquireAndGoOn(r) ==
  /\ Immediately(r)
  /\ Acquire(r)
  /\ holds' = [holds EXCEPT ![active] = @ \cup Acquired(r)]
  /\ UNCHANGED <<time, lists, posted, condition, slice, ctx, arrived, late, missed>>

(* storeResumeCondition for the active task, and what its overrun counter  *)
(* ought to be: one more if the time it asks for is over.                  *)
CountUpTo(n) == IF n < MaxOverrun THEN n + 1 ELSE n

StoreResumeCondition(t, r) ==
  /\ mask' = [mask EXCEPT ![t] = r.mask]
  /\ any' = [any EXCEPT ![t] = ~r.all]
  /\ IF UsesAbsolute(r)
     THEN /\ dueAt' = [dueAt EXCEPT ![t] = DueTime(@, r.timeout)]
          /\ overrun' = IF IsOver(dueAt[t], r.timeout)
                        THEN [overrun EXCEPT ![t] = CountUpTo(@)] ELSE overrun
          /\ delay' = delay
     ELSE /\ delay' = [delay EXCEPT ![t] = DelayOf(r.timeout)]
          /\ UNCHANGED <<dueAt, overrun>>

ReferTo(t, r) ==
  LET ahead == r.timeout - late[t]
  IN  IF ~UsesAbsolute(r) THEN UNCHANGED <<late, missed>>
      ELSE IF late[t] = Lost \/ ahead >= Half
           THEN late' = [late EXCEPT ![t] = Lost] /\ missed' = [missed EXCEPT ![t] = 0]
           ELSE /\ late' = [late EXCEPT ![t] = IF ahead <= 0 THEN -1 ELSE -ahead]
                /\ missed' = IF ahead <= 0 THEN [missed EXCEPT ![t] = CountUpTo(@)] ELSE missed

(* The task is suspended, keeping what it has acquired so far.             *)
Suspend(r) ==
  LET t == active
      d == [due EXCEPT ![Class[t]] = Tail(@)]
  IN  /\ ~Immediately(r)
      /\ Acquire(r)
      /\ due' = d
      /\ StoreResumeCondition(t, r)
      /\ ReferTo(t, r)
      /\ susp' = Enqueue(susp, t)
      /\ arrived' = Append(arrived, t)
      /\ SwitchTo(HighestDue(d), [posted EXCEPT ![t] = Acquired(r)],
                  [ctx EXCEPT ![t] = "wait"], holds)
      /\ UNCHANGED <<time, slice>>

(* The active task waits, for nothing that it owns already.                *)
TaskWaits(t) ==
  /\ active = t
  /\ \E r \in Requests[t] : /\ r.mask \cap holds[t] = {}
                            /\ AcquireAndGoOn(r) \/ Suspend(r)

(* rtos_getTaskOverrunCounter with reset, called by the idle task.         *)
ResetOverrun(t) ==
  /\ active = Idle
  /\ overrun[t] > 0
  /\ overrun' = [overrun EXCEPT ![t] = 0]
  /\ missed' = [missed EXCEPT ![t] = 0]
  /\ UNCHANGED <<time, lists, posted, mask, any, delay, dueAt, slice, free, units,
                 ctx, holds, arrived, late>>

Next ==
  \/ Tick
  \/ TaskSends
  \/ IsrSends
  \/ \E t \in Task : TaskWaits(t)
  \/ \E t \in Regular : ResetOverrun(t)

Spec == Init /\ [][Next]_vars

-----------------------------------------------------------------------------
(* Properties. *)

TypeOK ==
  /\ time \in Time
  /\ Suspended \subseteq Task
  /\ due \in [1..NoClasses -> Seq(Task)]
  /\ active \in 1..Idle
  /\ posted \in [1..Idle -> SUBSET AnyEvent]
  /\ mask \in [Task -> SUBSET AnyEvent]
  /\ any \in [Task -> BOOLEAN]
  /\ delay \in [Task -> Time]
  /\ dueAt \in [Task -> Time]
  /\ slice \in [Task -> Time]
  /\ overrun \in [Task -> 0..MaxOverrun]
  /\ free \subseteq Mutex
  /\ units \in [Semaphore -> Nat]
  /\ ctx \in [Task -> {"new", "wait", "run"}]
  /\ holds \in [Task -> SUBSET SyncObject]
  /\ Elements(arrived) = Suspended
  /\ late \in [Regular -> -Modulus..Lost]
  /\ missed \in [Regular -> 0..MaxOverrun]

(* The lists of the kernel agree: a task is in exactly one of them and     *)
(* once, in the due list of its class or suspended, and the active task is *)
(* the head of the highest class - also where a function has left it alone *)
(* because it saw no reason to look for another one.                       *)
TaskInOneList ==
  /\ \A t \in Task :
       Cardinality({i \in 1..Len(susp) : susp[i] = t})
         + Cardinality({x \in (1..NoClasses) \X (1..NoTasks) :
                          x[2] <= Len(due[x[1]]) /\ due[x[1]][x[2]] = t}) = 1
  /\ \A c \in 1..NoClasses : \A i \in 1..Len(due[c]) : Class[due[c][i]] = c
  /\ active = HighestDue(due)

(* The lists agree and every variable has its type.                        *)
ListsAgree == TypeOK /\ TaskInOneList

(* No sync object is lost or given twice, whether it is taken at once,     *)
(* collected while the task goes on waiting, handed over by its owner or   *)
(* kept through a timeout: a mutex is free, on its way to a task or owned, *)
(* and so are all the units a semaphore began with.                        *)
On(o) == {t \in Task : o \in posted[t]}
OwnedBy(o) == {t \in Task : o \in holds[t]}
SyncObjectsConserved ==
  /\ \A m \in Mutex : Cardinality(On(m)) + Cardinality(OwnedBy(m)) = IF m \in free THEN 0 ELSE 1
  /\ \A s \in Semaphore : units[s] + Cardinality(On(s)) + Cardinality(OwnedBy(s)) = Units[s]

(* A task misses events for its condition: all, or one that it needs.      *)
Misses(t) == IF any[t] THEN posted[t] = {}
             ELSE posted[t] \cap Timer = {} /\ ~(mask[t] \ Timer \subseteq posted[t])

(* Nobody waits in vain: a suspended task misses a part of its condition,  *)
(* and no sync object it waits for is available.                           *)
NobodyWaitsInVain ==
  \A t \in Suspended :
    /\ Misses(t)
    /\ mask[t] \cap free = {}
    /\ \A s \in (mask[t] \cap Semaphore) \ posted[t] : units[s] = 0

(* The events that end a wait reach the task: they are kept until a context*)
(* that waits for them is resumed, and there are none for a context that   *)
(* was interrupted and would ignore them.                                  *)
SignalReachesTask ==
  /\ posted[Idle] = {}
  /\ \A t \in Task \ Suspended :
       IF ctx[t] = "run" THEN posted[t] = {} ELSE ~Misses(t)
  /\ \A t \in Suspended : ctx[t] # "run"

(* Every overrun of a regular task is counted and no other, as long as it  *)
(* is no more than half the range of the system time late and asks for a   *)
(* time no more than half the range ahead.                                 *)
OverrunsCounted == \A t \in Regular : late[t] # Lost => overrun[t] = missed[t]

(* That takes that a regular task begins with the absolute timer. Else its *)
(* first time parameter refers to the time 0 of the system and not to its  *)
(* start, and whether it counts as an overrun depends on when it starts.   *)
RegularFromStart == \A t \in Regular : UsesAbsolute(Start[t])

(* A released sync object goes to the task that waits for it, has the      *)
(* highest class and among those waits for the longest time.               *)
Arrival(t) == CHOOSE i \in 1..Len(arrived) : arrived[i] = t
Before(t, u) == Class[t] > Class[u] \/ (Class[t] = Class[u] /\ Arrival(t) < Arrival(u))
HandedToFirst ==
  [][active # Idle =>
       \A o \in holds[active] \ holds'[active] :
         LET W == {t \in Suspended : Wants(t, o)}
         IN  W # {} => \E t \in W : /\ \A u \in W \ {t} : Before(t, u)
                                    /\ o \in posted'[t] \cup holds'[t]]_vars

(* Who collects sync objects while it goes on waiting was there before the *)
(* tasks of its class that miss one of them: tasks of one class cannot wait*)
(* for each other in a circle. Across the classes they can.                *)
CollectsBeforeLaterOnes ==
  \A t, u \in Suspended :
    (Class[t] = Class[u] /\ \E o \in posted[u] \cap SyncObject : o \in mask[t] \ posted[t])
      => Arrival(u) < Arrival(t)

-----------------------------------------------------------------------------
(* The inductive invariant behind the safety properties. *)

Injective(s) == \A i, j \in 1..Len(s) : s[i] = s[j] => i = j
Precedes(s, x, y) == \E i, j \in 1..Len(s) : i < j /\ s[i] = x /\ s[j] = y

(* Each list has a task once, and a task is suspended or else due in the   *)
(* list of its class. The active task is the one to be looked for.         *)
ListInv ==
  /\ susp \in Seq(Task) /\ Injective(susp)
  /\ arrived \in Seq(Task) /\ Injective(arrived) /\ Elements(arrived) = Suspended
  /\ \A c \in 1..NoClasses : /\ due[c] \in Seq(Task) /\ Injective(due[c])
                             /\ Elements(due[c]) = {t \in Task \ Suspended : Class[t] = c}
  /\ active = HighestDue(due)

(* The suspended tasks are in the order in which they are served: by class *)
(* and by the time of their suspension.                                    *)
OrderInv ==
  \A t, u \in Suspended :
    Precedes(susp, t, u) <=> \/ Class[t] > Class[u]
                             \/ Class[t] = Class[u] /\ Precedes(arrived, t, u)

(* A task gets no event but those it waits for, and it waits only for sync *)
(* objects that it does not own; the active task waits for nothing.        *)
WaitInv ==
  /\ active # Idle => ctx[active] = "run"
  /\ \A t \in Task : posted[t] \subseteq mask[t]
  /\ \A t \in Task : ctx[t] # "run" => mask[t] \cap holds[t] = {}

(* How often a sync object is on its way to a task or owned by one.        *)
Holders(o) == On(o) \cup OwnedBy(o)
HoldersInv ==
  /\ \A m \in Mutex : Cardinality(Holders(m)) = IF m \in free THEN 0 ELSE 1
  /\ \A s \in Semaphore : units[s] + Cardinality(Holders(s)) = Units[s]

IInv ==
  /\ TypeOK /\ ListInv /\ OrderInv
  /\ WaitInv /\ SignalReachesTask /\ NobodyWaitsInVain /\ HoldersInv

-----------------------------------------------------------------------------
(* Liveness. The clock goes on, nothing is asked of the tasks.             *)
LiveSpec == Spec /\ WF_vars(Tick)

(* A timeout ends every wait it belongs to, whatever else is posted.       *)
TimeoutEndsWait == \A t \in Task : t \in Suspended /\ mask[t] \cap Timer # {} ~> t \notin Suspended

(* In a class of round robin tasks everyone gets its turn, even if no task *)
(* ever waits, unless there is work in a higher class.                     *)
Top(c) == due[c] # <<>> /\ \A k \in (c + 1)..NoClasses : due[k] = <<>>
EveryoneHasItsTurn ==
  \A c \in 1..NoClasses : (\A u \in Task : Class[u] = c => Slice[u] > 0) =>
    \A t \in Task : Class[t] = c =>
      (Top(c) /\ t \notin Suspended ~> active = t \/ ~Top(c))
=============================================================================
