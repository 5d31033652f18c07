----------------------------- MODULE EventPlan -----------------------------
(***************************************************************************)
(* What safe-RTOS-VLE promises to the configuration code about events and  *)
(* the tasks they activate (documentation of rtos_osCreateEvent and        *)
(* registerTask): the specification that EventTable implements.            *)
(*                                                                         *)
(* Events are known by their ID, which counts in order of creation. Tasks  *)
(* of an event are activated in order of registration. A cyclic event is   *)
(* triggered at first, first + cycle, first + 2*cycle, ... milliseconds    *)
(* after the release, at the first tick that reaches this time. Time is a  *)
(* countdown per event and has no limit.                                   *)
(***************************************************************************)
EXTENDS Integers, Sequences

CONSTANTS
  Requests,   (* what may be asked for: prio, cycle and first              *)
  Tasks,      (* the tasks: function and PID                               *)
  Step,       (* milliseconds per tick of the clock                        *)
  MaxLockable (* RTOS_MAX_LOCKABLE_TASK_PRIORITY                           *)

VARIABLES
  events,     (* by ID: priority, cycle and the sequence of tasks          *)
  phase,      (* "config", "init", "run" or "failed"                       *)
  left,       (* by ID: milliseconds until the next cyclic trigger         *)
  pending,    (* IDs that have not yet been looked at in the current tick  *)
  triggered   (* IDs that have been triggered and not been served          *)

vars == <<events, phase, left, pending, triggered>>
IDs == 1..Len(events)

(* The order in which events are taken at one tick.                        *)
Before(i, j) ==
  events[i].prio > events[j].prio \/ (events[i].prio = events[j].prio /\ i < j)

PidsOf(e) == {e.tasks[k].pid : k \in 1..Len(e.tasks)}
Pids == UNION {PidsOf(events[i]) : i \in IDs}
IsHighest(pid) == \A p \in Pids : p <= pid

Init ==
  /\ events = <<>> /\ phase = "config" /\ left = <<>>
  /\ pending = {} /\ triggered = {}

Create(r) ==
  /\ phase = "config"
  /\ events' = Append(events, [prio |-> r.prio, cycle |-> r.cycle, tasks |-> <<>>])
  /\ left' = Append(left, r.first + 1)
  /\ UNCHANGED <<phase, pending, triggered>>

Register(i, task) ==
  /\ phase = "config"
  /\ events' = [events EXCEPT ![i].tasks = Append(@, task)]
  /\ UNCHANGED <<phase, left, pending, triggered>>

(* Every event has a task, and a priority that user code cannot lock out is*)
(* reserved to the OS and the process with the highest ID.                 *)
Start ==
  /\ phase = "config"
  /\ events # <<>>
  /\ \A i \in IDs : /\ events[i].tasks # <<>>
                    /\ events[i].prio > MaxLockable =>
                         \A p \in PidsOf(events[i]) : p = 0 \/ IsHighest(p)
  /\ phase' = "init"
  /\ UNCHANGED <<events, left, pending, triggered>>

Fail == phase = "config" /\ phase' = "failed" /\ UNCHANGED <<events, left, pending, triggered>>

Release == phase = "init" /\ phase' = "run" /\ UNCHANGED <<events, left, pending, triggered>>

Tick ==
  /\ phase = "run" /\ pending = {}
  /\ pending' = IDs
  /\ UNCHANGED <<events, phase, left, triggered>>

(* The most urgent of the remaining events is looked at.                   *)
Elapse(i) ==
  /\ i \in pending
  /\ \A j \in pending \ {i} : Before(i, j)
  /\ pending' = pending \ {i}
  /\ IF events[i].cycle = 0 THEN UNCHANGED <<left, triggered>>
     ELSE LET rest == left[i] - Step IN
            IF rest > 0
            THEN left' = [left EXCEPT ![i] = rest] /\ UNCHANGED triggered
            ELSE /\ left' = [left EXCEPT ![i] = rest + events[i].cycle]
                 /\ triggered' = triggered \cup {i}
  /\ UNCHANGED <<events, phase>>

Trigger(i) == triggered' = triggered \cup {i} /\ UNCHANGED <<events, phase, left, pending>>
Serve(i) == triggered' = triggered \ {i} /\ UNCHANGED <<events, phase, left, pending>>

Next == \/ \E r \in Requests : Create(r)
        \/ \E i \in IDs, task \in Tasks : Register(i, task)
        \/ Start \/ Fail \/ Release \/ Tick
        \/ \E i \in IDs : Elapse(i) \/ Trigger(i) \/ Serve(i)

Spec == Init /\ [][Next]_vars
=============================================================================
