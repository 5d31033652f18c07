--------------------------- MODULE MCEventTable ---------------------------
(* An instance of the event table for TLC.                                *)
EXTENDS EventTable

(* Two cyclic events, one of them no multiple of the tick, and one without*)
(* a cycle; priority 2 stays unused. Two requests that are refused.       *)
Events == {[prio |-> 1, cycle |-> 3, first |-> 0],
           [prio |-> 3, cycle |-> 2, first |-> 1],
           [prio |-> 1, cycle |-> 0, first |-> 0],
           [prio |-> 4, cycle |-> 2, first |-> 0],
           [prio |-> 1, cycle |-> 4, first |-> 0]}

(* Tasks of a process for any event, an OS task, one without a function   *)
(* and an init task of a process that has no stack.                       *)
SomeTasks == {[id |-> id, fct |-> "f", pid |-> 2] : id \in 1..MaxEvents}
             \cup {[id |-> 1, fct |-> NoFct, pid |-> 1],
                   [id |-> 1, fct |-> "g", pid |-> 0],
                   [id |-> 1, fct |-> "h", pid |-> 1],
                   [id |-> InitTask, fct |-> "i", pid |-> 3]}
Stacks == {0, 1, 2}
TwoRunsOne == {<<2, 1>>}
===========================================================================
