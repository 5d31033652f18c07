---------------------------- MODULE MCUserTasks ----------------------------
(* Instances of the user tasks of safe-RTOS for TLC.                       *)
EXTENDS UserTasks

(* Process 2 runs tasks in process 1 and may suspend it.                   *)
TwoRunsOne == {<<2, 1>>}
TwoSuspendsOne == {<<2, 1>>}
Nobody == {}
=============================================================================
