------------------------- MODULE MCSafeScheduler -------------------------
(* Instances of the safe-RTOS scheduler for TLC.                           *)
EXTENDS SafeScheduler

(* Three events of priorities 3, 2, 1, one with two tasks; every task and  *)
(* both interrupts may trigger any event.                                  *)
Priority321 == <<3, 2, 1>>
TasksMixed == << <<"user">>, <<"os">>, <<"user", "os">> >>
Irq12 == {1, 2}
Level12 == <<1, 2>>
AllByIrq == <<Event, Event>>
AllByTasks == [e \in 1..Guard |-> Event]

(* Two groups of same priority, and a level in between that no event has.  *)
Priority3311 == <<3, 3, 1, 1>>
TasksGroup == << <<"os">>, <<"user">>, <<"user">>, <<"os">> >>
Irq1 == {1}
Level1 == <<1>>
AllByIrq1 == <<Event>>

(* Only OS tasks.                                                          *)
TasksOs == << <<"os">>, <<"os">>, <<"os">> >>
============================================================================
