-------------------------- MODULE MCSwIntScheduler --------------------------
(* Instances of the scheduler by software interrupts for TLC.              *)
EXTENDS SwIntScheduler

CONSTANT isr

(* Two cyclic tasks. The upper one and the idle task activate the lower    *)
(* one in addition to the timer interrupt, in a critical section of the    *)
(* level of the latter. The lower one activates an event task of its own   *)
(* level, as the only one and therefore without critical section. An       *)
(* interrupt has a level between them.                                     *)
Prio311 == <<3, 1, 1>>
Cycle220 == <<2, 2, 0>>
First030 == <<0, 3, 0>>
Level2 == [i \in {isr} |-> 2]
ActivatesMixed == [a \in Actor |->
  CASE a = 1 -> {2} [] a = 2 -> {3} [] a = Idle -> {2} [] OTHER -> {}]
CeilingOfCallers == <<0, 4, 0>>

(* The instance follows the rule that AcceptedAreExecuted depends on.      *)
ASSUME CallersAreProtected == Protected
=============================================================================
