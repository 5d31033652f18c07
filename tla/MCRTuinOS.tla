----------------------------- MODULE MCRTuinOS -----------------------------
(* Instances of the RTuinOS kernel for TLC.                                *)
EXTENDS RTuinOS

Req(events, all, timeout) == [mask |-> events, all |-> all, timeout |-> timeout]

(* Two round robin tasks of the lower class share a mutex and a semaphore  *)
(* with a task of the upper class, which is regular: it uses the absolute  *)
(* timer whenever it waits with a timeout, also before its time is over.   *)
Classes112 == <<1, 1, 2>>
Slices210 == <<2, 1, 0>>
StartMixed ==
  << Req({"delay"}, FALSE, 0), Req({"e", "delay"}, TRUE, 0), Req({"absolute"}, FALSE, 1) >>
OneUnit == [s \in {"s"} |-> 1]
SyncRequests ==
  << {Req({"m"}, FALSE, 0), Req({"m", "s", "delay"}, TRUE, 1)},
     {Req({"m", "s"}, TRUE, 0), Req({"s", "e"}, FALSE, 0)},
     {Req({"m", "s", "absolute"}, FALSE, 2), Req({"absolute"}, FALSE, 3)} >>

(* The regular task is regular from the beginning, without which its first *)
(* overrun would be one it has not had (rtos.c:1695).                      *)
ASSUME RegularTasksBeginRegular == RegularFromStart

(* The same tasks where time matters: one takes turns and waits for a while*)
(* or for a mutex, one never waits, and the regular one preempts them.     *)
NoUnits == [s \in {} |-> 0]
TimedRequests ==
  << {Req({"m", "delay"}, FALSE, 1)},
     {},
     {Req({"m", "absolute"}, TRUE, 1), Req({"e"}, FALSE, 0)} >>
=============================================================================
