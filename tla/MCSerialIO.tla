----------------------------- MODULE MCSerialIO -----------------------------
(* Instances of the serial I/O driver for TLC.                             *)
EXTENDS SerialIO

CONSTANTS a, b, cr, lf

(* Input and output have no state in common. So that their states are not  *)
(* multiplied each behaviour uses one of them, and all of it.              *)
InputUnused == noEOL = 0 /\ lostIn = 0 /\ pWr = 0 /\ pRd = 0 /\ inBuf[0] = Blank
OutputUnused == pc = "idle" /\ idxWr = 0 /\ outBuf[0] = Blank
OneSideSpec == Init /\ [][Next /\ (InputUnused' \/ OutputUnused')]_vars /\ Fairness

(* Among the messages is one longer than the buffer.                       *)
SomeMessages == { <<>>, <<a>>, <<b, a, b, b, b>> }
=============================================================================
