---------------------------- MODULE SerialQueues ----------------------------
(***************************************************************************)
(* What the serial interface of safe-RTOS promises to its users: what is   *)
(* received is read in the order of reception, what is written is sent in  *)
(* the order of writing, each character once. Both queues are limited, what*)
(* finds no room is lost and counted. From the documentation of the        *)
(* functions of sio_serialIO.c that the actions are named for.             *)
(***************************************************************************)
EXTENDS Integers, Sequences, SequencesExt

CONSTANTS
  Char,            (* the characters on the line                           *)
  Eol,             (* SERIAL_INPUT_EOL                                     *)
  Filtered,        (* SERIAL_INPUT_FILTERED_CHAR                           *)
  InCapacity,      (* characters the input queue can hold                  *)
  OutCapacity,     (* characters the output queue can hold                 *)
  Messages,        (* what users write                                     *)
  Sizes,           (* capacities of the strings they read a line into      *)
  Wrap             (* the counters are counted modulo Wrap                 *)

VARIABLES
  in,              (* received and not read                                *)
  out,             (* accepted for sending and not sent                    *)
  lostIn,          (* sio_serialInLostBytes                                *)
  lostOut,         (* sio_serialOutNoLostMsgBytes                          *)
  truncated,       (* sio_serialOutNoTruncatedMsgs                         *)
  last             (* what the last action returned or sent                *)

vars == <<in, out, lostIn, lostOut, truncated, last>>

Returned(op, chars, n) == [op |-> op, chars |-> chars, n |-> n]
Nothing == Returned("none", <<>>, 0)

Shorter(a, b) == IF a < b THEN a ELSE b
Truncated(s, n) == SubSeq(s, 1, Shorter(n, Len(s)))

Init ==
  /\ in = <<>> /\ out = <<>>
  /\ lostIn = 0 /\ lostOut = 0 /\ truncated = 0
  /\ last = Nothing

(* A character comes in.                                                   *)
Receive(c) ==
  /\ in' = IF c # Filtered /\ Len(in) < InCapacity THEN Append(in, c) ELSE in
  /\ lostIn' = IF c # Filtered /\ Len(in) = InCapacity THEN (lostIn + 1) % Wrap ELSE lostIn
  /\ last' = Nothing
  /\ UNCHANGED <<out, lostOut, truncated>>

GetChar ==
  /\ in' = IF in = <<>> THEN in ELSE Tail(in)
  /\ last' = IF in = <<>> THEN Returned("eof", <<>>, 0) ELSE Returned("char", <<Head(in)>>, 0)
  /\ UNCHANGED <<out, lostIn, lostOut, truncated>>

(* A line ends at the first end of line character. A full queue without one*)
(* counts as a line, too: nothing more could come in.                      *)
LineLength ==
  IF Contains(in, Eol) THEN SelectInSeq(in, LAMBDA c : c = Eol) - 1 ELSE Len(in)

GetLine(size) ==
  /\ IF Contains(in, Eol) \/ Len(in) = InCapacity
     THEN /\ last' = Returned("line", Truncated(SubSeq(in, 1, LineLength), size - 1), 0)
          /\ in' = SubSeq(in, LineLength + 2, Len(in))
     ELSE /\ last' = Returned("null", <<>>, 0)
          /\ UNCHANGED in
  /\ UNCHANGED <<out, lostIn, lostOut, truncated>>

(* The part of the message for which there is room is accepted. The number *)
(* of accepted characters is returned.                                     *)
Write(msg) ==
  LET n == Shorter(Len(msg), OutCapacity - Len(out))
  IN /\ out' = out \o SubSeq(msg, 1, n)
     /\ truncated' = IF n < Len(msg) THEN (truncated + 1) % Wrap ELSE truncated
     /\ lostOut' = (lostOut + Len(msg) - n) % Wrap
     /\ last' = Returned("written", <<>>, n)
     /\ UNCHANGED <<in, lostIn>>

Send ==
  /\ out # <<>>
  /\ out' = Tail(out)
  /\ last' = Returned("sent", <<Head(out)>>, 0)
  /\ UNCHANGED <<in, lostIn, lostOut, truncated>>

Next ==
  \/ \E c \in Char : Receive(c)
  \/ GetChar
  \/ \E size \in Sizes : GetLine(size)
  \/ \E msg \in Messages : Write(msg)
  \/ Send

Spec == Init /\ [][Next]_vars
=============================================================================
