------------------------------ MODULE SerialIO ------------------------------
(***************************************************************************)
(* The serial I/O driver of safe-RTOS: two ring buffers, one filled by the *)
(* interrupt of the UART and read by the application, the other one filled *)
(* by the application and read by a DMA channel. Modelled from             *)
(* LSM/safe-RTOS-VLE/code/system/drivers/serial/sio_serialIO.c.            *)
(*                                                                         *)
(* The read functions have interrupts locked, each is one step. The write  *)
(* function has, too, but the DMA doesn't care: each access to one of its  *)
(* registers is a step, and the DMA goes on between them. Nothing else runs*)
(* on the CPU meanwhile.                                                   *)
(*                                                                         *)
(* A pointer into the input buffer is modelled by its offset.              *)
(***************************************************************************)
EXTENDS Integers, Sequences, FiniteSets, SequencesExt

CONSTANTS
  Char,            (* the characters on the line                           *)
  Eol,             (* SERIAL_INPUT_EOL                                     *)
  Filtered,        (* SERIAL_INPUT_FILTERED_CHAR                           *)
  InSize,          (* SERIAL_INPUT_RING_BUFFER_SIZE                        *)
  OutSizePwr,      (* SERIAL_OUTPUT_RING_BUFFER_SIZE_PWR_OF_TWO            *)
  Width,           (* number of bits of an unsigned int                    *)
  Messages,        (* what users write                                     *)
  Sizes,           (* capacities of the strings they read a line into      *)
  Wrap             (* the counters are counted modulo Wrap                 *)

OutSize == 2 ^ OutSizePwr
Blank == "blank"                     (* what the buffers hold at power-up  *)
Stale == "stale"                     (* what the user's string held before *)

ASSUME SerialIOAssumption ==
  /\ Eol \in Char /\ Filtered \in Char /\ Eol # Filtered
  /\ {Blank, Stale} \cap Char = {}
  /\ InSize \in Nat \ {0}
  /\ OutSizePwr \in Nat \ {0} /\ Width \in Nat /\ OutSizePwr <= Width
  /\ Messages \subseteq Seq(Char)
  /\ Sizes \subseteq Nat \ {0}
  /\ Wrap \in Nat \ {0}

(* What the proofs use of the powers of two.                               *)
ASSUME WidthAssumption ==
  LET k == 2 ^ (Width - OutSizePwr)
  IN OutSize \in Nat \ {0, 1} /\ k \in Nat \ {0} /\ 2 ^ Width = k * OutSize

InIndex == 0..(InSize - 1)
OutIndex == 0..(OutSize - 1)

VARIABLES
  inBuf,           (* _serialInRingBuf                                     *)
  pWr,             (* _pWrSerialInRingBuf                                  *)
  pRd,             (* _pRdSerialInRingBuf                                  *)
  noEOL,           (* _serialInNoEOL                                       *)
  lostIn,          (* sio_serialInLostBytes                                *)
  outBuf,          (* _serialOutRingBuf                                    *)
  idxWr,           (* _serialOutRingBufIdxWrM                              *)
  lostOut,         (* sio_serialOutNoLostMsgBytes                          *)
  truncated,       (* sio_serialOutNoTruncatedMsgs                         *)
  pc,              (* where the caller of sio_osWriteSerial is             *)
  msg,             (* what it writes                                       *)
  idxEnd,          (* idxEndOfFreeSpaceM                                   *)
  saddr,           (* DMA: address it reads next                           *)
  citer,           (* DMA: number of bytes still to be transferred         *)
  biter,           (* DMA: what citer is set to behind the last one        *)
  erq,             (* DMA: requests of the UART are enabled                *)
  hrs,             (* DMA: the UART requests a byte                        *)
  slip,            (* history: a request between the poll and the stop     *)
  last             (* what the last action returned or sent                *)

input == <<inBuf, pWr, pRd, noEOL, lostIn>>
dma == <<saddr, citer, biter, erq, hrs>>
output == <<outBuf, idxWr, lostOut, truncated, pc, msg, idxEnd, dma>>
vars == <<input, output, slip, last>>

Returned(op, chars, n) == [op |-> op, chars |-> chars, n |-> n]
Nothing == Returned("none", <<>>, 0)

(* sio_osInitSerialInterface.                                              *)
Init ==
  /\ inBuf = [i \in InIndex |-> Blank] /\ pWr = 0 /\ pRd = 0 /\ noEOL = 0 /\ lostIn = 0
  /\ outBuf = [i \in OutIndex |-> Blank] /\ idxWr = 0 /\ lostOut = 0 /\ truncated = 0
  /\ pc = "idle" /\ msg = <<>> /\ idxEnd = 0
  /\ saddr = 0 /\ citer = 0 /\ biter = 0 /\ erq = FALSE /\ hrs = FALSE /\ slip = "none"
  /\ last = Nothing

Unlocked == pc = "idle"

-----------------------------------------------------------------------------
(* Input. A definition directly in front of the one it varies is a         *)
(* plausible mistake in the code, not part of the model.                   *)

Up(p) == IF p < InSize - 1 THEN p + 1 ELSE 0

(* What is in the buffer, and whether it takes no more.                    *)
NoReceived == (pWr - pRd) % InSize
Received == [i \in 1..NoReceived |-> inBuf[(pRd + i - 1) % InSize]]
NeverFull == FALSE
Full == Up(pWr) = pRd

(* linFlexRxInterrupt. An end of line is counted when it is stored.        *)
EolsWhenReceived(c) == IF c = Eol THEN noEOL + 1 ELSE noEOL
EolsAfter(c) == IF c = Eol /\ ~Full THEN noEOL + 1 ELSE noEOL

Receive(c) ==
  /\ Unlocked
  /\ IF c = Filtered THEN UNCHANGED input
     ELSE /\ noEOL' = EolsAfter(c)
          /\ IF Full
             THEN lostIn' = (lostIn + 1) % Wrap /\ UNCHANGED <<inBuf, pWr>>
             ELSE /\ inBuf' = [inBuf EXCEPT ![pWr] = c]
                  /\ pWr' = Up(pWr)
                  /\ UNCHANGED lostIn
          /\ UNCHANGED pRd
  /\ last' = Nothing
  /\ UNCHANGED <<output, slip>>

(* sio_osGetChar.                                                          *)
GetChar ==
  /\ Unlocked
  /\ IF pRd = pWr
     THEN last' = Returned("eof", <<>>, 0) /\ UNCHANGED <<pRd, noEOL>>
     ELSE /\ last' = Returned("char", <<inBuf[pRd]>>, 0)
          /\ noEOL' = IF inBuf[pRd] = Eol THEN noEOL - 1 ELSE noEOL
          /\ pRd' = Up(pRd)
  /\ UNCHANGED <<inBuf, pWr, lostIn, output, slip>>

(* sio_osGetLine. The line is copied as far as the string has room. The    *)
(* copy of a full buffer is terminated at the end of the string.           *)
Shorter(a, b) == IF a < b THEN a ELSE b
Line(n, room) == SubSeq(Received, 1, Shorter(n, room))
WholeBuffer(room) ==
  Line(InSize - 1, room) \o [i \in 1..(room - Shorter(InSize - 1, room)) |-> Stale]

GetLine(size) ==
  LET n == SelectInSeq(Received, LAMBDA c : c = Eol) - 1
  IN /\ Unlocked
     /\ \/ /\ noEOL > 0
           /\ last' = Returned("line", Line(n, size - 1), 0)
           /\ noEOL' = noEOL - 1
           /\ pRd' = (pRd + n + 1) % InSize
        \/ /\ noEOL = 0 /\ Full
           /\ last' = Returned("line", WholeBuffer(size - 1), 0)
           /\ pRd' = pWr
           /\ UNCHANGED noEOL
        \/ /\ noEOL = 0 /\ ~Full
           /\ last' = Returned("null", <<>>, 0)
           /\ UNCHANGED <<pRd, noEOL>>
     /\ UNCHANGED <<inBuf, pWr, lostIn, output, slip>>

-----------------------------------------------------------------------------
(* Output: sio_osWriteSerial, also by way of its system call.              *)

BeginWrite(m) ==
  /\ Unlocked
  /\ IF m = <<>>
     THEN last' = Returned("written", <<>>, 0) /\ UNCHANGED output
     ELSE /\ pc' = "poll" /\ msg' = m
          /\ UNCHANGED <<outBuf, idxWr, lostOut, truncated, idxEnd, dma, last>>
  /\ UNCHANGED <<input, slip>>

writer == <<outBuf, idxWr, lostOut, truncated, msg>>

(* The channel is stopped in three accesses to the bus: DMAHRSL is polled  *)
(* until there is no request to serve, DMACERQ is written and SADDR is read*)
(* The source of the requests, the UART, isn't stopped.                    *)
ServedOrNot == TRUE
Served == ~hrs

PollDMA ==
  /\ pc = "poll"
  /\ Served
  /\ pc' = "clear"
  /\ UNCHANGED <<input, writer, idxEnd, dma, slip, last>>

(* The hardware may have accepted a request that is present, or drops it.  *)
ClearRequest ==
  /\ pc = "clear"
  /\ erq' = FALSE
  /\ hrs' \in {hrs, FALSE}
  /\ slip' = IF hrs' \/ slip = "taken" THEN slip ELSE "none"
  /\ pc' = "read"
  /\ UNCHANGED <<input, writer, idxEnd, saddr, citer, biter, last>>

ReadAddress ==
  /\ pc = "read"
  /\ idxEnd' = saddr
  /\ slip' = IF slip # "taken" THEN slip ELSE IF hrs THEN "request" ELSE "none"
  /\ pc' = "append"
  /\ UNCHANGED <<input, writer, dma, last>>

(* noBytesFree. The same index means empty, one byte always remains free.  *)
NoBytesFree == (idxEnd - idxWr - 1) % OutSize

(* The message is placed up to the end of the buffer and from its start.   *)
NoBytesTillEnd == (-idxWr) % OutSize
AtEnd(n) == Shorter(n, NoBytesTillEnd)
Copied(n) ==
  LET first == idxWr % OutSize
  IN [i \in OutIndex |->
        IF i \in first..(first + AtEnd(n) - 1) THEN msg[i - first + 1]
        ELSE IF i < n - AtEnd(n) THEN msg[i + AtEnd(n) + 1] ELSE outBuf[i]]

(* Then the DMA is started, also if nothing could be appended: it has been *)
(* stopped before.                                                         *)
RestartIfAppended(n) == IF n > 0 THEN "start" ELSE "idle"
Restart(n) == "start"

AppendChars(n) ==
  /\ outBuf' = Copied(n)
  /\ idxWr' = (idxWr + n) % (2 ^ Width)
  /\ citer' = (idxWr + n - idxEnd) % OutSize
  /\ truncated' = IF n < Len(msg) THEN (truncated + 1) % Wrap ELSE truncated
  /\ lostOut' = (lostOut + Len(msg) - n) % Wrap
  /\ last' = Returned("written", <<>>, n)
  /\ pc' = Restart(n)

AppendMessage ==
  /\ pc = "append"
  /\ AppendChars(Shorter(Len(msg), NoBytesFree))
  /\ biter' = citer'
  /\ msg' = <<>> /\ idxEnd' = 0
  /\ UNCHANGED <<input, saddr, erq, hrs, slip>>

StartDMA ==
  /\ pc = "start"
  /\ erq' = TRUE
  /\ pc' = "idle"
  /\ slip' = IF slip = "taken" THEN slip ELSE "none"
  /\ UNCHANGED <<input, writer, idxEnd, saddr, citer, biter, hrs, last>>

(* The UART has room and requests a byte, the DMA transfers it and disables*)
(* itself after the last one (D_REQ). slip notes a request that comes      *)
(* behind the poll of the writer, and that it has been served after the    *)
(* writer has read how far the DMA is ("taken"), until that is read again. *)
Request ==
  /\ erq /\ ~hrs
  /\ hrs' = TRUE
  /\ slip' = IF pc = "clear" /\ slip = "none" THEN "request" ELSE slip
  /\ UNCHANGED <<input, writer, pc, idxEnd, saddr, citer, biter, erq, last>>

Transfer ==
  /\ hrs
  /\ hrs' = FALSE
  /\ last' = Returned("sent", <<outBuf[saddr]>>, 0)
  /\ saddr' = (saddr + 1) % OutSize
  /\ citer' = IF citer > 1 THEN citer - 1 ELSE biter
  /\ erq' = (erq /\ citer > 1)
  /\ slip' = CASE slip = "request" /\ pc \in {"append", "start"} -> "taken"
              [] slip = "request" /\ pc \notin {"append", "start"} -> "none"
              [] OTHER -> slip
  /\ UNCHANGED <<input, writer, pc, idxEnd, biter>>

-----------------------------------------------------------------------------
InputStep ==
  \/ \E c \in Char : Receive(c)
  \/ GetChar
  \/ \E size \in Sizes : GetLine(size)
OutputStep ==
  \/ \E m \in Messages : BeginWrite(m)
  \/ PollDMA
  \/ ClearRequest
  \/ ReadAddress
  \/ AppendMessage
  \/ StartDMA
  \/ Request
  \/ Transfer
Next == InputStep \/ OutputStep

Spec == Init /\ [][Next]_vars

(* The CPU and the DMA go on; that somebody writes or reads is not assumed.*)
(* The request of the UART is a level, present as long as it has room: it  *)
(* does not come in the moment in which the channel is stopped only.       *)
WriteStep == PollDMA \/ ClearRequest \/ ReadAddress \/ AppendMessage \/ StartDMA
Fairness == WF_vars(WriteStep) /\ SF_vars(Request /\ pc # "clear") /\ WF_vars(Transfer)
LiveSpec == Spec /\ Fairness

-----------------------------------------------------------------------------
(* Properties.                                                             *)

TypeOK ==
  /\ inBuf \in [InIndex -> Char \cup {Blank}]
  /\ pWr \in InIndex /\ pRd \in InIndex
  /\ noEOL \in 0..(InSize - 1)
  /\ outBuf \in [OutIndex -> Char \cup {Blank}]
  /\ idxWr \in 0..(2 ^ Width - 1)
  /\ pc \in {"idle", "poll", "clear", "read", "append", "start"} /\ msg \in Seq(Char)
  /\ {idxEnd, saddr, citer, biter} \subseteq OutIndex
  /\ erq \in BOOLEAN /\ hrs \in BOOLEAN
  /\ slip \in {"none", "request", "taken"}
  /\ {lostIn, lostOut, truncated} \subseteq 0..(Wrap - 1)

(* The count of unread ends of line, which decides whether there is a line *)
(* to read, agrees with the buffer whatever functions read it and however  *)
(* much was lost: sio_osGetLine never runs past what has been received, and*)
(* all pointers and counters have their types.                             *)
EolsCounted ==
  /\ TypeOK
  /\ noEOL = Cardinality({i \in 1..NoReceived : Received[i] = Eol})

NoPending == (idxWr - saddr) % OutSize

(* The DMA channel is coherently stopped, with the ability of resuming it  *)
(* (sio_serialIO.c:714-716): it stays where the writer has seen it, and is *)
(* resumed with what is pending.                                           *)
StoppedCoherently ==
  /\ pc = "append" => idxEnd = saddr
  /\ pc = "start" => citer = NoPending

(* The driver does what SerialQueues promises. Only a request of the UART  *)
(* that slips in between the poll and the stop of the channel may spoil the*)
(* output, and only until it is stopped for the next message; the input is *)
(* never spoiled.                                                          *)
Queues == INSTANCE SerialQueues WITH
  in <- Received,
  out <- [i \in 1..NoPending |-> outBuf[(saddr + i - 1) % OutSize]],
  InCapacity <- InSize - 1,
  OutCapacity <- OutSize - 1
OutputSpoiled == slip' = "taken" /\ UNCHANGED <<Received, lostIn>>
ImplementsQueues == Queues!Init /\ [][Queues!Next \/ OutputSpoiled]_(Queues!vars)

(* What was accepted for sending is sent, also if the DMA is stopped and   *)
(* started over and over again by further messages, unless a request has   *)
(* slipped in.                                                             *)
EverythingIsSent ==
  \A a \in OutIndex : (saddr = a /\ NoPending > 0) ~> (saddr # a \/ slip = "taken")

(* The reader is never stuck: while characters come in and lines are asked *)
(* for, there will be a line, even if an end of line is never received or  *)
(* was lost.                                                               *)
SomethingReceived == \E c \in Char \ {Filtered} : Receive(c)
LineAskedFor == \E size \in Sizes : GetLine(size)
ReaderNeverStuck ==
  ([]<><<SomethingReceived>>_vars /\ []<><<LineAskedFor>>_vars /\ <>[][~GetChar]_vars)
    => []<>(last.op = "line")
=============================================================================
