------------------------------- MODULE Framing -------------------------------
(***************************************************************************)
(* How the station takes packets from the serial port of its XBee modem:   *)
(* Xbee::receive, DataHandler::updateRx and the first half of RFroutine.   *)
(* A frame is a start delimiter, two bytes of length, a body and a         *)
(* checksum.  receive looks neither at the delimiter nor at the checksum,  *)
(* and the port is opened without a timeout: read returns what is there.   *)
(* So the Worker is in step with the frames only by keeping to their       *)
(* lengths, and a damaged length is taken as it is.  Bytes are counted,    *)
(* not spelled: head is the place in its frame of the next byte to be read. *)
(***************************************************************************)
EXTENDS Naturals

CONSTANTS
  Body,       \* bytes of a frame between its length and its checksum
  PortCap,    \* bound: bytes waiting in the port
  Total       \* TOTAL_NBR_OF_TYPES

ASSUME FrameAssumption ==
  /\ Body \in Nat \ {0}
  /\ PortCap \in Nat
  /\ Total \in Nat \ {0, 1}

VARIABLES
  head,       \* the place in its frame of the next byte to be read
  avail,      \* bytes waiting in the port
  step,       \* the Worker's place in RFroutine
  length,     \* what receive takes for the length of the packet and its CRC
  lastRxID,   \* the datagram the last packet was for
  torn        \* ghost: a frame was cut or its length came damaged, and there
              \* has been no silence between two frames since

frameVars == <<head, avail, step, length, lastRxID, torn>>

FrameLen == 3 + Body + 1
INIT     == 0                \* no datagram yet
Datagram == 1 .. Total - 1   \* those DataHandler has built

\* Where the sender is in the frame that is arriving.
Tail == (head + avail) % FrameLen

FrameTypeOK ==
  /\ head \in 0 .. FrameLen - 1 /\ avail \in 0 .. PortCap
  /\ step \in {"receive", "body", "log", "transmit"}
  /\ length \in 0 .. PortCap \cup {Body + 1}
  /\ lastRxID \in 0 .. Total      \* Total stands for every number above
  /\ torn \in BOOLEAN

FrameInit ==
  /\ head = 0 /\ avail = 0 /\ step = "receive"
  /\ length = 0 /\ lastRxID = INIT /\ torn = FALSE

-----------------------------------------------------------------------------
(* The port.                                                               *)

Arrive(n) ==
  /\ avail + n <= PortCap /\ avail' = avail + n
  /\ UNCHANGED <<head, step, length, lastRxID, torn>>

\* The sender does not wait for the port: it may be in the middle of a frame.
PortOpens ==
  /\ head' \in 0 .. FrameLen - 1 /\ avail' = 0 /\ torn' = (head' # 0)
  /\ UNCHANGED <<step, length, lastRxID>>

PortCloses ==
  /\ avail' = 0
  /\ UNCHANGED <<head, step, length, lastRxID, torn>>

NewHandler ==
  /\ lastRxID' = INIT
  /\ UNCHANGED <<head, avail, step, length, torn>>

-----------------------------------------------------------------------------
(* The Worker.                                                             *)

Fewer(a, b) == IF a <= b THEN a ELSE b

\* serial::Serial::read with no time to wait: the next n bytes are read.
Take(n) == head' = (head + n) % FrameLen /\ avail' = avail - n

\* available() is 0.  After a silence a frame starts here, or goes on.
ReceiveNothing ==
  /\ step = "receive" /\ avail = 0
  /\ step' = "transmit" /\ torn' = (torn /\ head # 0)
  /\ UNCHANGED <<head, avail, length, lastRxID>>

\* Mutant of ReadInfo: the bytes before the body are waited for.
ReadInfoWaits ==
  /\ step = "receive" /\ avail > 0
  /\ IF avail < 3
       THEN step' = "transmit" /\ UNCHANGED <<head, avail, length, torn>>
       ELSE /\ step' = "body" /\ Take(3) /\ UNCHANGED torn
            /\ length' \in IF head = 0 THEN {Body + 1} ELSE 0 .. PortCap
  /\ UNCHANGED lastRxID

\* Mutant of ReadInfo: the checksum is not counted.
ReadInfoNoCRC ==
  /\ step = "receive" /\ avail > 0
  /\ step' = "body"
  /\ LET n == Fewer(3, avail) IN
       /\ Take(n)
       /\ length' \in IF head = 0 /\ n = 3 THEN {Body} ELSE 0 .. PortCap
       /\ torn' = (torn \/ n < 3)
  /\ UNCHANGED lastRxID

\* What was not read of info is whatever was in memory, the length's bytes may
\* have come damaged, and what is not the length of a frame is any length
\* (0xFFFF + 1 is 0 in sixteen bits).
ReadInfo ==
  /\ step = "receive" /\ avail > 0
  /\ step' = "body"
  /\ \E damaged \in BOOLEAN :
       LET n == Fewer(3, avail) IN
         /\ Take(n)
         /\ length' \in IF head = 0 /\ n = 3 /\ ~damaged
                         THEN {Body + 1} ELSE 0 .. PortCap
         /\ torn' = (torn \/ n < 3 \/ damaged)
  /\ UNCHANGED lastRxID

\* The packet is what is there of length bytes; what is not has been in
\* memory before.  Whole or not, it is dispatched by what its bytes say.
ReadBody(next) ==
  /\ step = "body" /\ step' = next
  /\ LET n == Fewer(length, avail) IN
       Take(n) /\ torn' = (torn \/ n < length)
  /\ UNCHANGED length

\* A received frame (0x90) for a datagram all of whose data accept it.
Handled(id) == ReadBody("log") /\ lastRxID' = id

\* One of the data refuses it: another delimiter than EPFL, a wrong code...
Refused(id) == ReadBody("transmit") /\ lastRxID' = id

WrongID == ReadBody("transmit") /\ lastRxID' \in {0, Total}

\* Mutant of NotForUs: the answer to an RSSI command counts as received.
NotForUsLogged ==
  \E next \in {"log", "transmit"} : ReadBody(next) /\ UNCHANGED lastRxID

\* An answer to an RSSI command (0x88), or no received frame at all.
NotForUs == ReadBody("transmit") /\ UNCHANGED lastRxID

\* logLastRxPacket and printLastRxPacket: dataHandler[lastRxID].
Log ==
  /\ step = "log" /\ step' = "transmit"
  /\ UNCHANGED <<head, avail, length, lastRxID, torn>>

\* The transmission, the second half of RFroutine.
Transmitted ==
  /\ step = "transmit" /\ step' = "receive"
  /\ UNCHANGED <<head, avail, length, lastRxID, torn>>

Receive ==
  \/ ReceiveNothing \/ ReadInfo
  \/ \E id \in Datagram : Handled(id) \/ Refused(id)
  \/ WrongID \/ NotForUs \/ Log

-----------------------------------------------------------------------------
(* Properties.                                                             *)

\* The Worker loses step with the frames only when one was cut - by opening
\* the port in the middle of it, or by reading it before it was all there - or
\* its length came damaged, and finds it again in the next silence between two
\* frames.
InStep ==
  /\ step \in {"receive", "transmit", "log"} /\ ~torn => head = 0
  /\ step = "body" /\ ~torn => head = 3 /\ length = Body + 1

\* A packet is logged only by a datagram that exists: lastRxID may be INIT or
\* out of range after any other packet, also after one that was logged.
LogIndexValid == step = "log" => lastRxID \in Datagram
=============================================================================
