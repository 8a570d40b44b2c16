----------------------------- MODULE StationProofs -----------------------------
(***************************************************************************)
(* What the Worker keeps with its modem, whatever the length of a frame,   *)
(* the size of the port, the datagrams and the ports there are.            *)
(***************************************************************************)
EXTENDS Station, TLAPS

\* The modem is open only while the Worker is inside its loop, and RFroutine
\* is left only where it began.
ModemInLoop == pc \notin {"loop", "routine", "delete"} => modem = {}

OutsideReceives == pc # "routine" => step = "receive"

\* What is kept by every step.
IInv == StationTypeOK /\ ModemInLoop /\ OutsideReceives /\ InStep /\ LogIndexValid

-----------------------------------------------------------------------------
(* Bytes and their places.                                                 *)

LEMMA Frames == Body \in Nat /\ Body >= 1 /\ PortCap \in Nat /\ Total \in Nat /\ Total >= 2
BY FrameAssumption

\* After the length comes the body, and after the checksum the next frame.
LEMMA Places ==
  /\ FrameLen \in Nat /\ FrameLen >= 5
  /\ 3 % FrameLen = 3
  /\ (3 + (Body + 1)) % FrameLen = 0
  /\ \A k \in Nat : k % FrameLen \in 0 .. FrameLen - 1
<1> USE Frames
<1>1. FrameLen \in Nat /\ FrameLen >= 5 /\ 3 + (Body + 1) = FrameLen
  BY DEF FrameLen
<1> HIDE DEF FrameLen
<1>2. \A k \in Nat, n \in Nat : n >= 1 => k % n \in 0 .. n - 1
  OBVIOUS
<1>3. \A n \in Nat : n >= 5 => 3 % n = 3 /\ n % n = 0
  OBVIOUS
<1> QED
  BY <1>1, <1>2, <1>3

LEMMA FewerType ==
  ASSUME NEW a \in Nat, NEW b \in Nat
  PROVE  Fewer(a, b) \in Nat /\ Fewer(a, b) <= a /\ Fewer(a, b) <= b
BY DEF Fewer

LEMMA FrameTypes ==
  FrameTypeOK => head \in Nat /\ avail \in Nat /\ avail <= PortCap /\ length \in Nat
<1> SUFFICES ASSUME FrameTypeOK
             PROVE  head \in Nat /\ avail \in Nat /\ avail <= PortCap /\ length \in Nat
  OBVIOUS
<1>1. head \in Nat
  BY Places DEF FrameTypeOK
<1>2. avail \in Nat /\ avail <= PortCap
  BY Frames DEF FrameTypeOK
<1>3. length \in Nat
  BY Frames DEF FrameTypeOK
<1> QED
  BY <1>1, <1>2, <1>3

\* Taking bytes that are there.
LEMMA TakeType ==
  ASSUME FrameTypeOK, NEW n \in Nat, n <= avail, Take(n)
  PROVE  head' \in 0 .. FrameLen - 1 /\ avail' \in 0 .. PortCap
<1>1. head \in Nat /\ avail \in Nat /\ avail <= PortCap
  BY Places, Frames DEF FrameTypeOK
<1>2. head + n \in Nat
  BY <1>1
<1> QED
  BY <1>1, <1>2, Places, Frames DEF Take

-----------------------------------------------------------------------------
(* The steps of the reception.                                             *)

\* All that a step of Receive keeps by itself.
FrameInv == FrameTypeOK /\ InStep /\ LogIndexValid

LEMMA ReadInfoKeeps ==
  ASSUME FrameInv, ReadInfo
  PROVE  FrameInv'
<1> USE Frames DEF FrameInv
<1> DEFINE n == Fewer(3, avail)
<1>0. n \in Nat /\ n <= 3 /\ n <= avail
  <2>1. avail \in Nat /\ 3 \in Nat
    BY FrameTypes
  <2> QED
    BY <2>1, FewerType
<1>1. PICK damaged \in BOOLEAN :
        /\ step = "receive" /\ step' = "body" /\ lastRxID' = lastRxID /\ Take(n)
        /\ length' \in (IF head = 0 /\ n = 3 /\ ~damaged
                           THEN {Body + 1} ELSE 0 .. PortCap)
        /\ torn' = (torn \/ n < 3 \/ damaged)
  BY DEF ReadInfo
<1> HIDE DEF n
<1>2. head' \in 0 .. FrameLen - 1 /\ avail' \in 0 .. PortCap
  BY <1>0, <1>1, TakeType
<1>3. FrameTypeOK'
  BY <1>1, <1>2 DEF FrameTypeOK
<1>4. InStep'
  <2> SUFFICES ASSUME ~torn' PROVE head' = 3 /\ length' = Body + 1
    BY <1>1 DEF InStep
  <2>0. ~torn /\ ~(n < 3) /\ ~damaged
    BY <1>1, Zenon
  <2>1. ~torn /\ n = 3
    BY <2>0, <1>0
  <2>2. head = 0
    BY <1>1, <2>1 DEF InStep
  <2> QED
    BY <1>1, <2>0, <2>1, <2>2, Places DEF Take
<1>5. LogIndexValid'
  BY <1>1 DEF LogIndexValid
<1> QED
  BY <1>3, <1>4, <1>5

\* A packet read to its end, whatever it is.
LEMMA ReadBodyKeeps ==
  ASSUME FrameInv, NEW next \in {"log", "transmit"}, ReadBody(next),
         lastRxID' \in 0 .. Total, next = "log" => lastRxID' \in Datagram
  PROVE  FrameInv'
<1> USE Frames DEF FrameInv
<1> DEFINE n == Fewer(length, avail)
<1>0. n \in Nat /\ n <= length /\ n <= avail /\ length \in Nat
  <2>1. avail \in Nat /\ length \in Nat
    BY FrameTypes
  <2> QED
    BY <2>1, FewerType
<1>1. /\ step = "body" /\ step' = next /\ Take(n) /\ length' = length
      /\ torn' = (torn \/ n < length)
  BY DEF ReadBody
<1> HIDE DEF n
<1>2. head' \in 0 .. FrameLen - 1 /\ avail' \in 0 .. PortCap
  BY <1>0, <1>1, TakeType
<1>3. FrameTypeOK'
  BY <1>1, <1>2 DEF FrameTypeOK
<1>4. InStep'
  <2> SUFFICES ASSUME ~torn' PROVE head' = 0
    BY <1>1 DEF InStep
  <2>0. ~torn /\ ~(n < length)
    BY <1>1, Zenon
  <2>1. ~torn /\ n = length
    BY <2>0, <1>0
  <2>2. head = 3 /\ length = Body + 1
    BY <1>1, <2>1 DEF InStep
  <2> QED
    BY <1>1, <2>1, <2>2, Places DEF Take
<1>5. LogIndexValid'
  BY <1>1 DEF LogIndexValid
<1> QED
  BY <1>3, <1>4, <1>5

LEMMA ReceiveKeeps ==
  ASSUME FrameInv, Receive
  PROVE  FrameInv'
<1> USE Frames DEF FrameInv
<1>1. CASE ReceiveNothing
  BY <1>1 DEF ReceiveNothing, FrameTypeOK, InStep, LogIndexValid
<1>2. CASE ReadInfo
  BY <1>2, ReadInfoKeeps
<1>3. ASSUME NEW id \in Datagram, Handled(id) \/ Refused(id)
      PROVE  FrameInv'
  <2>1. lastRxID' = id /\ lastRxID' \in 0 .. Total
    BY <1>3 DEF Handled, Refused, Datagram
  <2> QED
    BY <1>3, <2>1, ReadBodyKeeps DEF Handled, Refused
<1>4. CASE WrongID
  BY <1>4, ReadBodyKeeps DEF WrongID
<1>5. CASE NotForUs
  BY <1>5, ReadBodyKeeps DEF NotForUs, FrameTypeOK
<1>6. CASE Log
  BY <1>6 DEF Log, FrameTypeOK, InStep, LogIndexValid
<1> QED
  BY <1>1, <1>2, <1>3, <1>4, <1>5, <1>6 DEF Receive

-----------------------------------------------------------------------------
(* The steps of the station.                                               *)

LEMMA InitIInv == StationInit => IInv
<1> SUFFICES ASSUME StationInit PROVE IInv
  OBVIOUS
<1> USE Frames, Places DEF StationInit, Init, FrameInit
<1>1. TypeOK
  BY DEF TypeOK
<1>2. FrameTypeOK
  <2>1. 0 \in 0 .. FrameLen - 1 /\ 0 \in 0 .. PortCap /\ 0 \in 0 .. Total
    OBVIOUS
  <2> QED
    BY <2>1 DEF FrameTypeOK, INIT
<1>3. ModemInLoop /\ OutsideReceives /\ InStep /\ LogIndexValid
  BY DEF ModemInLoop, OutsideReceives, InStep, LogIndexValid
<1> QED
  BY <1>1, <1>2, <1>3 DEF IInv, StationTypeOK

LEMMA FrameSteps ==
  ASSUME IInv, BytesArrive \/ StationReceive
  PROVE  IInv'
<1> USE DEF IInv, StationTypeOK
<1>1. UNCHANGED vars
  BY DEF BytesArrive, StationReceive, switchVars
<1>2. TypeOK' /\ ModemInLoop'
  BY <1>1 DEF TypeOK, ModemInLoop, vars, guiVars
<1>3. CASE BytesArrive
  <2>1. UNCHANGED <<head, step, length, lastRxID, torn>> /\ avail' \in 0 .. PortCap
    BY <1>3, Frames DEF BytesArrive, Arrive, FrameTypeOK
  <2>2. FrameTypeOK' /\ InStep' /\ LogIndexValid'
    BY <2>1 DEF FrameTypeOK, InStep, LogIndexValid
  <2>3. OutsideReceives'
    BY <1>1, <2>1 DEF OutsideReceives, vars
  <2> QED
    BY <1>2, <2>2, <2>3
<1>4. CASE StationReceive
  <2>1. FrameInv'
    BY <1>4, ReceiveKeeps DEF StationReceive, FrameInv
  <2>2. OutsideReceives'
    BY <1>1, <1>4 DEF StationReceive, OutsideReceives, vars
  <2> QED
    BY <1>2, <2>1, <2>2 DEF FrameInv
<1> QED
  BY <1>3, <1>4

\* The window and the loops change nothing of the frames, but for the port
\* being opened and closed.
LEMMA SwitchSteps ==
  ASSUME IInv, StationWindow \/ StationTop \/ StationOpen \/ StationRoutine
               \/ StationDelete \/ StationIdle
  PROVE  IInv'
<1> USE Frames, Places DEF IInv, StationTypeOK
<1>1. TypeOK'
  <2>1. CASE StationWindow \/ StationTop \/ StationRoutine \/ StationDelete \/ StationIdle
    BY <2>1 DEF TypeOK, StationWindow, StationTop, StationRoutine, StationDelete, StationIdle,
          Window, ClickStart, ClickStarted, ClickStop, CloseWindow,
          Top, Wait, WakeUp, OpenFails, Failed, Loop, Routine, Delete, guiVars
  <2>2. CASE StationOpen
    <3>1. modem' = {index} /\ index \in Port
      BY <2>2 DEF StationOpen, Open, ModemInLoop, TypeOK
    <3> QED
      BY <2>2, <3>1 DEF StationOpen, Open, TypeOK, guiVars
  <2> QED
    BY <2>1, <2>2
<1>2. ModemInLoop'
  BY DEF TypeOK, ModemInLoop, StationWindow, StationTop, StationOpen, StationRoutine,
         StationDelete, StationIdle, Window, ClickStart, ClickStarted, ClickStop, CloseWindow,
         Top, Wait, WakeUp, Open, OpenFails, Failed, Loop, Routine, Delete, guiVars
<1>3. OutsideReceives'
  BY DEF TypeOK, OutsideReceives, StationWindow, StationTop, StationOpen, StationRoutine,
         StationDelete, StationIdle, Window, ClickStart, ClickStarted, ClickStop, CloseWindow,
         Top, Wait, WakeUp, Open, OpenFails, Failed, Loop, Routine, Delete, guiVars,
         NewHandler, PortOpens, PortCloses, Transmitted, frameVars
<1>4. FrameTypeOK' /\ InStep' /\ LogIndexValid'
  <2>1. CASE StationWindow \/ StationIdle
    BY <2>1 DEF StationWindow, StationIdle, frameVars, FrameTypeOK, InStep, LogIndexValid
  <2>2. CASE StationTop
    BY <2>2 DEF StationTop, Top, NewHandler, INIT, FrameTypeOK, InStep, OutsideReceives,
                LogIndexValid
  <2>3. CASE StationOpen
    <3>1. step = "receive" /\ step' = "receive" /\ torn' = (head' # 0)
      BY <2>3 DEF StationOpen, Open, PortOpens, OutsideReceives
    <3>2. FrameTypeOK'
      BY <2>3 DEF StationOpen, PortOpens, FrameTypeOK
    <3> QED
      BY <3>1, <3>2 DEF InStep, LogIndexValid
  <2>4. CASE StationRoutine
    BY <2>4 DEF StationRoutine, Transmitted, FrameTypeOK, InStep, LogIndexValid
  <2>5. CASE StationDelete
    BY <2>5 DEF StationDelete, PortCloses, FrameTypeOK, InStep, LogIndexValid
  <2> QED
    BY <2>1, <2>2, <2>3, <2>4, <2>5
<1> QED
  BY <1>1, <1>2, <1>3, <1>4

LEMMA NextIInv == IInv /\ [StationNext]_stationVars => IInv'
<1> SUFFICES ASSUME IInv, [StationNext]_stationVars PROVE IInv'
  OBVIOUS
<1>1. CASE BytesArrive \/ StationReceive
  BY <1>1, FrameSteps
<1>2. CASE StationWindow \/ StationTop \/ StationOpen \/ StationRoutine
           \/ StationDelete \/ StationIdle
  BY <1>2, SwitchSteps
<1>3. CASE UNCHANGED stationVars
  BY <1>3 DEF stationVars, vars, guiVars, frameVars, IInv, StationTypeOK, TypeOK, FrameTypeOK,
              ModemInLoop, OutsideReceives, InStep, LogIndexValid
<1> QED
  BY <1>1, <1>2, <1>3 DEF StationNext, StationWorker

LEMMA AlwaysIInv == StationSpec => []IInv
BY InitIInv, NextIInv, PTL DEF StationSpec

-----------------------------------------------------------------------------
\* Type correctness of the Worker with its modem; one modem is open at most.
THEOREM StationTypeCorrect == StationSpec => []StationTypeOK
<1>1. IInv => StationTypeOK
  BY DEF IInv
<1> QED
  BY <1>1, AlwaysIInv, PTL

\* The Worker is at the start of a frame whenever it looks for one, unless a
\* frame was cut and the port has not been empty between two frames since:
\* for every length of frames and whatever lengths were read in between.
THEOREM WorkerIsInStep == StationSpec => []InStep
<1>1. IInv => InStep
  BY DEF IInv
<1> QED
  BY <1>1, AlwaysIInv, PTL

\* The log is written for a datagram that exists, whatever identifiers the
\* packets before carried and however often the modem was started anew.
THEOREM LoggedDatagramExists == StationSpec => []LogIndexValid
<1>1. IInv => LogIndexValid
  BY DEF IInv
<1> QED
  BY <1>1, AlwaysIInv, PTL

\* Outside its inner loop the Worker holds no port, so that the next one it
\* opens is the only one.
THEOREM PortClosedOutsideLoop == StationSpec => []ModemInLoop
<1>1. IInv => ModemInLoop
  BY DEF IInv
<1> QED
  BY <1>1, AlwaysIInv, PTL
=============================================================================
