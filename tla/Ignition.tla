------------------------------- MODULE Ignition -------------------------------
(***************************************************************************)
(* The remote ignition of the rocket engine: the ground station (GST, the  *)
(* Worker thread of the GUI programs), the ground support equipment at the *)
(* pad (GSE, the loop of GSE_PLsimu) and the radio link between them.      *)
(* Both sides run the same class, IgnitionCode; its constructor, updateTx, *)
(* parse and updateRx are the handlers below, in the build with            *)
(* RUNNING_ON_RPI (without it the functions have no ignition half).        *)
(*                                                                         *)
(* An iteration of either loop first receives at most one packet and then  *)
(* runs updateTx, so each side has a program counter for the two phases.   *)
(* An order of the operator is sent as a burst of BurstSize equal packets; *)
(* the GSE answers each packet with its own state.                         *)
(***************************************************************************)
EXTENDS Naturals, Sequences

CONSTANTS
  Code,          \* positions of the four code switches
  ZeroCode,      \* all switches down, "0000": never accepted
  Interlock,     \* key 1, key 2 and the red button
  BurstSize,     \* copies of one order (IGNITION_PACKET_FLOW_NBR)
  ShutdownTime,  \* ticks of clock() the igniter may stay on (SHUTDOWN_TIME)
  ChanCap,       \* packets the radio link holds in one direction
  ValveStates    \* what the valve button may store as a status

ASSUME IgnitionAssumption ==
  /\ ZeroCode \in Code
  /\ BurstSize \in Nat \ {0}
  /\ ShutdownTime \in Nat
  /\ ChanCap \in Nat \ {0}

VARIABLES
  gstPc,      \* where the Worker is in its loop: "rx", "tx" or "burst"
  gstState,   \* myState of the station
  ignitionCode, \* the code of the last order
  burstLeft,  \* copies of the order still to send
  clicked,    \* IGNITION_CLICKED of the Connector, 0 or 1
  status,     \* IGNITION_STATUS of the Connector
  gui,        \* progress of the GUI thread in ignite_clicked
  panel,      \* the interlocks that are turned or held down
  gstCode,    \* code switches of the station
  up,         \* packets from the station to the pad
  down,       \* answers from the pad to the station
  gsePc,      \* where the GSE loop is: "rx", "tx", or "off" (not running)
  gseState,   \* myState of the GSE
  gseRxd,     \* receivedState of the GSE
  gseCode,    \* code switches of the GSE, set before the pad is cleared
  igniter,    \* the level of GPIO_OUT_IGNITION
  burn        \* clock() - ignitionTime while the igniter is on

gstVars  == <<gstPc, gstState, ignitionCode, burstLeft>>
uiVars   == <<clicked, status, gui, panel, gstCode>>
gseVars  == <<gsePc, gseState, gseRxd, gseCode, igniter, burn>>
vars     == <<gstVars, uiVars, up, down, gseVars>>

OrderState == {"WAITING_ARMED", "WAITING_IGNITION"}
GseState   == {"SLEEP", "WRONG_CODE", "ARMED", "IGNITION_ON"}
Frame      == [code : Code, state : OrderState]

\* What the window has a text for: the enumeration, and "Unknown" behind it.
ShownState == GseState \cup OrderState \cup {"Unknown"}

ASSUME ValveAssumption == ValveStates \subseteq ShownState

TypeOK ==
  /\ gstPc \in {"rx", "tx", "burst"}
  /\ gstState \in {"SLEEP"} \cup OrderState
  /\ ignitionCode \in Code
  /\ burstLeft \in 0..BurstSize
  /\ clicked \in {0, 1}
  /\ status \in ShownState
  /\ gui \in {"idle", "readTrue", "readFalse"}
  /\ panel \subseteq Interlock
  /\ gstCode \in Code
  /\ up \in Seq(Frame) /\ down \in Seq(GseState)
  /\ gsePc \in {"rx", "tx", "off"}
  /\ gseState \in GseState
  /\ gseRxd \in {"SLEEP"} \cup OrderState
  /\ gseCode \in Code
  /\ igniter \in {"LOW", "HIGH"}
  /\ burn \in 0..(ShutdownTime + 1)

(***************************************************************************)
(* Both programs have constructed their DataHandler: IgnitionCode starts   *)
(* in SLEEP and drives the igniter pin LOW.  The switches are anywhere.    *)
(***************************************************************************)
Init ==
  /\ gstPc = "rx" /\ gstState = "SLEEP"
  /\ ignitionCode = ZeroCode /\ burstLeft = 0
  /\ clicked = 0 /\ status = "SLEEP"
  /\ gui = "idle" /\ panel = {} /\ gstCode \in Code
  /\ up = <<>> /\ down = <<>>
  /\ gsePc = "rx" /\ gseState = "SLEEP" /\ gseRxd = "SLEEP"
  /\ gseCode \in Code /\ igniter = "LOW" /\ burn = 0

-----------------------------------------------------------------------------
(* The operator at the station, and the GUI thread.                        *)

\* A key is turned, or the red button pressed or released.
MoveInterlock(i) ==
  /\ panel' = IF i \in panel THEN panel \ {i} ELSE panel \cup {i}
  /\ UNCHANGED <<gstVars, clicked, status, gui, gstCode, up, down, gseVars>>

SetGstCode(c) ==
  /\ c # gstCode
  /\ gstCode' = c
  /\ UNCHANGED <<gstVars, clicked, status, gui, panel, up, down, gseVars>>

\* ignite_clicked reads IGNITION_CLICKED, and negates and stores it later:
\* the Worker may eat the flag in between.
IgniteRead ==
  /\ gui = "idle"
  /\ gui' = IF clicked = 1 THEN "readTrue" ELSE "readFalse"
  /\ UNCHANGED <<gstVars, clicked, status, panel, gstCode, up, down, gseVars>>

IgniteWrite ==
  /\ gui # "idle"
  /\ clicked' = IF gui = "readFalse" THEN 1 ELSE 0
  /\ gui' = "idle"
  /\ UNCHANGED <<gstVars, status, panel, gstCode, up, down, gseVars>>

\* The valve button, a left-over of a test, stores a counter as the status,
\* whatever the GSE has answered.  Where the counter stands is left open.
ValveControl ==
  /\ status' \in ValveStates
  /\ UNCHANGED <<gstVars, clicked, gui, panel, gstCode, up, down, gseVars>>

-----------------------------------------------------------------------------
(* The station's Worker.                                                   *)

\* parse and updateRx of an answer.  A confirmed ignition ends the sequence.
GstReceive ==
  /\ gstPc = "rx" /\ down # <<>>
  /\ status' = Head(down)
  /\ gstState' = IF Head(down) = "IGNITION_ON" THEN "SLEEP" ELSE gstState
  /\ down' = Tail(down)
  /\ gstPc' = "tx"
  /\ UNCHANGED <<ignitionCode, burstLeft, clicked, gui, panel, gstCode, up, gseVars>>

GstReceiveNothing ==
  /\ gstPc = "rx"
  /\ gstPc' = "tx"
  /\ UNCHANGED <<gstState, ignitionCode, burstLeft, uiVars, up, down, gseVars>>

OrderReady == panel = Interlock /\ clicked = 1

\* Mutant of NextOrder: the station never goes back to arming.
NextOrderNoReturn(s) == IF s = "SLEEP" THEN "WAITING_ARMED" ELSE "WAITING_IGNITION"

\* The state the next order carries: the station alternates, and never looks
\* at what the GSE answered.
NextOrder(s) ==
  IF s = "WAITING_ARMED" THEN "WAITING_IGNITION" ELSE "WAITING_ARMED"

\* Mutant of GstOrder: the click is read, not eaten.
GstOrderKeepsClick ==
  /\ gstPc = "tx" /\ OrderReady
  /\ gstState' = NextOrder(gstState)
  /\ ignitionCode' = gstCode
  /\ burstLeft' = BurstSize
  /\ gstPc' = "burst"
  /\ UNCHANGED <<uiVars, up, down, gseVars>>

\* updateTx eats the click only when all interlocks are closed.  (It reads the
\* code switches every time; the value matters only when an order is given.)
GstOrder ==
  /\ gstPc = "tx" /\ OrderReady
  /\ clicked' = 0
  /\ gstState' = NextOrder(gstState)
  /\ ignitionCode' = gstCode
  /\ burstLeft' = BurstSize
  /\ gstPc' = "burst"
  /\ UNCHANGED <<status, gui, panel, gstCode, up, down, gseVars>>

GstNoOrder ==
  /\ gstPc = "tx" /\ ~OrderReady
  /\ gstPc' = "rx"
  /\ UNCHANGED <<gstState, ignitionCode, burstLeft, uiVars, up, down, gseVars>>

\* The packet of the burst.  updateTx does not run again before its end.
Order == [code |-> ignitionCode, state |-> gstState]

\* Mutant of GstCopyDone: one copy too many.
GstCopyDoneLate ==
  /\ gstPc = "burst"
  /\ burstLeft' = burstLeft - 1
  /\ gstPc' = IF burstLeft = 0 THEN "rx" ELSE "burst"
  /\ UNCHANGED <<gstState, ignitionCode, uiVars, down, gseVars>>

\* One copy of the burst leaves.  (The last one also sets IGNITION_SENT, which
\* only starts a sound and is left out.)
GstCopyDone ==
  /\ gstPc = "burst"
  /\ burstLeft' = burstLeft - 1
  /\ gstPc' = IF burstLeft = 1 THEN "rx" ELSE "burst"
  /\ UNCHANGED <<gstState, ignitionCode, uiVars, down, gseVars>>

GstCopyArrives ==
  /\ Len(up) < ChanCap
  /\ up' = Append(up, Order)
  /\ GstCopyDone

GstCopyLost == UNCHANGED up /\ GstCopyDone

\* XBee stopped and started again: the Worker builds a new DataHandler and
\* reopens the port; what waited in the port may be gone.
GstRestart ==
  /\ gstPc = "rx"
  /\ gstState' = "SLEEP"
  /\ down' \in {down, <<>>}
  /\ UNCHANGED <<gstPc, ignitionCode, burstLeft, uiVars, up, gseVars>>

-----------------------------------------------------------------------------
(* The GSE.                                                                *)

CodesMatch(f) == gseCode # ZeroCode /\ f.code = gseCode

\* Mutant of Accept: an armed GSE fires on an order of either kind.
AcceptAnyOrder(f) ==
  CASE gseState \in {"SLEEP", "WRONG_CODE"} ->
         /\ gseState' = IF f.state = "WAITING_ARMED" THEN "ARMED" ELSE gseState
         /\ igniter' = "LOW"
         /\ UNCHANGED burn
    [] gseState = "ARMED" ->
         /\ gseState' = "IGNITION_ON"
         /\ igniter' = "HIGH"
         /\ burn' = 0
    [] OTHER -> UNCHANGED <<gseState, igniter, burn>>

\* updateRx of a packet with a matching code: arming, ignition, or nothing.
Accept(f) ==
  CASE gseState \in {"SLEEP", "WRONG_CODE"} ->
         /\ gseState' = IF f.state = "WAITING_ARMED" THEN "ARMED" ELSE gseState
         /\ igniter' = "LOW"
         /\ UNCHANGED burn
    [] gseState = "ARMED" /\ f.state = "WAITING_IGNITION" ->
         /\ gseState' = "IGNITION_ON"
         /\ igniter' = "HIGH"
         /\ burn' = 0
    [] OTHER -> UNCHANGED <<gseState, igniter, burn>>

\* Mutant of Reject: the pin is left as it is.
RejectKeepsPin ==
  /\ gseState' = "WRONG_CODE"
  /\ UNCHANGED <<igniter, burn>>

\* A different code, or 0000, aborts whatever was going on.
Reject ==
  /\ gseState' = "WRONG_CODE"
  /\ igniter' = "LOW"
  /\ UNCHANGED burn

GseReceive ==
  /\ gsePc = "rx" /\ up # <<>>
  /\ gseRxd' = Head(up).state
  /\ IF CodesMatch(Head(up)) THEN Accept(Head(up)) ELSE Reject
  /\ up' = Tail(up)
  /\ gsePc' = "tx"
  /\ UNCHANGED <<gstVars, uiVars, down, gseCode>>

GseReceiveNothing ==
  /\ gsePc = "rx"
  /\ gsePc' = "tx"
  /\ UNCHANGED <<gstVars, uiVars, up, down, gseState, gseRxd, gseCode, igniter, burn>>

\* Mutant of ShutdownDue: a shutdown time clock() never reaches.
ShutdownNeverDue == gseState = "IGNITION_ON" /\ burn > ShutdownTime + 1

\* The first half of updateTx: the igniter has been on for SHUTDOWN_TIME.
ShutdownDue == gseState = "IGNITION_ON" /\ burn > ShutdownTime

GseShutdown ==
  IF ShutdownDue
  THEN gseState' = "SLEEP" /\ igniter' = "LOW"
  ELSE UNCHANGED <<gseState, igniter>>

\* Mutant of GseTx: the answer is put together before the shutdown.
GseTxAnswersFirst ==
  /\ gsePc = "tx"
  /\ GseShutdown
  /\ IF gseRxd \in OrderState
     THEN /\ gseRxd' = "SLEEP"
          /\ \/ Len(down) < ChanCap /\ down' = Append(down, gseState)
             \/ UNCHANGED down
     ELSE UNCHANGED <<gseRxd, down>>
  /\ gsePc' = "rx"
  /\ UNCHANGED <<gstVars, uiVars, up, gseCode, burn>>

\* updateTx: shut down if it is time, then answer what was just received
\* (the answer may be lost).
GseTx ==
  /\ gsePc = "tx"
  /\ GseShutdown
  /\ IF gseRxd \in OrderState
     THEN /\ gseRxd' = "SLEEP"
          /\ \/ Len(down) < ChanCap /\ down' = Append(down, gseState')
             \/ UNCHANGED down
     ELSE UNCHANGED <<gseRxd, down>>
  /\ gsePc' = "rx"
  /\ UNCHANGED <<gstVars, uiVars, up, gseCode, burn>>

\* clock() advances while the igniter is on.
Tick ==
  /\ igniter = "HIGH" /\ burn <= ShutdownTime
  /\ burn' = burn + 1
  /\ UNCHANGED <<gstVars, uiVars, up, down, gsePc, gseState, gseRxd, gseCode, igniter>>

\* SIGINT ends the loop after an iteration and leaves the pin as it is.
GseStop ==
  /\ gsePc = "rx" /\ gsePc' = "off"
  /\ UNCHANGED <<gstVars, uiVars, up, down, gseState, gseRxd, gseCode, igniter, burn>>

\* A new process: the constructor drives the pin LOW.
GseStart ==
  /\ gsePc = "off" /\ gsePc' = "rx"
  /\ gseState' = "SLEEP" /\ gseRxd' = "SLEEP" /\ igniter' = "LOW" /\ burn' = 0
  /\ up' \in {up, <<>>}
  /\ UNCHANGED <<gstVars, uiVars, down, gseCode>>

-----------------------------------------------------------------------------
Operator ==
  \/ \E i \in Interlock : MoveInterlock(i)
  \/ \E c \in Code : SetGstCode(c)
  \/ IgniteRead \/ IgniteWrite \/ ValveControl

Station == \/ GstReceive \/ GstReceiveNothing \/ GstOrder \/ GstNoOrder
           \/ GstCopyArrives \/ GstCopyLost \/ GstRestart

Pad == \/ GseReceive \/ GseReceiveNothing \/ GseTx \/ Tick
       \/ GseStop \/ GseStart

Next == Operator \/ Station \/ Pad

Spec == Init /\ [][Next]_vars

(***************************************************************************)
(* Both loops run forever while their program does, CPU time advances, and *)
(* a packet that waits at the GSE is read some time.  The operator, the    *)
(* switches and the radio owe nothing.                                     *)
(***************************************************************************)
StationLoop == \/ GstReceive \/ GstReceiveNothing \/ GstOrder \/ GstNoOrder
               \/ GstCopyArrives \/ GstCopyLost

GseLoop == GseReceive \/ GseReceiveNothing \/ GseTx

Fairness ==
  /\ WF_vars(StationLoop) /\ WF_vars(GseLoop) /\ WF_vars(Tick)
  /\ SF_vars(GseReceive)

FairSpec == Spec /\ Fairness

-----------------------------------------------------------------------------
(* Properties.                                                             *)

\* A burst has copies left and carries an order.
BurstCarriesOrder ==
  gstPc = "burst" => burstLeft >= 1 /\ gstState \in OrderState

\* The igniter pin is HIGH exactly while the GSE says IGNITION_ON, over all
\* the places that write the pin or the state (constructor, both halves of
\* updateRx, automatic shutdown), and also while the program is stopped.
IgniterIffOn == igniter = "HIGH" <=> gseState = "IGNITION_ON"

\* The igniter never stays on: the shutdown in updateTx ends it, unless the
\* GSE program itself is stopped first.
AutoShutdown == igniter = "HIGH" ~> (igniter = "LOW" \/ gsePc = "off")

\* Everything is set for an ignition and stays so.
ReadyToFire ==
  panel = Interlock /\ gsePc # "off" /\ gstCode = gseCode /\ gseCode # ZeroCode

\* A kind of order that is sent again and again gets through again and again.
RadioDelivers(s) ==
  []<>(gstPc = "burst" /\ gstState = s)
    => []<><<GstCopyArrives /\ gstState = s>>_vars

\* An operator who keeps giving orders gets the igniter on, although the
\* station alternates between the two kinds of order without looking at the
\* answers and any burst may be lost: the two sides cannot stay out of step.
PersistentOperatorFires ==
  /\ <>[]ReadyToFire
  /\ []<><<GstOrder>>_vars
  /\ <>[][~GstRestart]_vars
  /\ RadioDelivers("WAITING_ARMED") /\ RadioDelivers("WAITING_IGNITION")
  => []<>(igniter = "HIGH")
=============================================================================
