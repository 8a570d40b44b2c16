--------------------------- MODULE IgnitionHistory ---------------------------
(***************************************************************************)
(* Ignition with history variables that number the operator's orders, so   *)
(* that one can say which order armed and which order fired.  They follow  *)
(* the steps of Ignition and restrict none, but for the bound MaxOrders.   *)
(***************************************************************************)
EXTENDS Ignition

CONSTANT MaxOrders   \* presses that set the flag in a behaviour (a bound for TLC)

ASSUME MaxOrdersAssumption == MaxOrders \in Nat

VARIABLES
  log,        \* the orders given so far, in order
  tags,       \* for each packet in up, the number of its order
  presses,    \* presses of the ignition button that set IGNITION_CLICKED
  armOrder,   \* the order that armed the GSE last
  fireOrder,  \* the order that fired last
  untold      \* the last answers do not tell the station of the GSE's state

history == <<log, tags, presses, armOrder, fireOrder, untold>>
hvars   == <<vars, history>>

HInit == Init /\ log = <<>> /\ tags = <<>> /\ presses = 0
              /\ armOrder = 0 /\ fireOrder = 0 /\ untold = FALSE

HPress ==
  /\ IgniteWrite
  /\ clicked' = 1 => presses < MaxOrders
  /\ presses' = IF clicked' = 1 THEN presses + 1 ELSE presses
  /\ UNCHANGED <<log, tags, armOrder, fireOrder, untold>>

HOrder ==
  /\ GstOrder
  /\ log' = Append(log, Order')
  /\ UNCHANGED <<tags, presses, armOrder, fireOrder, untold>>

HCopyArrives ==
  /\ GstCopyArrives
  /\ tags' = Append(tags, Len(log))
  /\ UNCHANGED <<log, presses, armOrder, fireOrder, untold>>

HReceive ==
  /\ GseReceive
  /\ tags' = Tail(tags)
  /\ armOrder' = IF gseState # "ARMED" /\ gseState' = "ARMED"
                 THEN Head(tags) ELSE armOrder
  /\ fireOrder' = IF igniter # "HIGH" /\ igniter' = "HIGH" THEN Head(tags) ELSE fireOrder
  /\ UNCHANGED <<log, presses, untold>>

HStart ==
  /\ GseStart
  /\ tags' = IF up' = up THEN tags ELSE <<>>
  /\ untold' = (untold \/ gseState # "SLEEP")
  /\ UNCHANGED <<log, presses, armOrder, fireOrder>>

\* An answer that leaves tells all; one that is lost, or a shutdown that
\* nobody asked about, leaves the station behind.
HAnswer ==
  /\ GseTx
  /\ untold' = (/\ down' = down
                /\ untold \/ gseRxd \in OrderState \/ gseState' # gseState)
  /\ UNCHANGED <<log, tags, presses, armOrder, fireOrder>>

\* Answers may be gone with the old port.
HRestart ==
  /\ GstRestart
  /\ untold' = (untold \/ down' # down)
  /\ UNCHANGED <<log, tags, presses, armOrder, fireOrder>>

\* The valve button replaces what the answers told, unless one is on its way.
HValve ==
  /\ ValveControl
  /\ untold' = (untold \/ down = <<>>)
  /\ UNCHANGED <<log, tags, presses, armOrder, fireOrder>>

\* Steps that the history does not record.
HOther ==
  /\ \/ \E i \in Interlock : MoveInterlock(i)
     \/ \E c \in Code : SetGstCode(c)
     \/ IgniteRead
     \/ GstReceive \/ GstReceiveNothing \/ GstNoOrder \/ GstCopyLost
     \/ GseReceiveNothing \/ Tick \/ GseStop
  /\ UNCHANGED history

HNext == \/ HPress \/ HOrder \/ HCopyArrives \/ HReceive \/ HStart
         \/ HAnswer \/ HRestart \/ HValve \/ HOther

HSpec == HInit /\ [][HNext]_hvars

HTypeOK ==
  /\ log \in Seq(Frame)
  /\ tags \in Seq(Nat)
  /\ presses \in Nat
  /\ armOrder \in Nat /\ fireOrder \in Nat
  /\ untold \in BOOLEAN

-----------------------------------------------------------------------------
(* Properties.                                                             *)

\* A press gives at most one order: the station never has consumed, or still
\* pending, more orders than presses, although ignite_clicked reads the flag,
\* negates it and stores it while the Worker may eat it in between.
OnePressOneOrder == Len(log) + clicked <= presses

\* What the pad promises: two orders, armed by the earlier and fired by the
\* later, and none used again after a firing, whatever copies of the bursts
\* are lost, late or left over.
GsePhase ==
  CASE gseState = "ARMED"       -> "armed"
    [] gseState = "IGNITION_ON" -> "firing"
    [] OTHER                    -> "safe"

TwoStep == INSTANCE TwoStepIgnition WITH issued <- Len(log), phase <- GsePhase

ImplementsTwoStep == TwoStep!Spec

\* What the window shows of the GSE once the answers on their way are stored.
LastTold == IF down = <<>> THEN status ELSE down[Len(down)]

\* Unless the GSE is about to answer, the station shows the GSE's state, or
\* will with the answers on their way, over arming, firing, abort, shutdown
\* and restarts: a status can be stale only after a lost answer, a shutdown or
\* a restart of the GSE that no order has met since, a port closed on an
\* answer, or the valve button, and any later answer makes it current again.
StatusIsCurrent == ~untold /\ gseRxd \notin OrderState => LastTold = gseState

-----------------------------------------------------------------------------
(* The inductive invariant behind these properties.                        *)

\* The radio link keeps the orders in the sequence in which they were given:
\* tags numbers the packets in up, and the numbers never decrease.
OrdersInSequence ==
  /\ Len(tags) = Len(up)
  /\ \A i \in 1..Len(tags) : tags[i] \in 1..Len(log) /\ up[i] = log[tags[i]]
  /\ \A i, j \in 1..Len(tags) : i <= j => tags[i] <= tags[j]
  /\ gstPc = "burst" => Len(log) >= 1 /\ log[Len(log)] = Order

\* The orders that armed and fired are of the right kind, and were received
\* before everything that is still on its way.
UsedOrders ==
  /\ armOrder # 0 =>
       armOrder <= Len(log) /\ log[armOrder].state = "WAITING_ARMED"
  /\ fireOrder # 0 =>
       fireOrder <= Len(log) /\ log[fireOrder].state = "WAITING_IGNITION"
  /\ \A i \in 1..Len(tags) : armOrder <= tags[i] /\ fireOrder <= tags[i]
  /\ gseState = "ARMED" => armOrder # 0
  /\ gseState = "IGNITION_ON" => fireOrder # 0

\* An order is answered in the iteration that received it, or never.
AnswersAtOnce == gsePc # "tx" => gseRxd \notin OrderState

HInv == /\ TypeOK /\ HTypeOK /\ BurstCarriesOrder /\ IgniterIffOn
        /\ OrdersInSequence /\ UsedOrders /\ AnswersAtOnce
=============================================================================
