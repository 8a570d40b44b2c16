--------------------------- MODULE IgnitionProofs ---------------------------
(***************************************************************************)
(* Proofs about the ignition, for every burst length, channel capacity,    *)
(* shutdown time and set of codes.  First the protocol alone, then the     *)
(* protocol with numbered orders and its abstract specification.           *)
(***************************************************************************)
EXTENDS IgnitionHistory, TLAPS

IInv == TypeOK /\ BurstCarriesOrder /\ IgniterIffOn

USE DEF OrderState, GseState, ShownState

\* The packet of a burst is a Frame.
LEMMA OrderIsFrame ==
  ASSUME TypeOK, gstState \in OrderState PROVE Order \in Frame
BY DEF TypeOK, Order, Frame

\* The kind of a Frame.
LEMMA FrameState == ASSUME NEW f \in Frame PROVE f.state \in OrderState
BY DEF Frame

LEMMA EmptySeq == ASSUME NEW S PROVE <<>> \in Seq(S)
OBVIOUS

LEMMA InitIInv == Init => IInv
<1> SUFFICES ASSUME Init PROVE IInv
    OBVIOUS
<1>1. TypeOK
  BY IgnitionAssumption DEF Init, TypeOK
<1>2. BurstCarriesOrder
  BY DEF Init, BurstCarriesOrder
<1>3. IgniterIffOn
  BY DEF Init, IgniterIffOn
<1> QED
  BY <1>1, <1>2, <1>3 DEF IInv

\* Every step of the operator and the GUI thread preserves the invariant.
LEMMA OperatorIInv == IInv /\ Operator => IInv'
<1> SUFFICES ASSUME IInv, Operator PROVE IInv'
    OBVIOUS
<1> USE IgnitionAssumption DEF IInv, TypeOK, BurstCarriesOrder, IgniterIffOn,
        gstVars, gseVars
<1>1. ASSUME NEW i \in Interlock, MoveInterlock(i) PROVE IInv'
  BY <1>1 DEF MoveInterlock
<1>2. ASSUME NEW c \in Code, SetGstCode(c) PROVE IInv'
  BY <1>2 DEF SetGstCode
<1>3. CASE IgniteRead
  BY <1>3 DEF IgniteRead
<1>4. CASE IgniteWrite
  BY <1>4 DEF IgniteWrite
<1>5. CASE ValveControl
  BY <1>5, ValveAssumption DEF ValveControl
<1> QED
  BY <1>1, <1>2, <1>3, <1>4, <1>5 DEF Operator

\* Every step of the station's Worker preserves the invariant.
LEMMA StationIInv == IInv /\ Station => IInv'
<1> SUFFICES ASSUME IInv, Station PROVE IInv'
    OBVIOUS
<1> USE IgnitionAssumption DEF IInv, TypeOK, BurstCarriesOrder, IgniterIffOn,
        uiVars, gseVars
<1>1. CASE GstReceive
  BY <1>1 DEF GstReceive
<1>2. CASE GstReceiveNothing
  BY <1>2 DEF GstReceiveNothing
<1>3. CASE GstOrder
  BY <1>3 DEF GstOrder, NextOrder
<1>4. CASE GstNoOrder
  BY <1>4 DEF GstNoOrder
<1>5. CASE GstCopyArrives
  <2>1. Order \in Frame
    BY <1>5, OrderIsFrame DEF GstCopyArrives, GstCopyDone
  <2> QED
    BY <1>5, <2>1 DEF GstCopyArrives, GstCopyDone
<1>6. CASE GstCopyLost
  BY <1>6 DEF GstCopyLost, GstCopyDone
<1>7. CASE GstRestart
  <2>1. down' \in Seq(GseState)
    BY <1>7, EmptySeq DEF GstRestart
  <2> QED
    BY <1>7, <2>1 DEF GstRestart
<1> QED
  BY <1>1, <1>2, <1>3, <1>4, <1>5, <1>6, <1>7 DEF Station

\* Every step of the GSE preserves the invariant.
LEMMA PadIInv == IInv /\ Pad => IInv'
<1> SUFFICES ASSUME IInv, Pad PROVE IInv'
    OBVIOUS
<1> USE IgnitionAssumption DEF IInv, TypeOK, BurstCarriesOrder, IgniterIffOn,
        gstVars, uiVars
<1>1. CASE GseReceive
  <2>1. Head(up) \in Frame /\ Tail(up) \in Seq(Frame)
    BY <1>1 DEF GseReceive
  <2>0. Head(up).state \in OrderState
    BY <2>1, FrameState
  <2>2. CASE CodesMatch(Head(up))
    BY <1>1, <2>0, <2>1, <2>2 DEF GseReceive, Accept
  <2>3. CASE ~CodesMatch(Head(up))
    BY <1>1, <2>0, <2>1, <2>3 DEF GseReceive, Reject
  <2> QED
    BY <2>2, <2>3
<1>2. CASE GseReceiveNothing
  BY <1>2 DEF GseReceiveNothing
<1>3. CASE GseTx
  <2>1. gseState' \in GseState /\ igniter' \in {"LOW", "HIGH"} /\ IgniterIffOn'
    BY <1>3 DEF GseTx, GseShutdown, ShutdownDue
  <2>2. down' \in Seq(GseState)
    BY <1>3, <2>1 DEF GseTx
  <2>3. gseRxd' \in {"SLEEP"} \cup OrderState
    BY <1>3 DEF GseTx
  <2> QED
    BY <1>3, <2>1, <2>2, <2>3 DEF GseTx
<1>4. CASE Tick
  BY <1>4 DEF Tick
<1>5. CASE GseStop
  BY <1>5 DEF GseStop
<1>6. CASE GseStart
  <2>1. up' \in Seq(Frame)
    BY <1>6, EmptySeq DEF GseStart
  <2> QED
    BY <1>6, <2>1 DEF GseStart
<1> QED
  BY <1>1, <1>2, <1>3, <1>4, <1>5, <1>6 DEF Pad

LEMMA NextIInv == IInv /\ [Next]_vars => IInv'
<1>1. IInv /\ UNCHANGED vars => IInv'
  BY DEF IInv, TypeOK, BurstCarriesOrder, IgniterIffOn, vars, gstVars, uiVars,
         gseVars
<1> QED
  BY <1>1, OperatorIInv, StationIInv, PadIInv DEF Next

\* The variables of the station, the GUI, the radio link and the pad keep
\* their types.
THEOREM TypeCorrect == Spec => []TypeOK
<1>1. IInv => TypeOK
  BY DEF IInv
<1> QED
  BY InitIInv, NextIInv, <1>1, PTL DEF Spec

\* The igniter pin follows the state of the GSE.
THEOREM IgniterFollowsState == Spec => []IgniterIffOn
<1>1. IInv => IgniterIffOn
  BY DEF IInv
<1> QED
  BY InitIInv, NextIInv, <1>1, PTL DEF Spec

-----------------------------------------------------------------------------
(* The numbered orders.  A press gives at most one order, and the ignition *)
(* implements TwoStepIgnition.  The invariant says that the radio link     *)
(* keeps the orders in sequence and that the orders which armed and fired  *)
(* are of different kinds, hence different orders, hence in sequence too.  *)

LEMMA HistoryStepIsStep == HNext => Next
BY DEF HNext, HPress, HOrder, HCopyArrives, HReceive, HStart, HAnswer, HRestart,
       HValve, HOther, Next, Operator, Station, Pad

LEMMA HistoryKeepsIInv == IInv /\ [HNext]_hvars => IInv'
BY HistoryStepIsStep, NextIInv DEF hvars

-----------------------------------------------------------------------------
(* A press gives at most one order.                                        *)

PressInv == log \in Seq(Frame) /\ presses \in Nat /\ OnePressOneOrder

LEMMA PressStep == IInv /\ PressInv /\ [HNext]_hvars => PressInv'
<1> SUFFICES ASSUME IInv, PressInv, [HNext]_hvars PROVE PressInv'
    OBVIOUS
<1> USE DEF PressInv, OnePressOneOrder
<1>0. clicked \in {0, 1}
  BY DEF IInv, TypeOK
<1>1. CASE HPress
  BY <1>0, <1>1 DEF HPress, IgniteWrite
<1>2. CASE HOrder
  <2>1. Order' \in Frame
    <3>1. TypeOK' /\ BurstCarriesOrder' /\ gstPc' = "burst"
      BY <1>2, HistoryKeepsIInv DEF IInv, HOrder, GstOrder
    <3> QED
      BY <3>1 DEF TypeOK, BurstCarriesOrder, Order, Frame
  <2>2. log' = Append(log, Order') /\ clicked = 1 /\ clicked' = 0 /\ presses' = presses
    BY <1>2 DEF HOrder, GstOrder, OrderReady
  <2> QED
    BY <2>1, <2>2
<1>3. CASE HCopyArrives
  BY <1>3 DEF HCopyArrives, GstCopyArrives, GstCopyDone, uiVars
<1>4. CASE HReceive
  BY <1>4 DEF HReceive, GseReceive, uiVars
<1>5. CASE HStart
  BY <1>5 DEF HStart, GseStart, uiVars
<1>6. CASE HAnswer \/ HRestart \/ HValve
  BY <1>6 DEF HAnswer, HRestart, HValve, GseTx, GstRestart, ValveControl, uiVars
<1>7. CASE HOther
  BY <1>7 DEF HOther, history, MoveInterlock, SetGstCode, IgniteRead, GstReceive,
     GstReceiveNothing, GstNoOrder, GstCopyLost, GstCopyDone,
     GseReceiveNothing, Tick, GseStop, uiVars
<1>8. CASE UNCHANGED hvars
  BY <1>8 DEF hvars, vars, uiVars, history
<1> QED
  BY <1>1, <1>2, <1>3, <1>4, <1>5, <1>6, <1>7, <1>8 DEF HNext

\* The station never takes more orders than the operator gave.
THEOREM PressGivesOneOrder == HSpec => []OnePressOneOrder
<1>1. HInit => IInv /\ PressInv
  BY InitIInv, EmptySeq DEF HInit, Init, PressInv, OnePressOneOrder
<1>2. (IInv /\ PressInv) /\ [HNext]_hvars => (IInv /\ PressInv)'
  BY HistoryKeepsIInv, PressStep
<1>3. PressInv => OnePressOneOrder
  BY DEF PressInv
<1> QED
  BY <1>1, <1>2, <1>3, PTL DEF HSpec

-----------------------------------------------------------------------------
(* The orders stay in sequence.                                            *)

\* Steps that touch neither the orders' numbers, nor what they are about.
Still ==
  /\ UNCHANGED <<log, tags, presses, armOrder, fireOrder>> /\ UNCHANGED up
  /\ untold' \in BOOLEAN
  /\ gseState' # gseState => gseState' \notin {"ARMED", "IGNITION_ON"}
  /\ gstPc' = "burst" => gstPc = "burst" /\ UNCHANGED <<ignitionCode, gstState>>

Quiet == HAnswer \/ HRestart \/ HValve \/ HOther \/ UNCHANGED hvars

LEMMA QuietIsStill == HTypeOK /\ Quiet => Still
<1> USE DEF Still, gstVars, gseVars, uiVars, HTypeOK
<1>1. ASSUME HTypeOK, HOther PROVE Still
  BY <1>1 DEF HOther, history, MoveInterlock, SetGstCode, IgniteRead, GstReceive,
     GstReceiveNothing, GstNoOrder, GstCopyLost, GstCopyDone,
     GseReceiveNothing, Tick, GseStop
<1>2. ASSUME HTypeOK, UNCHANGED hvars PROVE Still
  BY <1>2 DEF hvars, vars, history
<1>3. ASSUME HAnswer PROVE Still
  BY <1>3 DEF HAnswer, GseTx, GseShutdown
<1>4. ASSUME HTypeOK, HRestart PROVE Still
  BY <1>4 DEF HRestart, GstRestart
<1>5. ASSUME HTypeOK, HValve PROVE Still
  BY <1>5 DEF HValve, ValveControl
<1> QED
  BY <1>1, <1>2, <1>3, <1>4, <1>5 DEF Quiet

SeqInv == HTypeOK /\ OrdersInSequence /\ UsedOrders

LEMMA StillKeepsSeqInv == SeqInv /\ Still => SeqInv'
BY DEF SeqInv, HTypeOK, OrdersInSequence, UsedOrders, Still, Order

\* A press only counts.
LEMMA PressKeepsSeqInv == SeqInv /\ HPress => SeqInv'
<1> SUFFICES ASSUME SeqInv, HPress PROVE SeqInv'
    OBVIOUS
<1>1. UNCHANGED <<log, tags, armOrder, fireOrder, untold, up, gseState, gstPc, ignitionCode, gstState>>
  BY DEF HPress, IgniteWrite, gstVars, gseVars
<1>2. presses' \in Nat
  BY DEF HPress, SeqInv, HTypeOK
<1> QED
  BY <1>1, <1>2 DEF SeqInv, HTypeOK, OrdersInSequence, UsedOrders, Order

\* A new order is numbered after all the others.
LEMMA OrderKeepsSeqInv == IInv /\ SeqInv /\ HOrder => SeqInv'
<1> SUFFICES ASSUME IInv, SeqInv, HOrder PROVE SeqInv'
    OBVIOUS
<1> USE DEF SeqInv, HTypeOK
<1>1. UNCHANGED <<tags, presses, armOrder, fireOrder, untold, up, gseState>>
  BY DEF HOrder, GstOrder, gseVars
<1>2. log' = Append(log, Order')
  BY DEF HOrder
<1>3. Order' \in Frame
  <2>1. TypeOK' /\ BurstCarriesOrder' /\ gstPc' = "burst"
    BY HistoryKeepsIInv DEF IInv, HOrder, GstOrder, HNext
  <2> QED
    BY <2>1 DEF TypeOK, BurstCarriesOrder, Order, Frame
<1>4. /\ log' \in Seq(Frame) /\ Len(log') = Len(log) + 1
      /\ log'[Len(log')] = Order'
      /\ \A n \in 1..Len(log) : log'[n] = log[n]
  BY <1>2, <1>3
<1>5. HTypeOK'
  BY <1>1, <1>4
<1>6. OrdersInSequence'
  BY <1>1, <1>4 DEF OrdersInSequence
<1>7. UsedOrders'
  <2>1. \A n \in Nat \ {0} : n <= Len(log) => n <= Len(log') /\ log'[n] = log[n]
    BY <1>4
  <2>2. armOrder # 0 => armOrder <= Len(log') /\ log'[armOrder].state = "WAITING_ARMED"
    BY <2>1 DEF UsedOrders
  <2>3. fireOrder # 0 => fireOrder <= Len(log') /\ log'[fireOrder].state = "WAITING_IGNITION"
    BY <2>1 DEF UsedOrders
  <2> QED
    BY <1>1, <2>2, <2>3 DEF UsedOrders
<1> QED
  BY <1>5, <1>6, <1>7

\* A copy that arrives carries the last order.
LEMMA CopyKeepsSeqInv == IInv /\ SeqInv /\ HCopyArrives => SeqInv'
<1> SUFFICES ASSUME IInv, SeqInv, HCopyArrives PROVE SeqInv'
    OBVIOUS
<1> USE DEF SeqInv, HTypeOK
<1>1. UNCHANGED <<log, presses, armOrder, fireOrder, untold, gseState, ignitionCode, gstState>>
  BY DEF HCopyArrives, GstCopyArrives, GstCopyDone, gseVars
<1>2. gstPc = "burst" /\ tags' = Append(tags, Len(log)) /\ up' = Append(up, Order)
  BY DEF HCopyArrives, GstCopyArrives, GstCopyDone
<1>3. Len(log) >= 1 /\ log[Len(log)] = Order
  BY <1>2 DEF OrdersInSequence
<1>4. up \in Seq(Frame) /\ Order \in Frame
  BY <1>2, OrderIsFrame DEF IInv, TypeOK, BurstCarriesOrder
<1>5. /\ Len(tags) = Len(up) /\ Len(up') = Len(up) + 1 /\ Len(tags') = Len(tags) + 1
      /\ tags' \in Seq(Nat)
      /\ \A i \in 1..Len(tags) : tags'[i] = tags[i] /\ up'[i] = up[i]
      /\ tags'[Len(tags')] = Len(log) /\ up'[Len(tags')] = Order
  BY <1>2, <1>4 DEF OrdersInSequence
<1>6. HTypeOK'
  BY <1>1, <1>5
<1>a. Len(tags) \in Nat /\ Len(log) \in Nat
  OBVIOUS
<1>b. \A i \in 1..Len(tags') : i \in 1..Len(tags) \/ i = Len(tags')
  BY <1>5, <1>a
<1>c. \A i \in 1..Len(tags) : tags[i] \in 1..Len(log) /\ up[i] = log[tags[i]]
  BY DEF OrdersInSequence
<1>7. \A i \in 1..Len(tags') : tags'[i] \in 1..Len(log) /\ up'[i] = log[tags'[i]]
  <2> SUFFICES ASSUME NEW i \in 1..Len(tags')
               PROVE tags'[i] \in 1..Len(log) /\ up'[i] = log[tags'[i]]
    OBVIOUS
  <2>1. CASE i \in 1..Len(tags)
    BY <1>5, <1>c, <2>1
  <2>2. CASE i = Len(tags')
    <3>1. tags'[i] = Len(log) /\ up'[i] = Order
      BY <1>5, <2>2
    <3> QED
      BY <1>3, <1>a, <3>1
  <2> QED
    BY <1>b, <2>1, <2>2
<1>8. OrdersInSequence'
  <2>1. \A i, j \in 1..Len(tags') : i <= j => tags'[i] <= tags'[j]
    <3> SUFFICES ASSUME NEW i \in 1..Len(tags'), NEW j \in 1..Len(tags'), i <= j
                 PROVE tags'[i] <= tags'[j]
      OBVIOUS
    <3>1. CASE j \in 1..Len(tags)
      <4>1. i \in 1..Len(tags)
        BY <1>a, <3>1
      <4> QED
        BY <1>5, <3>1, <4>1 DEF OrdersInSequence
    <3>2. CASE j = Len(tags')
      <4>1. tags'[j] = Len(log) /\ tags'[i] \in 1..Len(log)
        BY <1>5, <1>7, <3>2
      <4> QED
        BY <1>a, <4>1
    <3> QED
      BY <1>b, <3>1, <3>2
  <2>2. Len(tags') = Len(up') /\ Order' = Order
    BY <1>1, <1>5 DEF Order
  <2>3. gstPc' = "burst" => Len(log') >= 1 /\ log'[Len(log')] = Order'
    BY <1>1, <1>3, <2>2
  <2> QED
    BY <1>1, <1>7, <2>1, <2>2, <2>3 DEF OrdersInSequence
<1>9. UsedOrders'
  <2>1. armOrder <= Len(log) /\ fireOrder <= Len(log)
    BY <1>a DEF UsedOrders
  <2>2. \A i \in 1..Len(tags') : armOrder <= tags'[i] /\ fireOrder <= tags'[i]
    <3> SUFFICES ASSUME NEW i \in 1..Len(tags')
                 PROVE armOrder <= tags'[i] /\ fireOrder <= tags'[i]
      OBVIOUS
    <3>1. CASE i \in 1..Len(tags)
      BY <1>5, <3>1 DEF UsedOrders
    <3>2. CASE i = Len(tags')
      <4>1. tags'[i] = Len(log)
        BY <1>5, <3>2
      <4> QED
        BY <2>1, <4>1
    <3> QED
      BY <1>b, <3>1, <3>2
  <2> QED
    BY <1>1, <2>2 DEF UsedOrders
<1> QED
  BY <1>6, <1>8, <1>9

\* The packet that the GSE reads, and its number.
LEMMA OldestPacket ==
  ASSUME IInv, SeqInv, HReceive
  PROVE  /\ Head(tags) \in 1..Len(log)
         /\ Head(up).state = log[Head(tags)].state
         /\ Head(tags) >= armOrder /\ Head(tags) >= fireOrder
         /\ Len(tags') = Len(tags) - 1 /\ Len(up') = Len(tags')
         /\ \A i \in 1..Len(tags') : /\ i + 1 \in 1..Len(tags)
                                     /\ tags'[i] = tags[i + 1] /\ up'[i] = up[i + 1]
         /\ \A i \in 1..Len(tags') : Head(tags) <= tags'[i]
<1>1. up \in Seq(Frame) /\ tags \in Seq(Nat)
  BY DEF IInv, TypeOK, SeqInv, HTypeOK
<1>2. up # <<>> /\ up' = Tail(up) /\ tags' = Tail(tags)
  BY DEF HReceive, GseReceive
<1>3. Len(tags) = Len(up) /\ Len(up) >= 1
  BY <1>1, <1>2 DEF SeqInv, OrdersInSequence
<1>4. 1 \in 1..Len(tags) /\ Head(tags) = tags[1] /\ Head(up) = up[1]
  BY <1>1, <1>2, <1>3
<1>5. tags[1] \in 1..Len(log) /\ up[1] = log[tags[1]]
  BY <1>4 DEF SeqInv, OrdersInSequence
<1>6. armOrder <= tags[1] /\ fireOrder <= tags[1]
  BY <1>4 DEF SeqInv, UsedOrders
<1>7. tags[1] >= armOrder /\ tags[1] >= fireOrder
  BY <1>5, <1>6 DEF SeqInv, HTypeOK
<1>8. /\ Len(tags') = Len(tags) - 1 /\ Len(up') = Len(tags')
      /\ \A i \in 1..Len(tags') : /\ i + 1 \in 1..Len(tags)
                                  /\ tags'[i] = tags[i + 1] /\ up'[i] = up[i + 1]
  BY <1>1, <1>2, <1>3
<1>9. \A i \in 1..Len(tags) : tags[1] <= tags[i]
  BY <1>4 DEF SeqInv, OrdersInSequence
<1>10. \A i \in 1..Len(tags') : tags[1] <= tags'[i]
  BY <1>8, <1>9
<1> QED
  BY <1>4, <1>5, <1>7, <1>8, <1>10

\* What a packet can do to the GSE: arm it, fire it, or neither.
Arming(t) ==
  /\ gseState \in {"SLEEP", "WRONG_CODE"} /\ gseState' = "ARMED"
  /\ log[t].state = "WAITING_ARMED"
  /\ armOrder' = t /\ fireOrder' = fireOrder

Firing(t) ==
  /\ gseState = "ARMED" /\ gseState' = "IGNITION_ON"
  /\ log[t].state = "WAITING_IGNITION"
  /\ armOrder' = armOrder /\ fireOrder' = t

Neither ==
  /\ gseState' \in {gseState, "WRONG_CODE"}
  /\ armOrder' = armOrder /\ fireOrder' = fireOrder

LEMMA ReceiveEffect ==
  ASSUME IInv, SeqInv, HReceive
  PROVE  Arming(Head(tags)) \/ Firing(Head(tags)) \/ Neither
<1>1. gseState \in GseState
  BY DEF IInv, TypeOK
<1>2. igniter = "HIGH" <=> gseState = "IGNITION_ON"
  BY DEF IInv, IgniterIffOn
<1>3. igniter' = "HIGH" <=> gseState' = "IGNITION_ON"
  BY HistoryKeepsIInv DEF HNext, IInv, IgniterIffOn
<1>4. Head(up).state = log[Head(tags)].state
  BY OldestPacket
<1>5. /\ armOrder' = IF gseState # "ARMED" /\ gseState' = "ARMED"
                     THEN Head(tags) ELSE armOrder
      /\ fireOrder' = IF gseState # "IGNITION_ON" /\ gseState' = "IGNITION_ON"
                      THEN Head(tags) ELSE fireOrder
  BY <1>2, <1>3 DEF HReceive
<1>6. CASE CodesMatch(Head(up))
  <2>1. Accept(Head(up))
    BY <1>6 DEF HReceive, GseReceive
  <2>2. \/ /\ gseState \in {"SLEEP", "WRONG_CODE"}
           /\ gseState' = "ARMED" /\ Head(up).state = "WAITING_ARMED"
        \/ /\ gseState = "ARMED" /\ gseState' = "IGNITION_ON"
           /\ Head(up).state = "WAITING_IGNITION"
        \/ gseState' = gseState
    BY <2>1 DEF Accept
  <2> QED
    BY <1>1, <1>4, <1>5, <2>2 DEF Arming, Firing, Neither
<1>7. CASE ~CodesMatch(Head(up))
  BY <1>1, <1>5, <1>7 DEF HReceive, GseReceive, Reject, Neither
<1> QED
  BY <1>6, <1>7

LEMMA ReceiveKeepsSeqInv == IInv /\ SeqInv /\ HReceive => SeqInv'
<1> SUFFICES ASSUME IInv, SeqInv, HReceive PROVE SeqInv'
    OBVIOUS
<1> DEFINE t == Head(tags)
<1>1. UNCHANGED <<log, presses, untold, gstPc, gstState, ignitionCode>>
  BY DEF HReceive, GseReceive, gstVars
<1>2. tags \in Seq(Nat) /\ tags # <<>> /\ tags' = Tail(tags)
  <2>1. up \in Seq(Frame) /\ up # <<>> /\ Len(tags) = Len(up) /\ tags \in Seq(Nat)
    BY DEF IInv, TypeOK, SeqInv, HTypeOK, OrdersInSequence, HReceive, GseReceive
  <2> QED
    BY <2>1 DEF HReceive
<1>3. tags' \in Seq(Nat)
  BY <1>2
<1>4. t \in 1..Len(log) /\ t \in Nat \ {0}
  BY OldestPacket
<1>5. Arming(t) \/ Firing(t) \/ Neither
  BY ReceiveEffect
<1>6. HTypeOK'
  BY <1>1, <1>3, <1>4, <1>5 DEF Arming, Firing, Neither, SeqInv, HTypeOK
<1>7. OrdersInSequence'
  <2>1. \A i \in 1..Len(tags') : tags'[i] \in 1..Len(log) /\ up'[i] = log[tags'[i]]
    BY OldestPacket DEF SeqInv, OrdersInSequence
  <2>2. \A i, j \in 1..Len(tags') : i <= j => tags'[i] <= tags'[j]
    <3> SUFFICES ASSUME NEW i \in 1..Len(tags'), NEW j \in 1..Len(tags'), i <= j
                 PROVE tags'[i] <= tags'[j]
      OBVIOUS
    <3>1. i + 1 \in 1..Len(tags) /\ j + 1 \in 1..Len(tags) /\ i + 1 <= j + 1
      BY OldestPacket
    <3>2. tags[i + 1] <= tags[j + 1]
      BY <3>1 DEF SeqInv, OrdersInSequence
    <3> QED
      BY <3>2, OldestPacket
  <2>3. gstPc' = "burst" => Len(log') >= 1 /\ log'[Len(log')] = Order'
    BY <1>1 DEF SeqInv, OrdersInSequence, Order
  <2> QED
    BY <1>1, <2>1, <2>2, <2>3, OldestPacket DEF OrdersInSequence
<1>8. UsedOrders'
  <2> DEFINE Kinds(a, f) == /\ a # 0 => a <= Len(log) /\ log[a].state = "WAITING_ARMED"
                            /\ f # 0 => f <= Len(log) /\ log[f].state = "WAITING_IGNITION"
  <2>1. Kinds(armOrder, fireOrder)
    BY DEF SeqInv, UsedOrders
  <2>2. \A i \in 1..Len(tags') :
          armOrder <= tags'[i] /\ fireOrder <= tags'[i] /\ t <= tags'[i]
    <3> SUFFICES ASSUME NEW i \in 1..Len(tags')
                 PROVE  armOrder <= tags'[i] /\ fireOrder <= tags'[i] /\ t <= tags'[i]
      OBVIOUS
    <3>1. i + 1 \in 1..Len(tags) /\ tags'[i] = tags[i + 1] /\ t <= tags'[i]
      BY OldestPacket
    <3> QED
      BY <3>1 DEF SeqInv, UsedOrders
  <2>3. Kinds(armOrder', fireOrder')
    BY <1>4, <1>5, <2>1 DEF Arming, Firing, Neither
  <2>4. \A i \in 1..Len(tags') : armOrder' <= tags'[i] /\ fireOrder' <= tags'[i]
    BY <1>5, <2>2 DEF Arming, Firing, Neither
  <2>5. /\ gseState' = "ARMED" => armOrder' # 0
        /\ gseState' = "IGNITION_ON" => fireOrder' # 0
    BY <1>4, <1>5 DEF Arming, Firing, Neither, SeqInv, UsedOrders
  <2> QED
    BY <1>1, <2>3, <2>4, <2>5 DEF UsedOrders
<1> QED
  BY <1>6, <1>7, <1>8 DEF SeqInv

LEMMA StartKeepsSeqInv == IInv /\ SeqInv /\ HStart => SeqInv'
<1> SUFFICES ASSUME IInv, SeqInv, HStart PROVE SeqInv'
    OBVIOUS
<1>1. UNCHANGED <<log, presses, armOrder, fireOrder, gstPc, gstState, ignitionCode>>
      /\ gseState' = "SLEEP" /\ untold' \in BOOLEAN
  BY DEF HStart, GseStart, gstVars
<1>2. \/ tags' = tags /\ up' = up
      \/ tags' = <<>> /\ up' = <<>>
  BY DEF HStart, GseStart
<1>3. CASE tags' = tags /\ up' = up
  BY <1>1, <1>3 DEF SeqInv, HTypeOK, OrdersInSequence, UsedOrders, Order
<1>4. CASE tags' = <<>> /\ up' = <<>>
  <2>1. Len(tags') = 0 /\ Len(up') = 0 /\ tags' \in Seq(Nat)
    BY <1>4, EmptySeq
  <2>2. 1..Len(tags') = {}
    BY <2>1
  <2> QED
    BY <1>1, <2>1, <2>2 DEF SeqInv, HTypeOK, OrdersInSequence, UsedOrders, Order
<1> QED
  BY <1>2, <1>3, <1>4

LEMMA HistoryKeepsSeqInv == IInv /\ SeqInv /\ [HNext]_hvars => SeqInv'
<1>1. SeqInv => HTypeOK
  BY DEF SeqInv
<1> QED
  BY <1>1, QuietIsStill, StillKeepsSeqInv, PressKeepsSeqInv, OrderKeepsSeqInv,
     CopyKeepsSeqInv, ReceiveKeepsSeqInv, StartKeepsSeqInv DEF HNext, Quiet

LEMMA InitSeqInv == HInit => SeqInv
<1> SUFFICES ASSUME HInit PROVE SeqInv
    OBVIOUS
<1>1. /\ log = <<>> /\ tags = <<>> /\ up = <<>> /\ presses = 0
      /\ armOrder = 0 /\ fireOrder = 0 /\ untold = FALSE
      /\ gstPc = "rx" /\ gseState = "SLEEP"
  BY DEF HInit, Init
<1>2. 1..Len(tags) = {} /\ Len(tags) = Len(up)
  BY <1>1
<1> QED
  BY <1>1, <1>2, EmptySeq DEF SeqInv, HTypeOK, OrdersInSequence, UsedOrders

\* The radio link never reorders the operator's orders, and the ones that
\* armed and fired are in sequence with what is still on its way.
THEOREM OrdersStayInSequence == HSpec => [](OrdersInSequence /\ UsedOrders)
<1>1. HInit => IInv /\ SeqInv
  BY InitIInv, InitSeqInv DEF HInit
<1>2. (IInv /\ SeqInv) /\ [HNext]_hvars => (IInv /\ SeqInv)'
  BY HistoryKeepsIInv, HistoryKeepsSeqInv
<1>3. SeqInv => OrdersInSequence /\ UsedOrders
  BY DEF SeqInv
<1> QED
  BY <1>1, <1>2, <1>3, PTL DEF HSpec

LEMMA LenAppend ==
  ASSUME NEW S, NEW s \in Seq(S), NEW e PROVE Len(Append(s, e)) = Len(s) + 1
OBVIOUS

-----------------------------------------------------------------------------
(* The ignition implements TwoStepIgnition.                                *)

USE DEF GsePhase

LEMMA InitRefines == HInit => TwoStep!Init
BY DEF HInit, Init, TwoStep!Init

\* Shutdown and restart make an igniter safe; other quiet steps stutter.
LEMMA QuietRefines ==
  ASSUME UNCHANGED <<log, armOrder, fireOrder>>,
         gseState' = gseState \/ gseState' \in {"SLEEP", "WRONG_CODE"}
  PROVE  [TwoStep!Next]_TwoStep!vars
<1>1. CASE gseState' = gseState
  BY <1>1 DEF TwoStep!vars
<1>2. CASE gseState' \in {"SLEEP", "WRONG_CODE"}
  BY <1>2 DEF TwoStep!Next, TwoStep!MakeSafe
<1> QED
  BY <1>1, <1>2

LEMMA StepRefines ==
  IInv /\ SeqInv /\ [HNext]_hvars => [TwoStep!Next]_TwoStep!vars
<1> SUFFICES ASSUME IInv, SeqInv, [HNext]_hvars PROVE [TwoStep!Next]_TwoStep!vars
    OBVIOUS
<1>0. gseState \in GseState /\ gseState' \in GseState
  BY HistoryKeepsIInv DEF IInv, TypeOK
<1>1. CASE HPress
  <2>1. UNCHANGED <<log, armOrder, fireOrder, gseState>>
    BY <1>1 DEF HPress, IgniteWrite, gseVars
  <2> QED
    BY <2>1, QuietRefines
<1>2. CASE HOrder
  <2>1. UNCHANGED <<armOrder, fireOrder, gseState>> /\ log' = Append(log, Order')
    BY <1>2 DEF HOrder, GstOrder, gseVars
  <2>2. log' \in Seq(Frame) /\ log \in Seq(Frame)
    BY <1>2, OrderKeepsSeqInv DEF SeqInv, HTypeOK
  <2>3. Len(log') = Len(log) + 1
    BY <2>1, <2>2, LenAppend
  <2> QED
    BY <2>1, <2>3 DEF TwoStep!Next, TwoStep!Issue
<1>3. CASE HCopyArrives
  <2>1. UNCHANGED <<log, armOrder, fireOrder, gseState>>
    BY <1>3 DEF HCopyArrives, GstCopyArrives, GstCopyDone, gseVars
  <2> QED
    BY <2>1, QuietRefines
<1>4. CASE HReceive
  <2> DEFINE t == Head(tags)
  <2>1. t \in 1..Len(log) /\ t >= armOrder /\ t >= fireOrder
    BY <1>4, OldestPacket
  <2>2. log' = log /\ Len(log) \in Nat /\ armOrder \in Nat /\ fireOrder \in Nat
    BY <1>4 DEF HReceive, SeqInv, HTypeOK
  <2>3. CASE Arming(t)
    <3>1. fireOrder # t
      BY <2>1, <2>3 DEF SeqInv, UsedOrders, Arming
    <3>2. t \in (fireOrder + 1)..Len(log)
      BY <2>1, <2>2, <3>1
    <3> QED
      BY <2>2, <2>3, <3>2 DEF Arming, TwoStep!Next, TwoStep!Arm
  <2>4. CASE Firing(t)
    <3>1. armOrder # t
      BY <2>1, <2>4 DEF SeqInv, UsedOrders, Firing
    <3>2. t \in (armOrder + 1)..Len(log)
      BY <2>1, <2>2, <3>1
    <3> QED
      BY <2>2, <2>4, <3>2 DEF Firing, TwoStep!Next, TwoStep!Fire
  <2>5. CASE Neither
    <3>1. gseState' = gseState \/ gseState' \in {"SLEEP", "WRONG_CODE"}
      BY <2>5 DEF Neither
    <3> QED
      BY <2>2, <2>5, <3>1, QuietRefines DEF Neither
  <2> QED
    BY <1>4, <2>3, <2>4, <2>5, ReceiveEffect
<1>5. CASE HStart
  <2>1. UNCHANGED <<log, armOrder, fireOrder>> /\ gseState' = "SLEEP"
    BY <1>5 DEF HStart, GseStart
  <2> QED
    BY <2>1, QuietRefines
<1>6. CASE Quiet
  <2>0. Still
    BY <1>6, QuietIsStill DEF SeqInv
  <2>1. UNCHANGED <<log, armOrder, fireOrder>>
    BY <2>0 DEF Still
  <2>2. gseState' = gseState \/ gseState' \in {"SLEEP", "WRONG_CODE"}
    BY <1>0, <2>0 DEF Still, GseState
  <2> QED
    BY <2>1, <2>2, QuietRefines
<1> QED
  BY <1>1, <1>2, <1>3, <1>4, <1>5, <1>6 DEF HNext, Quiet

\* Two orders of the operator, given one after the other, fire the igniter,
\* and none of them ever counts again.
THEOREM IgnitionIsTwoStep == HSpec => ImplementsTwoStep
<1>1. HInit => IInv /\ SeqInv /\ TwoStep!Init
  BY InitIInv, InitSeqInv, InitRefines DEF HInit
<1>2. (IInv /\ SeqInv) /\ [HNext]_hvars => (IInv /\ SeqInv)'
  BY HistoryKeepsIInv, HistoryKeepsSeqInv
<1>3. (IInv /\ SeqInv) /\ [HNext]_hvars => [TwoStep!Next]_TwoStep!vars
  BY StepRefines
<1> QED
  BY <1>1, <1>2, <1>3, PTL DEF HSpec, ImplementsTwoStep, TwoStep!Spec

-----------------------------------------------------------------------------
(* The status is current.  The link hands over what was told last, so only *)
(* the steps of the GSE and the ghost's own can put the two apart; an      *)
(* order is answered in its own iteration, so none is open at a restart.   *)

CurrentInv == AnswersAtOnce /\ StatusIsCurrent

\* Taking an answer from the link changes nothing of what was told last.
LEMMA TakingKeepsLastTold == IInv /\ GstReceive => LastTold' = LastTold
<1> SUFFICES ASSUME IInv, GstReceive PROVE LastTold' = LastTold
    OBVIOUS
<1>1. down \in Seq(GseState) /\ down # <<>> /\ status' = Head(down) /\ down' = Tail(down)
  BY DEF IInv, TypeOK, GstReceive
<1>2. CASE Len(down) = 1
  <2>1. down' = <<>> /\ status' = down[Len(down)]
    BY <1>1, <1>2
  <2> QED
    BY <1>1, <2>1 DEF LastTold
<1>3. CASE Len(down) > 1
  <2>1. down' # <<>> /\ down'[Len(down')] = down[Len(down)]
    BY <1>1, <1>3
  <2> QED
    BY <1>1, <2>1 DEF LastTold
<1> QED
  BY <1>1, <1>2, <1>3

\* An answer that leaves is what was told last.
LEMMA AnsweringIsTelling ==
  ASSUME IInv, NEW a \in GseState, down' = Append(down, a) PROVE LastTold' = a
<1>1. down \in Seq(GseState)
  BY DEF IInv, TypeOK
<1>2. down' # <<>> /\ down'[Len(down')] = a
  BY <1>1
<1> QED
  BY <1>2 DEF LastTold

LEMMA AnswerStep == IInv /\ CurrentInv /\ HAnswer => CurrentInv'
<1> SUFFICES ASSUME IInv, CurrentInv, HAnswer PROVE CurrentInv'
    OBVIOUS
<1> USE DEF CurrentInv
<1>1. gseState' \in GseState /\ gseRxd \in {"SLEEP"} \cup OrderState /\ status' = status
  BY DEF IInv, TypeOK, HAnswer, GseTx, GseShutdown, uiVars
<1>2. gseRxd' \notin OrderState
  BY <1>1 DEF HAnswer, GseTx
<1>3. CASE gseRxd \in OrderState /\ down' = Append(down, gseState')
  BY <1>1, <1>2, <1>3, AnsweringIsTelling DEF AnswersAtOnce, StatusIsCurrent
<1>4. CASE down' = down
  <2>1. ~untold' => ~untold /\ gseRxd \notin OrderState /\ gseState' = gseState
    BY <1>4 DEF HAnswer
  <2> QED
    BY <1>1, <1>2, <1>4, <2>1 DEF AnswersAtOnce, StatusIsCurrent, LastTold
<1> QED
  BY <1>3, <1>4 DEF HAnswer, GseTx

LEMMA CurrentStep == IInv /\ CurrentInv /\ [HNext]_hvars => CurrentInv'
<1> SUFFICES ASSUME IInv, CurrentInv, [HNext]_hvars PROVE CurrentInv'
    OBVIOUS
<1> USE DEF CurrentInv, AnswersAtOnce, StatusIsCurrent
<1> DEFINE Same == UNCHANGED <<untold, gseRxd, gsePc, gseState>> /\ LastTold' = LastTold
<1>0. Same => CurrentInv'
  OBVIOUS
<1>1. CASE HPress \/ HOrder \/ HCopyArrives
  <2>1. UNCHANGED <<untold, gseRxd, gsePc, gseState, status, down>>
    BY <1>1 DEF HPress, HOrder, HCopyArrives, IgniteWrite, GstOrder, GstCopyArrives,
       GstCopyDone, gseVars, uiVars
  <2> QED
    BY <1>0, <2>1 DEF LastTold
<1>2. CASE HReceive
  <2>1. gsePc' = "tx" /\ gseRxd' \in OrderState
    <3>1. up \in Seq(Frame) /\ up # <<>>
      BY <1>2 DEF IInv, TypeOK, HReceive, GseReceive
    <3>2. Head(up) \in Frame
      BY <3>1
    <3> QED
      BY <1>2, <3>2, FrameState DEF HReceive, GseReceive
  <2> QED
    BY <2>1
<1>3. CASE HStart
  <2>1. gseRxd \notin OrderState /\ gseRxd' = "SLEEP" /\ gseState' = "SLEEP"
        /\ UNCHANGED <<status, down>>
    BY <1>3 DEF HStart, GseStart, uiVars
  <2>2. ~untold' => ~untold /\ gseState = "SLEEP"
    BY <1>3 DEF HStart
  <2> QED
    BY <2>1, <2>2 DEF LastTold
<1>4. CASE HAnswer
  BY <1>4, AnswerStep
<1>5. CASE HRestart
  <2>1. UNCHANGED <<gseRxd, gsePc, gseState, status>> /\ (~untold' => ~untold /\ down' = down)
    BY <1>5 DEF HRestart, GstRestart, gseVars, uiVars
  <2> QED
    BY <2>1 DEF LastTold
<1>6. CASE HValve
  <2>1. UNCHANGED <<gseRxd, gsePc, gseState, down>> /\ (~untold' => ~untold /\ down # <<>>)
    BY <1>6 DEF HValve, ValveControl, gseVars
  <2> QED
    BY <2>1 DEF LastTold
<1>7. CASE HOther
  <2>1. CASE GstReceive
    BY <1>0, <1>7, <2>1, TakingKeepsLastTold DEF HOther, history, GstReceive, gseVars
  <2>2. CASE GseReceiveNothing
    <3>1. UNCHANGED <<untold, gseRxd, gseState, status, down>> /\ gsePc = "rx"
      BY <1>7, <2>2 DEF HOther, history, GseReceiveNothing, uiVars
    <3> QED
      BY <3>1 DEF LastTold
  <2>3. CASE GseStop
    <3>1. UNCHANGED <<untold, gseRxd, gseState, status, down>> /\ gsePc = "rx"
      BY <1>7, <2>3 DEF HOther, history, GseStop, uiVars
    <3> QED
      BY <3>1 DEF LastTold
  <2>4. CASE ~GstReceive /\ ~GseReceiveNothing /\ ~GseStop
    <3>1. UNCHANGED <<untold, gseRxd, gsePc, gseState, status, down>>
      BY <1>7, <2>4 DEF HOther, history, MoveInterlock, SetGstCode, IgniteRead,
         GstReceiveNothing, GstNoOrder, GstCopyLost, GstCopyDone, Tick, gseVars, uiVars
    <3> QED
      BY <1>0, <3>1 DEF LastTold
  <2> QED
    BY <2>1, <2>2, <2>3, <2>4
<1>8. CASE UNCHANGED hvars
  <2>1. UNCHANGED <<untold, gseRxd, gsePc, gseState, status, down>>
    BY <1>8 DEF hvars, vars, history, gseVars, uiVars
  <2> QED
    BY <1>0, <2>1 DEF LastTold
<1> QED
  BY <1>1, <1>2, <1>3, <1>4, <1>5, <1>6, <1>7, <1>8 DEF HNext

\* Once the answers on their way are stored the station shows the GSE's
\* state, and the cases in which it may not are the ones that untold names.
THEOREM StatusShowsThePad == HSpec => []StatusIsCurrent
<1>1. HInit => IInv /\ CurrentInv
  <2>1. HInit => LastTold = gseState /\ gseRxd \notin OrderState
    BY DEF HInit, Init, LastTold
  <2> QED
    BY <2>1, InitIInv DEF HInit, CurrentInv, AnswersAtOnce, StatusIsCurrent
<1>2. (IInv /\ CurrentInv) /\ [HNext]_hvars => (IInv /\ CurrentInv)'
  BY HistoryKeepsIInv, CurrentStep
<1>3. CurrentInv => StatusIsCurrent
  BY DEF CurrentInv
<1> QED
  BY <1>1, <1>2, <1>3, PTL DEF HSpec
=============================================================================
