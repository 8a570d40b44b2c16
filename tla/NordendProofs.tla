--------------------------- MODULE NordendProofs ---------------------------
(***************************************************************************)
(* What the Nordend window keeps for every set of valves, modes and bound. *)
(***************************************************************************)
EXTENDS Nordend, SequenceTheorems, TLAPS

\* What an order does to the link: nothing, or one order more.
LEMMA SendType ==
  ASSUME up \in Seq(Order), Len(up) <= UpCap,
         NEW id \in Valve \cup Command, NEW value \in Position, Send(id, value)
  PROVE  up' \in Seq(Order) /\ Len(up') <= UpCap
<1> DEFINE o == [id |-> id, value |-> value]
<1>1. o \in Order
  BY DEF Order
<1>2. CASE up' = up
  BY <1>2
<1>3. CASE up' = Append1(up, o)
  <2>1. CASE Len(up) < UpCap
    <3>1. up' = Append(up, o)
      BY <1>3, <2>1 DEF Append1
    <3>2. Append(up, o) \in Seq(Order) /\ Len(Append(up, o)) = Len(up) + 1
      BY <1>1
    <3> QED
      BY <3>1, <3>2, <2>1, UpCapAssumption
  <2>2. CASE ~(Len(up) < UpCap)
    BY <1>3, <2>2 DEF Append1
  <2> QED
    BY <2>1, <2>2
<1> QED
  BY <1>2, <1>3 DEF Send

\* The labels after update_AV_states.
LEMMA UpdateStatesType ==
  ASSUME now \subseteq Labelled, lastState \in Labelled, NEW m \in Mode, UpdateStates(m)
  PROVE  now' \subseteq Labelled /\ lastState' \in Labelled
BY DEF UpdateStates

\* A click asks for a position, whatever was reported.
LEMMA OppositeType == \A p : Opposite(p) \in Position
BY DEF Opposite, Position

\* An order about a valve keeps the types.
LEMMA SendCmdType ==
  ASSUME TypeOK, NEW v \in Valve, NEW value \in Position, SendCmd(v, value)
  PROVE  TypeOK'
<1>1. up' \in Seq(Order) /\ Len(up') <= UpCap
  BY SendType DEF TypeOK, SendCmd
<1>2. img' \in [Valve -> Icon]
  BY DEF TypeOK, SendCmd, Icon
<1> QED
  BY <1>1, <1>2 DEF TypeOK, SendCmd, vehicle

\* So does any other order.
LEMMA SendPlainType ==
  ASSUME TypeOK, NEW id \in Command, NEW value \in Position, SendPlain(id, value)
  PROVE  TypeOK'
<1>1. up' \in Seq(Order) /\ Len(up') <= UpCap
  BY SendType DEF TypeOK, SendPlain
<1> QED
  BY <1>1 DEF TypeOK, SendPlain, vehicle, shown

LEMMA OpenDialogType ==
  ASSUME TypeOK, NEW d \in {"none", "ignition", "disconnect", "info"}, OpenDialog(d)
  PROVE  TypeOK'
BY DEF TypeOK, OpenDialog, vehicle, shown

LEMMA AnswerYesType ==
  ASSUME TypeOK, NEW d, NEW id \in Command, AnswerYes(d, id)
  PROVE  TypeOK'
<1>1. up' \in Seq(Order) /\ Len(up') <= UpCap
  <2>1. "ACTIVE" \in Position
    BY DEF Position
  <2> QED
    BY <2>1, SendType DEF TypeOK, AnswerYes
<1> QED
  BY <1>1 DEF TypeOK, AnswerYes, vehicle, shown

LEMMA OperatorType ==
  ASSUME TypeOK, Operator
  PROVE  TypeOK'
<1> USE DEF Command
<1>0. "ACTIVE" \in Position /\ "INACTIVE" \in Position
  BY DEF Position
<1>1. ASSUME NEW v \in Valve, Toggle(v) PROVE TypeOK'
  BY <1>1, OppositeType, SendCmdType DEF Toggle
<1>2. ASSUME NEW v \in Valve, NEW value \in Position, Manual(v, value) PROVE TypeOK'
  BY <1>2, SendCmdType DEF Manual
<1>3. CASE Arm \/ Disarm \/ Abort \/ Recover
  BY <1>0, <1>3, SendPlainType DEF Arm, Disarm, Abort, Recover
<1>4. CASE PressIgnition
  BY <1>4, OpenDialogType DEF PressIgnition
<1>5. CASE PressDisconnect
  BY <1>5, OpenDialogType DEF PressDisconnect
<1>6. CASE PressPressurization
  BY <1>6, OpenDialogType, SendPlainType DEF PressPressurization
<1>7. CASE AnswerIgnition \/ AnswerDisconnect
  BY <1>7, AnswerYesType DEF AnswerIgnition, AnswerDisconnect
<1>8. ASSUME NEW m \in Mode, Debug(m) PROVE TypeOK'
  <2>1. now' \subseteq Labelled /\ lastState' \in Labelled
    BY <1>8, UpdateStatesType DEF TypeOK, Debug
  <2> QED
    BY <1>8, <2>1 DEF TypeOK, Debug, vehicle
<1>9. CASE ResetValves
  BY <1>9 DEF TypeOK, ResetValves, Icon, vehicle
<1>10. CASE OpenSerial \/ CloseSerial
  BY <1>10 DEF TypeOK, OpenSerial, CloseSerial, Keep, vehicle, shown
<1> QED
  BY <1>1, <1>2, <1>3, <1>4, <1>5, <1>6, <1>7, <1>8, <1>9, <1>10 DEF Operator

LEMMA NextType ==
  ASSUME TypeOK, [Next]_vars
  PROVE  TypeOK'
<1>1. CASE Operator
  BY <1>1, OperatorType
<1>2. CASE CloseDialog
  BY <1>2 DEF TypeOK, CloseDialog, vehicle, shown
<1>3. CASE SerialError
  BY <1>3 DEF TypeOK, SerialError, Keep, vehicle, shown
<1>4. CASE AvTelemetry
  <2>1. now' \subseteq Labelled /\ lastState' \in Labelled
    BY <1>4, UpdateStatesType DEF TypeOK, AvTelemetry
  <2>2. av' \in [valve : [AvValve -> Position], mode : Mode]
    BY <1>4 DEF TypeOK, AvTelemetry, Report, Valve
  <2>3. img' \in [Valve -> Icon]
    BY <1>4 DEF TypeOK, AvTelemetry, Report
  <2> QED
    BY <1>4, <2>1, <2>2, <2>3 DEF TypeOK, AvTelemetry, vehicle
<1>5. CASE GseTelemetry
  <2>1. gse' \in [GseValve -> GseReport]
    BY <1>5 DEF TypeOK, GseTelemetry, Report, Valve
  <2>2. img' \in [Valve -> Icon]
    BY <1>5 DEF TypeOK, GseTelemetry, Report
  <2>3. safe' \in BOOLEAN
    BY <1>5 DEF GseTelemetry, SafeConfig
  <2> QED
    BY <1>5, <2>1, <2>2, <2>3 DEF TypeOK, GseTelemetry, vehicle
<1>6. CASE TakeOrder
  <2>1. Head(up) \in Order /\ Tail(up) \in Seq(Order) /\ Len(Tail(up)) = Len(up) - 1
    BY <1>6 DEF TypeOK, TakeOrder
  <2>2. up' \in Seq(Order) /\ Len(up') <= UpCap
    BY <1>6, <2>1, UpCapAssumption DEF TypeOK, TakeOrder
  <2>3. pos' \in Report
    <3>1. pos' = IF Head(up).id \in Valve
                   THEN [pos EXCEPT ![Head(up).id] = Head(up).value] ELSE pos
      BY <1>6 DEF TakeOrder
    <3>2. Head(up).value \in Position
      BY <2>1 DEF Order
    <3>3. /\ pos \in [Valve -> Icon]
          /\ \A v \in AvValve : pos[v] \in Position
          /\ \A v \in GseValve : pos[v] \in GseReport
      BY DEF TypeOK, Report
    <3>4. Head(up).value \in GseReport /\ Head(up).value \in Icon
      BY <3>2, ReportAssumption DEF Icon
    <3>5. pos' \in [Valve -> Icon]
      BY ONLY <3>1, <3>3, <3>4
    <3>6. \A v \in Valve : pos'[v] = pos[v] \/ pos'[v] = Head(up).value
      BY ONLY <3>1, <3>3
    <3>7. /\ \A v \in AvValve : pos'[v] \in Position
          /\ \A v \in GseValve : pos'[v] \in GseReport
      BY <3>2, <3>3, <3>4, <3>6 DEF Valve
    <3> QED
      BY <3>5, <3>7 DEF Report
  <2> QED
    BY <1>6, <2>2, <2>3 DEF TypeOK, TakeOrder, shown
<1>7. CASE VehicleMoves
  <2>1. pos' \in Report
    BY <1>7 DEF TypeOK, VehicleMoves
  <2>2. mode' \in Mode
    BY <1>7 DEF TypeOK, VehicleMoves
  <2> QED
    BY <1>7, <2>1, <2>2 DEF TypeOK, VehicleMoves, shown
<1>8. CASE UNCHANGED vars
  BY <1>8 DEF TypeOK, vars, vehicle, shown
<1> QED
  BY <1>1, <1>2, <1>3, <1>4, <1>5, <1>6, <1>7, <1>8 DEF Next

\* The window's state has its types, and no more orders are under way than the
\* bound allows.
THEOREM NordendTypeCorrect == Spec => []TypeOK
<1>1. Init => TypeOK
  BY ModeAssumption, UpCapAssumption DEF Init, TypeOK, Position, Icon
<1>2. TypeOK /\ [Next]_vars => TypeOK'
  BY NextType
<1> QED
  BY <1>1, <1>2, PTL DEF Spec

---------------------------------------------------------------------------

\* The state table never says NOW of two states: every writer of the labels goes
\* through last_state or only takes labels away.
THEOREM StateTableHasOneNow == Spec => []OneStateNow
<1>1. Init => OneStateNow
  BY DEF Init, OneStateNow
<1>2. OneStateNow /\ [Next]_vars => OneStateNow'
  <2> SUFFICES ASSUME OneStateNow, [Next]_vars
               PROVE  OneStateNow'
    OBVIOUS
  <2>1. ASSUME NEW m, UpdateStates(m) PROVE OneStateNow'
    BY <2>1 DEF OneStateNow, UpdateStates
  <2>2. ASSUME UNCHANGED <<now, lastState>> PROVE OneStateNow'
    BY <2>2 DEF OneStateNow
  <2>3. CASE ResetValves
    BY <2>3 DEF OneStateNow, ResetValves
  <2>4. CASE Operator
    <3>1. ASSUME NEW v, NEW value, SendCmd(v, value) PROVE OneStateNow'
      BY <2>2, <3>1 DEF SendCmd
    <3>2. ASSUME NEW id, NEW value, SendPlain(id, value) PROVE OneStateNow'
      BY <2>2, <3>2 DEF SendPlain, shown
    <3>3. ASSUME NEW d, OpenDialog(d) PROVE OneStateNow'
      BY <2>2, <3>3 DEF OpenDialog, shown
    <3>4. ASSUME NEW d, NEW id, AnswerYes(d, id) PROVE OneStateNow'
      BY <2>2, <3>4 DEF AnswerYes, shown
    <3>5. CASE OpenSerial \/ CloseSerial
      BY <2>2, <3>5 DEF OpenSerial, CloseSerial, Keep, shown
    <3>6. CASE \E m \in Mode : Debug(m)
      BY <2>1, <3>6 DEF Debug
    <3>7. CASE (\E v \in Valve : Toggle(v)) \/ (\E v \in Valve, value \in Position : Manual(v, value))
      BY <3>1, <3>7 DEF Toggle, Manual
    <3>8. CASE Arm \/ Disarm \/ Abort \/ Recover
      BY <3>2, <3>8 DEF Arm, Disarm, Abort, Recover
    <3>9. CASE PressIgnition \/ PressDisconnect \/ PressPressurization
      BY <3>2, <3>3, <3>9 DEF PressIgnition, PressDisconnect, PressPressurization
    <3>10. CASE AnswerIgnition \/ AnswerDisconnect
      BY <3>4, <3>10 DEF AnswerIgnition, AnswerDisconnect
    <3> QED
      BY <2>3, <2>4, <3>5, <3>6, <3>7, <3>8, <3>9, <3>10 DEF Operator
  <2>5. CASE AvTelemetry
    BY <2>1, <2>5 DEF AvTelemetry
  <2>6. CASE GseTelemetry
    BY <2>2, <2>6 DEF GseTelemetry
  <2>7. CASE CloseDialog \/ SerialError \/ TakeOrder \/ VehicleMoves \/ UNCHANGED vars
    BY <2>2, <2>7 DEF CloseDialog, SerialError, Keep, TakeOrder, VehicleMoves, vars, shown
  <2> QED
    BY <2>4, <2>5, <2>6, <2>7 DEF Next
<1> QED
  BY <1>1, <1>2, PTL DEF Spec

---------------------------------------------------------------------------

\* Icons only turn to "Unknown" or to what a packet that has just been stored
\* reports, so that an icon never comes to disagree with the stored packets.
THEOREM IconsFollowReports == Spec => ShownStaysReported
<1> DEFINE Kept == \A v \in Valve : IsReported(v) => IsReported(v)'
<1>1. TypeOK /\ [Next]_vars => [Kept]_vars
  <2> SUFFICES ASSUME TypeOK, Next PROVE Kept
    BY DEF vars
  <2>1. ASSUME UNCHANGED <<av, gse, img>> PROVE Kept
    BY <2>1 DEF IsReported, Reported
  <2>2. ASSUME NEW w \in Valve, NEW value, SendCmd(w, value) PROVE Kept
    <3> SUFFICES ASSUME NEW v \in Valve, IsReported(v) PROVE IsReported(v)'
      OBVIOUS
    <3>1. Reported(v)' = Reported(v)
      BY <2>2 DEF SendCmd, Reported
    <3>2. img'[v] \in {img[v], "Unknown"}
      BY <2>2 DEF SendCmd, TypeOK
    <3> QED
      BY <3>1, <3>2 DEF IsReported
  <2>3. ASSUME NEW id, NEW value, SendPlain(id, value) PROVE Kept
    BY <2>1, <2>3 DEF SendPlain, shown
  <2>4. ASSUME NEW d, OpenDialog(d) PROVE Kept
    BY <2>1, <2>4 DEF OpenDialog, shown
  <2>5. ASSUME NEW d, NEW id, AnswerYes(d, id) PROVE Kept
    BY <2>1, <2>5 DEF AnswerYes, shown
  <2>6. CASE Operator
    <3>1. CASE (\E v \in Valve : Toggle(v)) \/ (\E v \in Valve, value \in Position : Manual(v, value))
      BY <2>2, <3>1 DEF Toggle, Manual
    <3>2. CASE Arm \/ Disarm \/ Abort \/ Recover
      BY <2>3, <3>2 DEF Arm, Disarm, Abort, Recover
    <3>3. CASE PressIgnition \/ PressDisconnect \/ PressPressurization
      BY <2>3, <2>4, <3>3 DEF PressIgnition, PressDisconnect, PressPressurization
    <3>4. CASE AnswerIgnition \/ AnswerDisconnect
      BY <2>5, <3>4 DEF AnswerIgnition, AnswerDisconnect
    <3>5. CASE \E m \in Mode : Debug(m)
      BY <2>1, <3>5 DEF Debug
    <3>6. CASE ResetValves
      BY <3>6 DEF ResetValves, IsReported
    <3>7. CASE OpenSerial \/ CloseSerial
      BY <2>1, <3>7 DEF OpenSerial, CloseSerial, Keep, shown
    <3> QED
      BY <2>6, <3>1, <3>2, <3>3, <3>4, <3>5, <3>6, <3>7 DEF Operator
  <2>7. CASE AvTelemetry
    <3> SUFFICES ASSUME NEW v \in Valve, IsReported(v) PROVE IsReported(v)'
      OBVIOUS
    <3>1. CASE v \in AvValve
      <4>1. av'.valve[v] = pos[v] /\ img'[v] = pos[v]
        BY <2>7, <3>1 DEF AvTelemetry
      <4> QED
        BY <3>1, <4>1 DEF IsReported, Reported
    <3>2. CASE v \notin AvValve
      <4>1. gse' = gse /\ img'[v] = img[v]
        BY <2>7, <3>2 DEF AvTelemetry
      <4> QED
        BY <3>2, <4>1 DEF IsReported, Reported
    <3> QED
      BY <3>1, <3>2
  <2>8. CASE GseTelemetry
    <3> SUFFICES ASSUME NEW v \in Valve, IsReported(v) PROVE IsReported(v)'
      OBVIOUS
    <3>1. CASE v \in GseValve
      <4>1. v \notin AvValve
        BY <3>1, ValveAssumption
      <4>2. gse'[v] = pos[v] /\ img'[v] = pos[v]
        BY <2>8, <3>1 DEF GseTelemetry
      <4> QED
        BY <4>1, <4>2 DEF IsReported, Reported
    <3>2. CASE v \notin GseValve
      <4>1. v \in AvValve
        BY <3>2 DEF Valve
      <4>2. av' = av /\ img'[v] = img[v]
        BY <2>8, <3>2 DEF GseTelemetry
      <4> QED
        BY <4>1, <4>2 DEF IsReported, Reported
    <3> QED
      BY <3>1, <3>2
  <2>9. CASE CloseDialog \/ SerialError \/ TakeOrder \/ VehicleMoves
    BY <2>1, <2>9 DEF CloseDialog, SerialError, Keep, TakeOrder, VehicleMoves, shown
  <2> QED
    BY <2>6, <2>7, <2>8, <2>9 DEF Next
<1>2. Spec => []TypeOK
  BY NordendTypeCorrect
<1> QED
  BY <1>1, <1>2, PTL DEF Spec, ShownStaysReported
=============================================================================
