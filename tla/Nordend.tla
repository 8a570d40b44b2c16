------------------------------ MODULE Nordend ------------------------------
(***************************************************************************)
(* The Nordend window (UI/NordendGUI.cpp): the operator sees the last      *)
(* reported positions of the valves and the flight state, and gives orders *)
(* over a serial port.  Everything runs in the Qt thread, but a            *)
(* QMessageBox runs an event loop of its own: while one is open the        *)
(* buttons do not react (it is modal), telemetry and port errors are       *)
(* handled as usual.                                                       *)
(*                                                                         *)
(* External, from how the window uses it: the Capsule encoding (a packet   *)
(* arrives whole or not at all), the packet layout, and the vehicle with   *)
(* its ground equipment, which take valve orders and otherwise do as they  *)
(* please.  Pressures, positions, timers and log files are left out.       *)
(***************************************************************************)
EXTENDS Integers, Sequences

CONSTANTS
  AvValve,     \* the valves of the vehicle
  GseValve,    \* the valves of the ground equipment
  Pressurize,  \* the vehicle's pressurisation valve
  GseReport,   \* what a status byte of the ground equipment may say of a valve
  Mode,        \* FLIGHTMODE
  Labelled,    \* the modes that have a line in the state table
  UpCap        \* bound on orders under way, for TLC

ASSUME ValveAssumption == Pressurize \in AvValve /\ AvValve \cap GseValve = {}
ASSUME ModeAssumption  ==
  /\ {"ARMED_MODE", "PRESSURED_MODE", "DESCENT_MODE"} \subseteq Mode
  /\ "INITIALIZE_MODE" \in Labelled /\ Labelled \subseteq Mode
ASSUME UpCapAssumption == UpCap \in Nat

Valve    == AvValve \cup GseValve
Position == {"ACTIVE", "INACTIVE"}
Icon     == Position \cup {"Unknown"}
Opposite(p) == IF p = "ACTIVE" THEN "INACTIVE" ELSE "ACTIVE"

\* A byte that is neither ACTIVE nor INACTIVE is shown as "Unknown".
ASSUME ReportAssumption == Position \subseteq GseReport /\ GseReport \subseteq Icon

\* What packets may say of the valves; of the vehicle's they have a flag each.
Report ==
  {p \in [Valve -> Icon] :
     /\ \A v \in AvValve : p[v] \in Position
     /\ \A v \in GseValve : p[v] \in GseReport}

\* orders that are not about one valve
Command == {"ARM", "ABORT", "RECOVER", "IGNITION", "DISCONNECT", "PRESSURIZE"}

\* av_uplink_t: order_id and order_value
Order == [id : Valve \cup Command, value : Position]

VARIABLES
  pos, mode,         \* vehicle and ground equipment (external)
  av, gse,           \* packetAV_downlink, packetGSE_downlink: valves and av_state
  img,               \* the icon of each valve
  now, lastState,    \* the labels that say NOW, and last_state
  safe,              \* safe_config_label is visible
  dialog,            \* the QMessageBox that is open
  port,              \* serial->isOpen()
  up                 \* orders on their way

vehicle == <<pos, mode>>
shown   == <<av, gse, img, now, lastState, safe>>
vars    == <<vehicle, shown, dialog, port, up>>

\* An order that finds the link full is lost.
Append1(q, m) == IF Len(q) < UpCap THEN Append(q, m) ELSE q

---------------------------------------------------------------------------
(* What the window computes from the last packets.                         *)

Reported(v) == IF v \in AvValve THEN av.valve[v] ELSE gse[v]

\* visibility of safe_config_label
SafeConfig(avp, gsep) ==
  /\ \A v \in GseValve : gsep[v] = "INACTIVE"
  /\ \A v \in AvValve \ {Pressurize} : avp.valve[v] = "INACTIVE"
  /\ avp.valve[Pressurize] = "ACTIVE" <=> avp.mode = "DESCENT_MODE"

---------------------------------------------------------------------------

\* The two packets are members that no constructor initialises; the .ui file
\* shows every valve inactive, every state "X", and "SAFE config".  The
\* constructor looks for a port.
Init ==
  /\ pos \in Report /\ mode \in Mode
  /\ av \in [valve : [AvValve -> Position], mode : Mode]
  /\ gse \in [GseValve -> GseReport]
  /\ img = [v \in Valve |-> "INACTIVE"]
  /\ now = {} /\ lastState = "INITIALIZE_MODE"
  /\ safe = TRUE
  /\ dialog = "none"
  /\ port \in BOOLEAN
  /\ up = <<>>

---------------------------------------------------------------------------
(* Orders.                                                                 *)

\* sendSerialPacket: with the port closed nothing is written; an order may
\* be lost on its way.
Send(id, value) ==
  LET o == [id |-> id, value |-> value]
  IN  \/ up' = up
      \/ port /\ up' = Append1(up, o)

\* Mutant: the icon shows the order as if it were done
SendCmdOptimistic(v, value) ==
  /\ Send(v, value)
  /\ img' = [img EXCEPT ![v] = value]
  /\ UNCHANGED <<vehicle, av, gse, now, lastState, safe, dialog, port>>

\* send_cmd
SendCmd(v, value) ==
  /\ Send(v, value)
  /\ img' = [img EXCEPT ![v] = "Unknown"]
  /\ UNCHANGED <<vehicle, av, gse, now, lastState, safe, dialog, port>>

\* a click on the icon of a valve: the opposite of what was last reported
Toggle(v) == dialog = "none" /\ SendCmd(v, Opposite(Reported(v)))

\* the buttons "cmd_active_..." and "cmd_inactive_..."
Manual(v, value) == dialog = "none" /\ SendCmd(v, value)

SendPlain(id, value) ==
  /\ dialog = "none"
  /\ Send(id, value)
  /\ UNCHANGED <<vehicle, shown, dialog, port>>

Arm     == SendPlain("ARM", "ACTIVE")
Disarm  == SendPlain("ARM", "INACTIVE")
Abort   == SendPlain("ABORT", "ACTIVE")
Recover == SendPlain("RECOVER", "ACTIVE")

OpenDialog(d) ==
  /\ dialog = "none"
  /\ dialog' = d
  /\ UNCHANGED <<vehicle, shown, port, up>>

\* on_ignition_cmd_pressed up to the question
PressIgnition ==
  IF av.mode = "PRESSURED_MODE" THEN OpenDialog("ignition") ELSE OpenDialog("info")

PressDisconnect == OpenDialog("disconnect")

\* The answer to the question, in the event loop of which telemetry may have
\* been handled.
AnswerYes(d, id) ==
  /\ dialog = d
  /\ dialog' = "none"
  /\ Send(id, "ACTIVE")
  /\ UNCHANGED <<vehicle, shown, port>>

AnswerIgnition   == AnswerYes("ignition", "IGNITION")
AnswerDisconnect == AnswerYes("disconnect", "DISCONNECT")

\* No, or the end of an information bubble (OK, or its three seconds)
CloseDialog ==
  /\ dialog # "none"
  /\ dialog' = "none"
  /\ UNCHANGED <<vehicle, shown, port, up>>

\* order_value is not set
PressPressurization ==
  \/ /\ av.mode = "ARMED_MODE"
     /\ \E junk \in Position : SendPlain("PRESSURIZE", junk)
  \/ /\ av.mode # "ARMED_MODE"
     /\ OpenDialog("info")

---------------------------------------------------------------------------
(* The state table.                                                        *)

\* Mutant: last_state follows modes that have no label, too
UpdateStatesUnlabelled(m) ==
  now' = (now \ {lastState}) \cup ({m} \cap Labelled) /\ lastState' = m

\* Mutant: set_AV_state forgets to set last_state
UpdateStatesForgets(m) ==
  /\ now' = (now \ {lastState}) \cup ({m} \cap Labelled)
  /\ lastState' = lastState

\* update_AV_states: modes without a label leave last_state as it is
UpdateStates(m) ==
  IF m \in Labelled
  THEN now' = (now \ {lastState}) \cup {m} /\ lastState' = m
  ELSE now' = now \ {lastState} /\ lastState' = lastState

\* on_debug_button_pressed walks through the modes
Debug(m) ==
  /\ dialog = "none"
  /\ UpdateStates(m)
  /\ UNCHANGED <<vehicle, av, gse, img, safe, dialog, port, up>>

\* on_reset_valves_pressed; it has no line for st_ready_steady, and leaves
\* last_state and the packets alone
ResetValves ==
  /\ dialog = "none"
  /\ img' = [v \in Valve |-> "Unknown"]
  /\ now' = now \cap {"READYSTEADY_MODE"}
  /\ UNCHANGED <<vehicle, av, gse, lastState, safe, dialog, port, up>>

---------------------------------------------------------------------------
(* The serial port.                                                        *)

Keep == UNCHANGED <<vehicle, shown, dialog, up>>

OpenSerial  == dialog = "none" /\ ~port /\ port' = TRUE /\ Keep
CloseSerial == dialog = "none" /\ port /\ port' = FALSE /\ Keep
SerialError == port /\ port' = FALSE /\ Keep

---------------------------------------------------------------------------
(* handleSerialRxPacket.  A report takes no time and an order any time, so  *)
(* a report from before the execution of an order still arrives after it   *)
(* was given.                                                              *)

\* Mutant: an icon set to Unknown by an order waits for ever
AvTelemetryKeepsUnknown ==
  /\ port
  /\ av' = [valve |-> [v \in AvValve |-> pos[v]], mode |-> mode]
  /\ img' = [v \in Valve |->
               IF v \in AvValve /\ img[v] # "Unknown" THEN pos[v] ELSE img[v]]
  /\ UpdateStates(mode)
  /\ UNCHANGED <<vehicle, gse, safe, dialog, port, up>>

\* CAPSULE_ID::AV_TELEMETRY
AvTelemetry ==
  /\ port
  /\ av' = [valve |-> [v \in AvValve |-> pos[v]], mode |-> mode]
  /\ img' = [v \in Valve |-> IF v \in AvValve THEN pos[v] ELSE img[v]]
  /\ UpdateStates(mode)
  /\ UNCHANGED <<vehicle, gse, safe, dialog, port, up>>

\* Mutant: the label is only ever hidden
GseTelemetryHides ==
  /\ port
  /\ gse' = [v \in GseValve |-> pos[v]]
  /\ img' = [v \in Valve |-> IF v \in GseValve THEN pos[v] ELSE img[v]]
  /\ safe' = (safe /\ SafeConfig(av, gse'))
  /\ UNCHANGED <<vehicle, av, now, lastState, dialog, port, up>>

\* CAPSULE_ID::GSE_TELEMETRY
GseTelemetry ==
  /\ port
  /\ gse' = [v \in GseValve |-> pos[v]]
  /\ img' = [v \in Valve |-> IF v \in GseValve THEN pos[v] ELSE img[v]]
  /\ safe' = SafeConfig(av, gse')
  /\ UNCHANGED <<vehicle, av, now, lastState, dialog, port, up>>

---------------------------------------------------------------------------
(* The other side.                                                         *)

TakeOrder ==
  /\ up # <<>>
  /\ up' = Tail(up)
  /\ LET o == Head(up)
     IN  pos' = IF o.id \in Valve THEN [pos EXCEPT ![o.id] = o.value] ELSE pos
  /\ UNCHANGED <<mode, shown, dialog, port>>

\* the vehicle's own sequence, and what it makes of the other orders
VehicleMoves ==
  /\ \/ /\ \E v \in Valve, p \in Icon : pos' = [pos EXCEPT ![v] = p]
        /\ pos' \in Report /\ mode' = mode
     \/ mode' \in Mode /\ pos' = pos
  /\ UNCHANGED <<shown, dialog, port, up>>

---------------------------------------------------------------------------

Operator ==
  \/ \E v \in Valve : Toggle(v)
  \/ \E v \in Valve, value \in Position : Manual(v, value)
  \/ Arm \/ Disarm \/ Abort \/ Recover
  \/ PressIgnition \/ PressDisconnect \/ PressPressurization
  \/ AnswerIgnition \/ AnswerDisconnect
  \/ \E m \in Mode : Debug(m)
  \/ ResetValves
  \/ OpenSerial \/ CloseSerial

Next ==
  \/ Operator \/ CloseDialog \/ SerialError
  \/ AvTelemetry \/ GseTelemetry
  \/ TakeOrder \/ VehicleMoves

Spec == Init /\ [][Next]_vars

\* Both sides report again and again, and a report arrives some time.
FairSpec == Spec /\ WF_vars(AvTelemetry) /\ WF_vars(GseTelemetry)

-----------------------------------------------------------------------------
(* Properties.                                                             *)

\* Types; the orders under way within their bound.
TypeOK ==
  /\ pos \in Report /\ mode \in Mode
  /\ av \in [valve : [AvValve -> Position], mode : Mode]
  /\ gse \in [GseValve -> GseReport]
  /\ img \in [Valve -> Icon]
  /\ now \subseteq Labelled /\ lastState \in Labelled
  /\ safe \in BOOLEAN /\ port \in BOOLEAN
  /\ dialog \in {"none", "ignition", "disconnect", "info"}
  /\ up \in Seq(Order) /\ Len(up) <= UpCap

\* The state table never says NOW of two states, although telemetry, the debug
\* button and the reset write it (update_AV_states relies on last_state,
\* which the reset does not know of).
OneStateNow == now \subseteq {lastState}

\* What an icon shows is the last report or that it is not known, from the
\* first report on: a click on it then asks for the opposite of the position it
\* shows, if it shows one.
IsReported(v) == img[v] \in {Reported(v), "Unknown"}
ShownStaysReported == [][\A v \in Valve : IsReported(v) => IsReported(v)']_vars

\* Once the vehicle stands still and only telemetry writes to the panel, with
\* the port open (dialogues may come and go) ...
Quiet == <>[][\/ AvTelemetry \/ GseTelemetry
              \/ UNCHANGED <<vehicle, shown, port>>]_vars

\* ... every icon and the state table show what is, whatever was shown,
\* reset or ordered before (a lost order included).
PanelCatchesUp ==
  Quiet /\ <>[]port => <>[](img = pos /\ now = {mode} \cap Labelled)

\* ... and "SAFE config" is shown exactly in the safe configuration, although
\* only telemetry of the ground equipment computes it, from the last packet
\* of the vehicle.
SafeLabelCatchesUp ==
  Quiet /\ <>[]port => <>[](safe <=> SafeConfig([valve |-> pos, mode |-> mode], pos))

\* What the window says of its ignition button: the order is rejected when
\* the vehicle is not in PRESSURED_MODE.  (It is tested before the question.)
IgnitionOnlyPressured ==
  [][\A o \in Order :
       up' = Append(up, o) /\ o.id = "IGNITION" => av.mode = "PRESSURED_MODE"]_vars
=============================================================================
