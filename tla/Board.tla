-------------------------------- MODULE Board --------------------------------
(***************************************************************************)
(* The Connector between the Worker and the window: one atomic cell per    *)
(* value, and no lock over several.  The Worker writes the cells of a      *)
(* packet one after the other (Header, then the data of its datagram, and  *)
(* File when an image is complete); the window reads them one after the    *)
(* other every REFRESH_RATE, eats the counters of its packet rates and the *)
(* announcement of an image, and clears many of them when reset is pressed.*)
(* Each step below is one access to one cell.                              *)
(***************************************************************************)
EXTENDS Naturals, Sequences

CONSTANTS
  Heights,      \* the heights packets report; 0 is what reset leaves
  States,       \* the flight states packets report, 0 left out likewise
  MaxPackets,   \* bound: packets received
  MaxPictures,  \* bound: images completed
  MaxResets     \* bound: times the reset button is pressed

ASSUME BoardAssumption ==
  /\ Heights \subseteq Nat \ {0} /\ States \subseteq Nat \ {0}
  /\ MaxPackets \in Nat /\ MaxPictures \in Nat /\ MaxResets \in Nat

VARIABLES
  data,         \* dataCollection, and imgPLfilename (a number for each name)
  step,         \* the cell the Worker accesses next, "compare" or "idle"
  kind, value,  \* the packet it works on
  job, place,   \* the GUI thread: "idle", "refresh" or "reset", and how far
  panel,        \* what the window shows of each cell
  packets, avPackets, pictures, resets,  \* how many there were
  eaten,        \* ghost: what the window has added up of each rate
  overtaken     \* ghost: heights written between two steps of a reset

worker == <<step, kind, value>>
window == <<job, place, panel, eaten>>
counts == <<packets, avPackets, pictures, resets>>
vars   == <<data, worker, window, counts, overtaken>>

Counter == {"TOTAL_RX_PACKET_CTR", "PACKET_CTR_ALL", "PACKET_CTR_AV", "CORRUPTED_PACKET_CTR"}
Rate    == {"PACKET_CTR_ALL", "PACKET_CTR_AV"}
Height  == {"GPS_ALTITUDE", "T_ALTITUDE"}
Shown   == {"TOTAL_RX_PACKET_CTR", "STATUS_AV_STATE", "ALTITUDE_MAX"}
Panel   == Shown \cup Rate \cup {"imgPLfilename"}
Cell    == Counter \cup Shown \cup Height \cup {"ALL_RECEIVED", "imgPLfilename"}

Avionics == {"gps", "telemetry", "status"}
Kind     == Avionics \cup {"other", "corrupted", "image"}

\* The cells in the order in which the window reads and clears them.  The
\* other values are read as STATUS_AV_STATE is, and not followed.
RefreshOrder ==
  <<"TOTAL_RX_PACKET_CTR", "PACKET_CTR_ALL", "PACKET_CTR_AV",
    "STATUS_AV_STATE", "ALTITUDE_MAX", "ALL_RECEIVED", "imgPLfilename">>

dataToReset ==
  <<"CORRUPTED_PACKET_CTR", "GPS_ALTITUDE", "T_ALTITUDE", "ALTITUDE_MAX",
    "ALL_RECEIVED", "STATUS_AV_STATE">>

Content(c) ==
  IF c \in Counter THEN 0 .. MaxPackets
  ELSE IF c \in Height \cup {"ALTITUDE_MAX"} THEN Heights \cup {0}
  ELSE IF c = "STATUS_AV_STATE" THEN States \cup {0}
  ELSE IF c = "ALL_RECEIVED" THEN {0, 1} ELSE 0 .. MaxPictures

TypeOK ==
  /\ DOMAIN data = Cell /\ \A c \in Cell : data[c] \in Content(c)
  /\ DOMAIN panel = Panel /\ \A c \in Panel : panel[c] \in Content(c)
  /\ step \in Cell \cup {"compare", "idle"}
  /\ kind \in Kind /\ value \in Heights \cup States \cup 0 .. MaxPictures
  /\ job \in {"idle", "refresh", "reset"} /\ place \in 1 .. Len(RefreshOrder)
  /\ packets \in 0 .. MaxPackets /\ avPackets \in 0 .. packets
  /\ pictures \in 0 .. MaxPictures /\ resets \in 0 .. MaxResets
  /\ eaten \in [Rate -> 0 .. MaxPackets] /\ overtaken \subseteq Height

Init ==
  /\ data = [c \in Cell |-> 0] /\ panel = [c \in Panel |-> 0]
  /\ step = "idle" /\ kind = "other" /\ value = 0
  /\ job = "idle" /\ place = 1
  /\ packets = 0 /\ avPackets = 0 /\ pictures = 0 /\ resets = 0
  /\ eaten = [c \in Rate |-> 0] /\ overtaken = {}

-----------------------------------------------------------------------------
(* The Worker.                                                             *)

\* A packet that can be parsed is counted in all, and for its subsystem.
Packet(k, v) ==
  /\ step = "idle" /\ packets < MaxPackets
  /\ step' = "TOTAL_RX_PACKET_CTR" /\ kind' = k /\ value' = v
  /\ packets' = packets + 1
  /\ avPackets' = IF k \in Avionics THEN avPackets + 1 ELSE avPackets
  /\ UNCHANGED <<data, window, pictures, resets, overtaken>>

\* Not a received frame, a wrong identifier or a wrong delimiter.
CorruptedPacket ==
  /\ step = "idle" /\ packets < MaxPackets
  /\ step' = "CORRUPTED_PACKET_CTR" /\ kind' = "corrupted" /\ value' = 0
  /\ packets' = packets + 1
  /\ UNCHANGED <<data, window, avPackets, pictures, resets, overtaken>>

\* An image is complete, and is exported under the next name.
Complete ==
  /\ step = "idle" /\ pictures < MaxPictures
  /\ pictures' = pictures + 1
  /\ step' = "imgPLfilename" /\ kind' = "image" /\ value' = pictures + 1
  /\ UNCHANGED <<data, window, packets, avPackets, resets, overtaken>>

\* The next access, or the end of the packet.
Goto(s) ==
  /\ step' = s
  /\ IF s = "idle" THEN kind' = "other" /\ value' = 0 ELSE UNCHANGED <<kind, value>>

\* The data of the datagram, after its header.
Data ==
  CASE kind = "gps"       -> "GPS_ALTITUDE"
    [] kind = "telemetry" -> "T_ALTITUDE"
    [] kind = "status"    -> "STATUS_AV_STATE"
    [] OTHER              -> "idle"

AfterCount ==
  CASE step = "TOTAL_RX_PACKET_CTR" -> "PACKET_CTR_ALL"
    [] step = "PACKET_CTR_ALL" /\ kind \in Avionics -> "PACKET_CTR_AV"
    [] step = "CORRUPTED_PACKET_CTR" -> "idle"
    [] OTHER -> Data

\* Mutant of Count: the header is counted again for its subsystem.
CountTwice ==
  /\ step \in Counter
  /\ data' = [data EXCEPT ![step] = @ + 1, !["TOTAL_RX_PACKET_CTR"] = @ + 1]
  /\ Goto(AfterCount)
  /\ UNCHANGED <<window, counts, overtaken>>

Count ==
  /\ step \in Counter
  /\ data' = [data EXCEPT ![step] = @ + 1]
  /\ Goto(AfterCount)
  /\ UNCHANGED <<window, counts, overtaken>>

StoreHeight ==
  /\ step \in Height
  /\ data' = [data EXCEPT ![step] = value]
  /\ Goto("compare")
  /\ UNCHANGED <<window, counts, overtaken>>

Compared == IF kind = "gps" THEN "GPS_ALTITUDE" ELSE "T_ALTITUDE"

\* Mutant of Compare: the other way round.
CompareReversed ==
  /\ step = "compare"
  /\ \/ /\ value < data["ALTITUDE_MAX"]
        /\ Goto("ALTITUDE_MAX") /\ UNCHANGED overtaken
     \/ /\ value >= data["ALTITUDE_MAX"]
        /\ Goto("idle") /\ overtaken' = overtaken \ {Compared}
  /\ UNCHANGED <<data, window, counts>>

\* ALTITUDE_MAX is read and compared; it is set in a step of its own.
Compare ==
  /\ step = "compare"
  /\ \/ /\ value > data["ALTITUDE_MAX"]
        /\ Goto("ALTITUDE_MAX") /\ UNCHANGED overtaken
     \/ /\ value <= data["ALTITUDE_MAX"]
        /\ Goto("idle") /\ overtaken' = overtaken \ {Compared}
  /\ UNCHANGED <<data, window, counts>>

Raise ==
  /\ step = "ALTITUDE_MAX"
  /\ data' = [data EXCEPT !["ALTITUDE_MAX"] = value]
  /\ Goto("idle") /\ overtaken' = overtaken \ {Compared}
  /\ UNCHANGED <<window, counts>>

StoreState ==
  /\ step = "STATUS_AV_STATE"
  /\ data' = [data EXCEPT ![step] = value]
  /\ Goto("idle")
  /\ UNCHANGED <<window, counts, overtaken>>

\* Mutant of Export: the image is announced before it has its name.
ExportAnnouncesFirst ==
  /\ \/ /\ step = "imgPLfilename" /\ Goto("ALL_RECEIVED")
        /\ data' = [data EXCEPT !["ALL_RECEIVED"] = 1]
     \/ /\ step = "ALL_RECEIVED" /\ Goto("idle")
        /\ data' = [data EXCEPT !["imgPLfilename"] = value]
  /\ UNCHANGED <<window, counts, overtaken>>

\* First the name of the image, then its announcement.
Export ==
  /\ \/ /\ step = "imgPLfilename" /\ Goto("ALL_RECEIVED")
        /\ data' = [data EXCEPT !["imgPLfilename"] = value]
     \/ /\ step = "ALL_RECEIVED" /\ Goto("idle")
        /\ data' = [data EXCEPT !["ALL_RECEIVED"] = 1]
  /\ UNCHANGED <<window, counts, overtaken>>

Handle ==
  Count \/ StoreHeight \/ Compare \/ Raise \/ StoreState \/ Export

Receive ==
  \/ \E v \in Heights : Packet("gps", v) \/ Packet("telemetry", v)
  \/ \E v \in States : Packet("status", v)
  \/ Packet("other", 0) \/ CorruptedPacket \/ Complete

-----------------------------------------------------------------------------
(* The window.                                                             *)

Refresh ==
  /\ job = "idle" /\ job' = "refresh" /\ place' = 1
  /\ UNCHANGED <<data, worker, panel, eaten, counts, overtaken>>

PressReset ==
  /\ job = "idle" /\ resets < MaxResets /\ resets' = resets + 1
  /\ job' = "reset" /\ place' = 1
  /\ UNCHANGED <<data, worker, panel, eaten, packets, avPackets, pictures, overtaken>>

Reading(c) == job = "refresh" /\ RefreshOrder[place] = c

Proceed(order) ==
  IF place < Len(order) THEN place' = place + 1 /\ UNCHANGED job
                        ELSE place' = 1 /\ job' = "idle"

\* getData, and on the panel.
Read(c) ==
  /\ Reading(c) /\ panel' = [panel EXCEPT ![c] = data[c]]
  /\ Proceed(RefreshOrder)
  /\ UNCHANGED <<data, worker, eaten, counts, overtaken>>

\* Mutant of EatRate: the counter is read and left.
EatRateReads(c) ==
  /\ Reading(c)
  /\ panel' = [panel EXCEPT ![c] = data[c]]
  /\ eaten' = [eaten EXCEPT ![c] = @ + data[c]]
  /\ Proceed(RefreshOrder)
  /\ UNCHANGED <<data, worker, counts, overtaken>>

\* eatData: an atomic exchange.
EatRate(c) ==
  /\ Reading(c)
  /\ panel' = [panel EXCEPT ![c] = data[c]]
  /\ eaten' = [eaten EXCEPT ![c] = @ + data[c]]
  /\ data' = [data EXCEPT ![c] = 0]
  /\ Proceed(RefreshOrder)
  /\ UNCHANGED <<worker, counts, overtaken>>

EatAnnouncement ==
  /\ Reading("ALL_RECEIVED")
  /\ data' = [data EXCEPT !["ALL_RECEIVED"] = 0]
  /\ IF data["ALL_RECEIVED"] = 1 THEN place' = place + 1 /\ UNCHANGED job
                                 ELSE place' = 1 /\ job' = "idle"
  /\ UNCHANGED <<worker, panel, eaten, counts, overtaken>>

\* dataToReset, one after the other.  A height that is back when the maximum
\* is cleared has been overtaken by the reset.
Clear ==
  /\ job = "reset"
  /\ LET c == dataToReset[place] IN
       /\ data' = [data EXCEPT ![c] = 0]
       /\ overtaken' = IF c = "ALTITUDE_MAX" THEN {h \in Height : data[h] # 0}
                       ELSE overtaken
  /\ Proceed(dataToReset)
  /\ UNCHANGED <<worker, panel, eaten, counts>>

Window ==
  \/ Refresh \/ EatAnnouncement \/ Clear
  \/ \E c \in Shown \cup {"imgPLfilename"} : Read(c)
  \/ \E c \in Rate : EatRate(c)

Next == Receive \/ Handle \/ Window \/ PressReset

\* Both threads run, and the refresh timer fires; nobody has to send a packet
\* or to press reset.
Spec == Init /\ [][Next]_vars /\ WF_vars(Handle) /\ WF_vars(Window)

-----------------------------------------------------------------------------
(* Properties.                                                             *)

\* The window takes the counters while the Worker increments them: over all
\* refreshes each packet is in the rate of all packets once, and in the rate
\* of its subsystem once.
CountedOnce ==
  /\ data["PACKET_CTR_ALL"] + eaten["PACKET_CTR_ALL"]
       + (IF step = "PACKET_CTR_ALL" THEN 1 ELSE 0) = data["TOTAL_RX_PACKET_CTR"]
  /\ data["PACKET_CTR_AV"] + eaten["PACKET_CTR_AV"]
       + (IF step \in Counter /\ kind \in Avionics THEN 1 ELSE 0) = avPackets

\* The maximum on the board is at least the height on the board, but while
\* the packet is worked on, and after a reset that was overtaken by a packet,
\* until the next packet.
MaxCovers ==
  \A h \in Height \ overtaken :
    \/ data[h] <= data["ALTITUDE_MAX"]
    \/ step \in {"compare", "ALTITUDE_MAX"} /\ h = Compared

\* When no packet arrives any more, the window ends by showing what is on the
\* board, packet rates of 0 and, unless a reset took its announcement away,
\* the last image: a refresh in the middle of a packet misses nothing for good.
WindowCatchesUp ==
  <>[][~Receive]_vars =>
    <>[](/\ \A c \in Shown : panel[c] = data[c]
         /\ \A c \in Rate : panel[c] = 0 /\ data[c] = 0
         /\ resets = 0 => panel["imgPLfilename"] = pictures)
=============================================================================
