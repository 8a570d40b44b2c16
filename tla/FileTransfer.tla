---------------------------- MODULE FileTransfer ----------------------------
(***************************************************************************)
(* The transmission of an image from the payload to the ground station     *)
(* (class File, which both sides run in their RF loop): the receiver asks  *)
(* for the file, the transmitter announces its number of packets (INIT)    *)
(* and streams them, and when the last one arrives the receiver asks for   *)
(* the missing ones, or declares ALL_RECEIVED and exports the file.        *)
(*                                                                         *)
(* An iteration of either loop is parse and updateRx of at most one packet,*)
(* then updateTx and write.  write runs, and changes the state, whether or *)
(* not the packet is then sent; sendingData is true exactly in the states  *)
(* in which the actions below send.  The contents of a packet are the      *)
(* image it was cut from; it also carries, by its form, whether it is the  *)
(* last of that image.  FTX_SAVE_FILE, which writes a copy of what has     *)
(* arrived so far and changes nothing else, is left out.                   *)
(***************************************************************************)
EXTENDS Naturals, Sequences, FiniteSets

CONSTANTS
  Image,        \* the images the payload may have taken
  Size,         \* their number of packets
  MaxSize,      \* the number of packets of the largest
  NoImage,      \* no file to import; also a packet that is not there
  Garbage,      \* contents that are no part of an image
  MissingCap,   \* numbers in a request (bytePerPacket / sizeof(Number))
  ChanCap,      \* packets the radio link holds in one direction
  Removable,    \* the image may go from the disk, or no longer be opened
  EarlyMissing, \* the operator may ask for missing packets before any INIT
  Restarts      \* which of "rx" and "tx" may be restarted

ASSUME FileAssumption ==
  /\ NoImage \notin Image /\ Garbage \notin Image \cup {NoImage}
  /\ MaxSize \in Nat \ {0} /\ Size \in [Image -> 1..MaxSize]
  /\ MissingCap \in Nat \ {0} /\ ChanCap \in Nat \ {0}
  /\ {Removable, EarlyMissing} \subseteq BOOLEAN /\ Restarts \subseteq {"rx", "tx"}

VARIABLES
  rPc,       \* receiver's loop: "rx" or "tx"
  rState,    \* receiver's myState
  rTot,      \* its nbrTotPacket
  rLast,     \* its lastPacketNbr: the packet that ends a stream
  rFile,     \* its file: for each packet number the contents, or NoImage
  exported,  \* {the file last exported on ALL_RECEIVED}, {} before
  request, missing, abort,  \* the operator's orders in the Connector
  tPc,       \* transmitter's loop: "rx", "tx" or "crashed"
  tState,    \* transmitter's myState
  tImage,    \* the image in its file, NoImage when file is empty
  tTot,      \* its nbrTotPacket
  tLast,     \* its lastPacketNbr
  tNbr,      \* its packetNbr
  tMissing,  \* what is left of its missingPacketNbr
  disk,      \* the image file that importFile would read
  toRx, toTx \* the radio link

rVars    == <<rPc, rState, rTot, rLast, rFile, exported>>
opVars   == <<request, missing, abort>>
tVars    == <<tPc, tState, tImage, tTot, tLast, tNbr, tMissing>>
vars     == <<rVars, opVars, tVars, disk, toRx, toTx>>

Number  == 0..(MaxSize - 1)

\* nbrTotPacket - 1 in unsigned arithmetic: a number no packet has, if 0.
LastOf(tot) == IF tot = 0 THEN MaxSize ELSE tot - 1

ToRx == [type : {"INIT"}, tot : 1..MaxSize]
          \cup [type : {"SENDING"}, nbr : Number, last : BOOLEAN,
                img : Image \cup {Garbage}]
          \cup [type : {"ABORT"}]
\* A list of packet numbers is increasing: it is modelled by the set of its
\* elements, sent one after the other from the smallest to last.
Missing == {m \in [type : {"MISSING"}, list : SUBSET Number, last : Number] :
              m.last \in m.list /\ \A n \in m.list : n <= m.last}
ToTx    == Missing \cup [type : {"REQUEST", "ALL_RECEIVED", "ABORT"}]

TypeOK ==
  /\ rPc \in {"rx", "tx"}
  /\ rState \in {"SLEEP", "ABORT", "WAITING_PACKET", "SEND_MISSING"}
  /\ rTot \in 0..MaxSize /\ rLast \in 0..MaxSize
  /\ rFile \in [Number -> Image \cup {NoImage, Garbage}]
  /\ exported \subseteq Seq(Image \cup {Garbage})
  /\ {request, missing, abort} \subseteq BOOLEAN
  /\ tPc \in {"rx", "tx", "crashed"}
  /\ tState \in {"SLEEP", "ABORT", "INIT", "SENDING", "SENDING_MISSING", "WAITING_MISSING"}
  /\ tImage \in Image \cup {NoImage} /\ disk \in Image \cup {NoImage}
  /\ tTot \in 0..MaxSize /\ tLast \in 0..MaxSize /\ tNbr \in 0..MaxSize
  /\ tMissing \subseteq Number
  /\ toRx \in Seq(ToRx) /\ toTx \in Seq(ToTx)

Init ==
  /\ rPc = "rx" /\ rState = "SLEEP" /\ rTot = 0 /\ rLast = 0
  /\ rFile = [n \in Number |-> NoImage] /\ exported = {}
  /\ request = FALSE /\ missing = FALSE /\ abort = FALSE
  /\ tPc = "rx" /\ tState = "SLEEP" /\ tImage = NoImage
  /\ tTot = 0 /\ tLast = 0 /\ tNbr = 0 /\ tMissing = {}
  /\ disk \in Image \cup {NoImage}
  /\ toRx = <<>> /\ toTx = <<>>

\* A packet reaches the other side's modem, or is lost.
Deliver(chan, m) ==
  (IF Len(chan) < ChanCap THEN {Append(chan, m)} ELSE {}) \cup {chan}

-----------------------------------------------------------------------------
(* The operator's buttons.  An order stays in the Connector until the      *)
(* receiver is in a state that eats it.                                    *)

PressRequest ==
  /\ ~request /\ request' = TRUE
  /\ UNCHANGED <<rVars, missing, abort, tVars, disk, toRx, toTx>>

PressMissing ==
  /\ ~missing /\ (EarlyMissing \/ rTot # 0)
  /\ missing' = TRUE
  /\ UNCHANGED <<rVars, request, abort, tVars, disk, toRx, toTx>>

PressAbort ==
  /\ ~abort /\ abort' = TRUE
  /\ UNCHANGED <<rVars, request, missing, tVars, disk, toRx, toTx>>

-----------------------------------------------------------------------------
(* The receiver.                                                           *)

\* Mutant of Resize: it clears the file.
ResizeClears(file, tot) == [n \in Number |-> NoImage]

\* std::vector::resize keeps what earlier transfers left in the file.
Resize(file, tot) == [n \in Number |-> IF n < tot THEN file[n] ELSE NoImage]

\* parse and updateRx of INIT: the receiver's state does not matter.
RxInit(m) ==
  /\ rTot' = m.tot
  /\ rLast' = LastOf(m.tot)
  /\ rFile' = Resize(rFile, m.tot)
  /\ rState' = IF abort THEN "ABORT" ELSE rState

\* A last packet begins with its length: taken for one of the others, or the
\* other way round, it gives garbage.
Contents(m) == IF m.last = (m.nbr = rTot - 1) THEN m.img ELSE Garbage

\* parse and updateRx of a packet of the file, streamed or sent again.
RxPacket(m) ==
  LET known == m.nbr < rTot
  IN /\ rFile' = IF known THEN [rFile EXCEPT ![m.nbr] = Contents(m)] ELSE rFile
     /\ rState' = CASE abort -> "ABORT"
                    [] ~abort /\ known /\ m.nbr = rLast -> "SEND_MISSING"
                    [] OTHER -> rState
     /\ UNCHANGED <<rTot, rLast>>

RxAborted ==
  /\ rState' = "SLEEP"
  /\ UNCHANGED <<rTot, rLast, rFile>>

RxReceive ==
  /\ rPc = "rx" /\ rPc' = "tx"
  /\ toRx # <<>> /\ toRx' = Tail(toRx)
  /\ LET m == Head(toRx)
     IN \/ m.type = "INIT" /\ RxInit(m)
        \/ m.type = "SENDING" /\ RxPacket(m)
        \/ m.type = "ABORT" /\ RxAborted
  /\ abort' = FALSE
  /\ UNCHANGED <<exported, request, missing, tVars, disk, toTx>>

RxReceiveNothing ==
  /\ rPc = "rx" /\ rPc' = "tx"
  /\ UNCHANGED <<rState, rTot, rLast, rFile, exported, opVars, tVars, disk, toRx, toTx>>

\* The state updateTx switches on, after the order buttons.
RxCurrent ==
  CASE abort -> "ABORT"
    [] ~abort /\ rState = "WAITING_PACKET" /\ missing -> "SEND_MISSING"
    [] OTHER -> rState

\* Mutant of Absent: all packets are missing.
AbsentAll == {n \in Number : n < rTot}

\* Mutant of RxSendAllReceived: write does not go back to SLEEP.
RxSendAllReceivedStays ==
  /\ rState = "SEND_MISSING" /\ ~abort
  /\ {n \in Number : n < rTot /\ rFile[n] = NoImage} = {}
  /\ exported' = {[i \in 1..rTot |-> rFile[i - 1]]}
  /\ rState' = "ALL_RECEIVED"
  /\ toTx' \in Deliver(toTx, [type |-> "ALL_RECEIVED"])
  /\ UNCHANGED <<rLast, request>>

\* The packets the receiver still has to get.
Absent == {n \in Number : n < rTot /\ rFile[n] = NoImage}

\* A request asks for the first MissingCap packets that are absent: up to last.
UpTo(last)      == {n \in Absent : n <= last}
EndsList(last) ==
  \/ Cardinality(UpTo(last)) = MissingCap
  \/ UpTo(last) = Absent /\ Cardinality(Absent) < MissingCap

\* An abort is sent, and ends everything on this side.
RxSendAbort ==
  /\ RxCurrent = "ABORT"
  /\ rState' = "SLEEP"
  /\ toTx' \in Deliver(toTx, [type |-> "ABORT"])
  /\ UNCHANGED <<rLast, exported, request>>

RxSendRequest ==
  /\ RxCurrent = "SLEEP" /\ request
  /\ request' = FALSE
  /\ rState' = "WAITING_PACKET"
  /\ toTx' \in Deliver(toTx, [type |-> "REQUEST"])
  /\ UNCHANGED <<rLast, exported>>

RxSendMissing ==
  /\ RxCurrent = "SEND_MISSING"
  /\ \E last \in Absent :
       /\ EndsList(last)
       /\ rLast' = last
       /\ toTx' \in Deliver(toTx, [type |-> "MISSING", list |-> UpTo(last), last |-> last])
  /\ rState' = "WAITING_PACKET"
  /\ UNCHANGED <<exported, request>>

\* No packet is missing: the file is exported, and ALL_RECEIVED is sent.
RxSendAllReceived ==
  /\ RxCurrent = "SEND_MISSING" /\ Absent = {}
  /\ exported' = {[i \in 1..rTot |-> rFile[i - 1]]}
  /\ rState' = "SLEEP"
  /\ toTx' \in Deliver(toTx, [type |-> "ALL_RECEIVED"])
  /\ UNCHANGED <<rLast, request>>

RxSendNothing ==
  /\ RxCurrent = "WAITING_PACKET" \/ (RxCurrent = "SLEEP" /\ ~request)
  /\ UNCHANGED <<rState, rLast, exported, request, toTx>>

RxTx ==
  /\ rPc = "tx" /\ rPc' = "rx"
  /\ RxSendAbort \/ RxSendRequest \/ RxSendMissing \/ RxSendAllReceived \/ RxSendNothing
  /\ abort' = FALSE
  /\ missing' = (missing /\ (abort \/ rState # "WAITING_PACKET"))
  /\ UNCHANGED <<rTot, rFile, tVars, disk, toRx>>

-----------------------------------------------------------------------------
(* The transmitter.                                                        *)

\* A new image replaces the one on the payload's disk, or there is none to
\* open any more.
NewImage ==
  /\ disk' \in (Image \cup (IF Removable THEN {NoImage} ELSE {})) \ {disk}
  /\ UNCHANGED <<rVars, opVars, tVars, toRx, toTx>>

\* importFile empties file before it knows whether there is one to read.
Import ==
  /\ tImage' = disk
  /\ IF disk = NoImage
     THEN tState' = "ABORT" /\ UNCHANGED <<tTot, tLast>>
     ELSE tState' = "INIT" /\ tTot' = Size[disk] /\ tLast' = Size[disk] - 1
  /\ UNCHANGED <<tNbr, tMissing>>

\* Mutants of TxHearMissing: lastPacketNbr is not read; only heard in SLEEP.
TxHearMissingNoLast(m) ==
  /\ tMissing' = m.list /\ tState' = "SENDING_MISSING"
  /\ UNCHANGED <<tImage, tTot, tLast, tNbr>>
TxHearMissingAsleep(m) ==
  IF tState = "SLEEP"
  THEN /\ tMissing' = m.list /\ tLast' = m.last
       /\ tState' = "SENDING_MISSING"
       /\ UNCHANGED <<tImage, tTot, tNbr>>
  ELSE UNCHANGED <<tState, tImage, tTot, tLast, tNbr, tMissing>>

\* A request for missing packets is heard in every state, SLEEP too.
TxHearMissing(m) ==
  /\ tMissing' = m.list /\ tLast' = m.last
  /\ tState' = "SENDING_MISSING"
  /\ UNCHANGED <<tImage, tTot, tNbr>>

\* A request for the file is heard in SLEEP only.
TxHearRequest ==
  IF tState = "SLEEP"
  THEN Import
  ELSE UNCHANGED <<tState, tImage, tTot, tLast, tNbr, tMissing>>

\* Mutant of TxHearEnd: packetNbr is left where it is.
TxHearEndKeepsNbr ==
  /\ tState' = "SLEEP"
  /\ UNCHANGED <<tImage, tTot, tLast, tNbr, tMissing>>

\* ALL_RECEIVED or ABORT ends the transmission.
TxHearEnd ==
  /\ tState' = "SLEEP" /\ tNbr' = 0
  /\ UNCHANGED <<tImage, tTot, tLast, tMissing>>

TxHear(m) ==
  \/ m.type = "REQUEST" /\ TxHearRequest
  \/ m.type = "MISSING" /\ TxHearMissing(m)
  \/ m.type \in {"ALL_RECEIVED", "ABORT"} /\ TxHearEnd

TxReceive ==
  /\ tPc = "rx" /\ tPc' = "tx"
  /\ toTx # <<>> /\ toTx' = Tail(toTx)
  /\ TxHear(Head(toTx))
  /\ UNCHANGED <<rVars, opVars, disk, toRx>>

TxReceiveNothing ==
  /\ tPc = "rx" /\ tPc' = "tx"
  /\ UNCHANGED <<tState, tImage, tTot, tLast, tNbr, tMissing, rVars, opVars, disk, toRx, toTx>>

\* The packet to send next, and whether file has it.
IsNext(n) ==
  \/ tState = "SENDING" /\ n = tNbr
  \/ tState = "SENDING_MISSING" /\ n \in tMissing /\ \A k \in tMissing : n <= k
InFile(n) == tImage # NoImage /\ n < Size[tImage]

Chunk(n, img) == [type |-> "SENDING", nbr |-> n, last |-> n = tTot - 1, img |-> img]

TxSendInit ==
  /\ tState = "INIT" /\ tState' = "SENDING"
  /\ toRx' \in Deliver(toRx, [type |-> "INIT", tot |-> tTot])
  /\ tPc' = "rx"
  /\ UNCHANGED <<tNbr, tMissing>>

\* Mutant of TxAdvance: the end is seen one packet too late.
TxAdvanceTooFar(n) ==
  /\ tState' = IF n > tLast THEN "WAITING_MISSING" ELSE tState
  /\ tNbr' = n + 1
  /\ tMissing' = IF tState = "SENDING_MISSING" THEN tMissing \ {n} ELSE tMissing
  /\ tPc' = "rx"

\* After the last packet of a stream it waits for the receiver.
TxAdvance(n) ==
  /\ tState' = IF n = tLast THEN "WAITING_MISSING" ELSE tState
  /\ tNbr' = n + 1
  /\ tMissing' = IF tState = "SENDING_MISSING" THEN tMissing \ {n} ELSE tMissing
  /\ tPc' = "rx"

TxSendPacket ==
  \E n \in Number :
    /\ IsNext(n) /\ InFile(n)
    /\ toRx' \in Deliver(toRx, Chunk(n, tImage))
    /\ TxAdvance(n)

\* file[packetNbr] is outside file: the program reads garbage, or dies.
TxOutside ==
  \E n \in Number :
    /\ IsNext(n) /\ ~InFile(n)
    /\ \/ /\ toRx' = toRx /\ tPc' = "crashed"
          /\ UNCHANGED <<tState, tNbr, tMissing>>
       \/ /\ toRx' \in Deliver(toRx, Chunk(n, Garbage))
          /\ TxAdvance(n)

TxSendAbort ==
  /\ tState = "ABORT" /\ tState' = "SLEEP"
  /\ toRx' \in Deliver(toRx, [type |-> "ABORT"])
  /\ tPc' = "rx"
  /\ UNCHANGED <<tNbr, tMissing>>

TxSendNothing ==
  /\ tState \in {"SLEEP", "WAITING_MISSING"}
  /\ tPc' = "rx"
  /\ UNCHANGED <<tState, tNbr, tMissing, toRx>>

TxTx ==
  /\ tPc = "tx"
  /\ TxSendInit \/ TxSendPacket \/ TxOutside \/ TxSendAbort \/ TxSendNothing
  /\ UNCHANGED <<tImage, tTot, tLast, rVars, opVars, disk, toTx>>

-----------------------------------------------------------------------------
\* The modem is switched off and on: a new DataHandler, the same Connector.
RxRestart ==
  /\ "rx" \in Restarts /\ rPc = "rx" /\ UNCHANGED rPc
  /\ rState' = "SLEEP" /\ rTot' = 0 /\ rLast' = 0
  /\ rFile' = [n \in Number |-> NoImage]
  /\ toRx' = <<>>
  /\ UNCHANGED <<exported, opVars, tVars, disk, toTx>>

\* A new payload process, after a crash or a SIGINT.
TxRestart ==
  /\ "tx" \in Restarts /\ tPc \in {"rx", "crashed"} /\ tPc' = "rx"
  /\ tState' = "SLEEP" /\ tImage' = NoImage
  /\ tTot' = 0 /\ tLast' = 0 /\ tNbr' = 0 /\ tMissing' = {}
  /\ toTx' \in {toTx, <<>>}
  /\ UNCHANGED <<rVars, opVars, disk, toRx>>

Operator    == PressRequest \/ PressMissing \/ PressAbort
Receiver    == RxReceive \/ RxReceiveNothing \/ RxTx
Transmitter == TxReceive \/ TxReceiveNothing \/ TxTx

Next == Operator \/ Receiver \/ Transmitter \/ NewImage \/ RxRestart \/ TxRestart

Spec == Init /\ [][Next]_vars

(***************************************************************************)
(* Both loops run for ever, and a packet that waits is read some time.     *)
(***************************************************************************)
Fairness ==
  /\ WF_vars(Receiver) /\ SF_vars(RxReceive)
  /\ WF_vars(Transmitter) /\ SF_vars(TxReceive)

FairSpec == Spec /\ Fairness

-----------------------------------------------------------------------------
(* Properties.                                                             *)

\* "Every Packet have been received correctly" (updateTx, on ALL_RECEIVED):
\* a file that is exported then is one image, from its first packet to its
\* last.
ExportedIsImage ==
  \A f \in exported : \E v \in Image : f = [i \in 1..Size[v] |-> v]

\* The packets that have arrived.
Have == {n \in Number : rFile[n] # NoImage}

Delivery == INSTANCE FileDelivery WITH source <- tImage, have <- Have

\* With one image, no early request and no restart the transmission delivers:
\* what has arrived is never lost nor overwritten with anything else, by an
\* abort, a new request, a second INIT or a packet that comes twice; and only
\* when all of it is there is it exported.
ImplementsDelivery == Delivery!Spec

\* The transmitter never indexes outside the file it has imported, neither
\* streaming nor answering a request for missing packets.
SendsWhatItHas ==
  /\ tPc # "crashed"
  /\ tPc = "tx" => \A n \in 0..MaxSize : IsNext(n) => InFile(n)

\* The first stream stays in the file whatever happens to the image on disk
\* and to the receiver, and ends: packetNbr has not passed lastPacketNbr,
\* against which it is tested for equality.
StreamInFile == tState = "SENDING" => InFile(tNbr) /\ tNbr <= tLast /\ InFile(tLast)

\* The list being sent again ends with lastPacketNbr, so missingNbrIterator
\* never leaves it; the list in a packet too, so parse leaves its loop.
ListEndsWithLast ==
  tState = "SENDING_MISSING" =>
    tLast \in tMissing /\ \A n \in tMissing : n <= tLast

\* packetNbr is back at 0 whenever a transmission can start, although only
\* some of the ways to end one reset it: the next one starts at packet 0.
StartsAtZero == tState \in {"SLEEP", "ABORT", "INIT"} => tNbr = 0

\* The operator leaves the abort button alone, presses the other two again and
\* again, and the modem stays on; and what is sent for ever arrives some time.
Persistent ==
  /\ <>[][~PressAbort /\ ~RxRestart /\ ~NewImage]_vars
  /\ WF_vars(PressRequest) /\ WF_vars(PressMissing)
RadioDelivers ==
  /\ SF_vars(RxTx /\ Len(toTx') > Len(toTx))
  /\ SF_vars(TxTx /\ Len(toRx') > Len(toRx))

\* Once an INIT has got through, the image is exported in the end, whatever
\* packets, requests and acknowledgements the radio loses.
ImageArrives == Persistent /\ RadioDelivers => (rTot # 0 ~> exported # {})

\* The two sides stop sending when the operator stops pressing buttons: the
\* exchange of missing packets cannot go on for ever by itself.
TransmissionEnds ==
  <>[][~Operator]_vars => <>[](tState \notin {"INIT", "SENDING", "SENDING_MISSING"})
=============================================================================
