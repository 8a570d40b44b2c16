------------------------- MODULE FileTransferProofs -------------------------
(***************************************************************************)
(* Proofs about the image transmission, for every set of images, every     *)
(* size, every capacity of a request and of the link, with and without     *)
(* restarts: first the types, and then the transmitter's counters.         *)
(***************************************************************************)
EXTENDS FileTransfer, TLAPS

-----------------------------------------------------------------------------
(* The link.                                                               *)

LEMMA DeliverKeepsType ==
  ASSUME NEW S, NEW c \in Seq(S), NEW m \in S, NEW d \in Deliver(c, m)
  PROVE  d \in Seq(S)
BY DEF Deliver

LEMMA ReadKeepsType ==
  ASSUME NEW S, NEW c \in Seq(S), c # <<>>
  PROVE  Head(c) \in S /\ Tail(c) \in Seq(S)
OBVIOUS

LEMMA EmptyIsSeq == ASSUME NEW S PROVE <<>> \in Seq(S)
OBVIOUS

-----------------------------------------------------------------------------
(* Type correctness: the parts of TypeOK that the two sides keep.          *)

RxTypes ==
  /\ rPc \in {"rx", "tx"}
  /\ rState \in {"SLEEP", "ABORT", "WAITING_PACKET", "SEND_MISSING"}
  /\ rTot \in 0..MaxSize /\ rLast \in 0..MaxSize
  /\ rFile \in [Number -> Image \cup {NoImage, Garbage}]
  /\ exported \subseteq Seq(Image \cup {Garbage})

OpTypes == request \in BOOLEAN /\ missing \in BOOLEAN /\ abort \in BOOLEAN

TxTypes ==
  /\ tPc \in {"rx", "tx", "crashed"}
  /\ tState \in {"SLEEP", "ABORT", "INIT", "SENDING", "SENDING_MISSING", "WAITING_MISSING"}
  /\ tImage \in Image \cup {NoImage} /\ disk \in Image \cup {NoImage}
  /\ tTot \in 0..MaxSize /\ tLast \in 0..MaxSize /\ tNbr \in 0..MaxSize
  /\ tMissing \subseteq Number

LinkTypes == toRx \in Seq(ToRx) /\ toTx \in Seq(ToTx)

LEMMA TypeParts == TypeOK <=> RxTypes /\ OpTypes /\ TxTypes /\ LinkTypes
<1>1. {request, missing, abort} \subseteq BOOLEAN <=> OpTypes
  BY Zenon DEF OpTypes
<1> QED
  BY <1>1, Zenon DEF TypeOK, RxTypes, TxTypes, LinkTypes

LEMMA TypePartsNext == TypeOK' <=> RxTypes' /\ OpTypes' /\ TxTypes' /\ LinkTypes'
<1>1. ({request, missing, abort} \subseteq BOOLEAN)' <=> OpTypes'
  BY Zenon DEF OpTypes
<1> QED
  BY <1>1, Zenon DEF TypeOK, RxTypes, TxTypes, LinkTypes

LEMMA InitTypes == Init => TypeOK
<1> SUFFICES ASSUME Init PROVE TypeOK
    OBVIOUS
<1>1. RxTypes
  BY FileAssumption DEF Init, RxTypes
<1>2. OpTypes
  BY Zenon DEF Init, OpTypes
<1>3. TxTypes
  BY FileAssumption DEF Init, TxTypes
<1>4. LinkTypes
  BY EmptyIsSeq DEF Init, LinkTypes
<1> QED
  BY <1>1, <1>2, <1>3, <1>4, TypeParts

\* The sizes are packet counts.
LEMMA Sizes ==
  /\ MaxSize \in Nat \ {0}
  /\ \A v \in Image : Size[v] \in 1..MaxSize /\ Size[v] \in Nat
BY FileAssumption

LEMMA OperatorTypes == TypeOK /\ Operator => TypeOK'
<1> SUFFICES ASSUME TypeOK, Operator PROVE TypeOK'
    OBVIOUS
<1>0. RxTypes /\ OpTypes /\ TxTypes /\ LinkTypes
  BY TypeParts
<1>1. UNCHANGED <<rVars, tVars, disk, toRx, toTx>>
  BY DEF Operator, PressRequest, PressMissing, PressAbort
<1>2. OpTypes'
  BY <1>0, Zenon DEF OpTypes, Operator, PressRequest, PressMissing, PressAbort
<1>3. RxTypes' /\ TxTypes' /\ LinkTypes'
  BY <1>0, <1>1 DEF RxTypes, TxTypes, LinkTypes, rVars, tVars
<1> QED
  BY <1>2, <1>3, TypePartsNext

\* What the receiver reads in a packet.
LEMMA ToRxFields ==
  ASSUME NEW m \in ToRx
  PROVE  /\ m.type = "INIT" => m.tot \in 1..MaxSize
         /\ m.type = "SENDING" => m.nbr \in Number /\ m.img \in Image \cup {Garbage}
BY DEF ToRx

LEMMA RxReceiveTypes ==
  ASSUME RxTypes, NEW m \in ToRx, UNCHANGED exported, rPc' \in {"rx", "tx"},
         (m.type = "INIT" /\ RxInit(m)) \/ (m.type = "SENDING" /\ RxPacket(m)) \/ RxAborted
  PROVE  RxTypes'
<1> USE Sizes DEF RxTypes
<1>1. CASE m.type = "INIT" /\ RxInit(m)
  <2>1. rState' \in {"ABORT", rState}
    BY <1>1, Zenon DEF RxInit
  <2>2. rTot' \in 1..MaxSize /\ rLast' \in 0..MaxSize
    BY <1>1, ToRxFields DEF RxInit, LastOf
  <2>3. rFile' \in [Number -> Image \cup {NoImage, Garbage}]
    BY <1>1 DEF RxInit, Resize
  <2> QED
    BY <2>1, <2>2, <2>3
<1>2. CASE m.type = "SENDING" /\ RxPacket(m)
  <2>1. rState' \in {"ABORT", "SEND_MISSING", rState}
    BY <1>2, Zenon DEF RxPacket
  <2>2. Contents(m) \in Image \cup {Garbage}
    BY <1>2, ToRxFields DEF Contents
  <2>3. rFile' \in [Number -> Image \cup {NoImage, Garbage}]
    BY <1>2, <2>2 DEF RxPacket
  <2> QED
    BY <1>2, <2>1, <2>3 DEF RxPacket
<1>3. CASE RxAborted
  BY <1>3 DEF RxAborted
<1> QED
  BY <1>1, <1>2, <1>3

\* The request for missing packets.
LEMMA MissingType ==
  ASSUME RxTypes, NEW last \in Absent
  PROVE  [type |-> "MISSING", list |-> UpTo(last), last |-> last] \in Missing
BY Sizes DEF RxTypes, Absent, UpTo, Missing, Number

LEMMA ExportedType ==
  ASSUME RxTypes, Absent = {}
  PROVE  [i \in 1..rTot |-> rFile[i - 1]] \in Seq(Image \cup {Garbage})
<1>1. \A i \in 1..rTot : rFile[i - 1] \in Image \cup {Garbage}
  BY Sizes DEF RxTypes, Absent, Number
<1> QED
  BY <1>1, Sizes DEF RxTypes

LEMMA RxTxTypes ==
  ASSUME RxTypes, LinkTypes, RxTx
  PROVE  RxTypes' /\ LinkTypes'
<1>0. /\ toRx' = toRx /\ UNCHANGED <<rTot, rFile>> /\ rPc' \in {"rx", "tx"}
      /\ toTx \in Seq(ToTx)
  BY DEF RxTx, LinkTypes
<1>1. ASSUME RxSendAbort \/ RxSendRequest \/ RxSendNothing
      PROVE  /\ UNCHANGED <<rLast, exported>> /\ rState' \in {rState, "SLEEP", "WAITING_PACKET"}
             /\ toTx' \in Seq(ToTx)
  <2>1. [type |-> "ABORT"] \in ToTx /\ [type |-> "REQUEST"] \in ToTx
    BY DEF ToTx
  <2> QED
    BY <1>0, <1>1, <2>1, DeliverKeepsType DEF RxSendAbort, RxSendRequest, RxSendNothing
<1>2. ASSUME RxSendMissing
      PROVE  /\ UNCHANGED exported /\ rLast' \in 0..MaxSize /\ rState' = "WAITING_PACKET"
             /\ toTx' \in Seq(ToTx)
  <2>1. PICK last \in Absent :
          /\ rLast' = last
          /\ toTx' \in Deliver(toTx, [type |-> "MISSING", list |-> UpTo(last), last |-> last])
    BY <1>2 DEF RxSendMissing
  <2>2. [type |-> "MISSING", list |-> UpTo(last), last |-> last] \in ToTx
    BY MissingType DEF ToTx
  <2>3. toTx' \in Seq(ToTx)
    BY <1>0, <2>1, <2>2, DeliverKeepsType
  <2>4. last \in 0..MaxSize
    BY Sizes DEF Absent, Number
  <2> QED
    BY <1>2, <2>1, <2>3, <2>4 DEF RxSendMissing
<1>3. ASSUME RxSendAllReceived
      PROVE  /\ exported' \subseteq Seq(Image \cup {Garbage}) /\ UNCHANGED rLast
             /\ rState' = "SLEEP" /\ toTx' \in Seq(ToTx)
  <2>1. [type |-> "ALL_RECEIVED"] \in ToTx
    BY DEF ToTx
  <2>2. toTx' \in Seq(ToTx)
    BY <1>0, <1>3, <2>1, DeliverKeepsType DEF RxSendAllReceived
  <2>3. exported' \subseteq Seq(Image \cup {Garbage})
    BY <1>3, ExportedType DEF RxSendAllReceived
  <2> QED
    BY <1>3, <2>2, <2>3 DEF RxSendAllReceived
<1>4. RxTypes'
  BY <1>0, <1>1, <1>2, <1>3 DEF RxTx, RxTypes
<1>5. LinkTypes'
  BY <1>0, <1>1, <1>2, <1>3 DEF RxTx, LinkTypes
<1> QED
  BY <1>4, <1>5

LEMMA ReceiverTypes == TypeOK /\ Receiver => TypeOK'
<1> SUFFICES ASSUME TypeOK, Receiver PROVE TypeOK'
    OBVIOUS
<1>0. RxTypes /\ OpTypes /\ TxTypes /\ LinkTypes
  BY TypeParts
<1>1. UNCHANGED <<tVars, disk>>
  BY DEF Receiver, RxReceive, RxReceiveNothing, RxTx
<1>2. TxTypes'
  BY <1>0, <1>1 DEF TxTypes, tVars
<1>3. OpTypes'
  BY <1>0, Zenon DEF OpTypes, opVars, Receiver, RxReceive, RxReceiveNothing, RxTx,
       RxSendAbort, RxSendRequest, RxSendMissing, RxSendAllReceived, RxSendNothing
<1>4. ASSUME RxReceive PROVE RxTypes' /\ LinkTypes'
  <2>1. Head(toRx) \in ToRx /\ toRx' \in Seq(ToRx) /\ toTx' = toTx
    BY <1>0, <1>4, ReadKeepsType DEF RxReceive, LinkTypes
  <2>2. RxTypes'
    BY <1>0, <1>4, <2>1, RxReceiveTypes DEF RxReceive
  <2> QED
    BY <1>0, <2>1, <2>2 DEF LinkTypes
<1>5. ASSUME RxReceiveNothing PROVE RxTypes' /\ LinkTypes'
  BY <1>0, <1>5 DEF RxReceiveNothing, RxTypes, LinkTypes
<1>6. RxTypes' /\ LinkTypes'
  BY <1>0, <1>4, <1>5, RxTxTypes DEF Receiver
<1> QED
  BY <1>2, <1>3, <1>6, TypePartsNext

\* What the transmitter reads in a request for missing packets.
LEMMA ToTxFields ==
  ASSUME NEW m \in ToTx, m.type = "MISSING"
  PROVE  /\ m.list \subseteq Number /\ m.last \in Number /\ m.last \in m.list
         /\ \A n \in m.list : n <= m.last
BY DEF ToTx, Missing

LEMMA TxHearTypes ==
  ASSUME TxTypes, NEW m \in ToTx, TxHear(m), tPc' \in {"rx", "tx"}, UNCHANGED disk
  PROVE  TxTypes'
<1> USE Sizes DEF TxTypes
<1>1. CASE m.type = "REQUEST" /\ TxHearRequest
  BY <1>1 DEF TxHearRequest, Import
<1>2. CASE m.type = "MISSING" /\ TxHearMissing(m)
  BY <1>2, ToTxFields DEF TxHearMissing, Number
<1>3. CASE TxHearEnd
  BY <1>3 DEF TxHearEnd
<1> QED
  BY <1>1, <1>2, <1>3 DEF TxHear

\* The steps of write that leave the link out of account.
LEMMA TxAdvanceTypes ==
  ASSUME TxTypes, NEW n \in Number, TxAdvance(n), UNCHANGED <<tImage, tTot, tLast, disk>>
  PROVE  TxTypes'
<1>1. n \in 0..(MaxSize - 1) /\ n + 1 \in 0..MaxSize
  BY Sizes DEF Number
<1> QED
  BY <1>1 DEF TxTypes, TxAdvance

-----------------------------------------------------------------------------
(* The transmitter's counters.  Types alone are not inductive: an INIT     *)
(* packet carries a number of packets only because tTot was set before.    *)

TxCounters ==
  /\ StartsAtZero /\ ListEndsWithLast
  /\ tState \in {"INIT", "SENDING"} =>
       tImage # NoImage /\ tTot = Size[tImage] /\ tLast = tTot - 1
  /\ tState = "SENDING" => tNbr <= tLast

FileIInv == TypeOK /\ TxCounters

LEMMA TxTxTypes ==
  ASSUME TxTypes, LinkTypes, TxCounters, TxTx
  PROVE  TxTypes' /\ toRx' \in Seq(ToRx)
<1>0. /\ UNCHANGED <<tImage, tTot, tLast, disk>> /\ toRx \in Seq(ToRx)
      /\ tImage \in Image \cup {NoImage}
  BY DEF TxTx, LinkTypes, TxTypes
<1>1. ASSUME TxSendInit PROVE TxTypes' /\ toRx' \in Seq(ToRx)
  <2>1. tTot \in 1..MaxSize
    BY <1>0, <1>1, Sizes DEF TxSendInit, TxCounters
  <2>2. [type |-> "INIT", tot |-> tTot] \in ToRx
    BY <2>1 DEF ToRx
  <2>3. toRx' \in Seq(ToRx)
    BY <1>0, <1>1, <2>2, DeliverKeepsType DEF TxSendInit
  <2> QED
    BY <1>0, <1>1, <2>3 DEF TxSendInit, TxTypes
<1>2. ASSUME NEW n \in Number, NEW img \in Image \cup {Garbage},
             toRx' \in Deliver(toRx, Chunk(n, img)), TxAdvance(n)
      PROVE  TxTypes' /\ toRx' \in Seq(ToRx)
  <2>1. Chunk(n, img) \in ToRx
    BY DEF Chunk, ToRx
  <2> QED
    BY <1>0, <1>2, <2>1, DeliverKeepsType, TxAdvanceTypes
<1>3. CASE TxSendPacket
  <2>1. PICK n \in Number :
          InFile(n) /\ toRx' \in Deliver(toRx, Chunk(n, tImage)) /\ TxAdvance(n)
    BY <1>3 DEF TxSendPacket
  <2>2. tImage \in Image
    BY <1>0, <2>1 DEF InFile
  <2> QED
    BY <1>2, <2>1, <2>2
<1>4. CASE TxOutside
  <2>1. PICK n \in Number :
          \/ toRx' = toRx /\ tPc' = "crashed" /\ UNCHANGED <<tState, tNbr, tMissing>>
          \/ toRx' \in Deliver(toRx, Chunk(n, Garbage)) /\ TxAdvance(n)
    BY <1>4 DEF TxOutside
  <2>2. CASE toRx' = toRx /\ tPc' = "crashed" /\ UNCHANGED <<tState, tNbr, tMissing>>
    BY <1>0, <2>2 DEF TxTypes
  <2> QED
    BY <1>2, <2>1, <2>2
<1>5. CASE TxSendAbort
  <2>1. [type |-> "ABORT"] \in ToRx
    BY DEF ToRx
  <2>2. toRx' \in Seq(ToRx)
    BY <1>0, <1>5, <2>1, DeliverKeepsType DEF TxSendAbort
  <2> QED
    BY <1>0, <1>5, <2>2 DEF TxSendAbort, TxTypes
<1>6. CASE TxSendNothing
  BY <1>0, <1>6 DEF TxSendNothing, TxTypes
<1> QED
  BY <1>1, <1>3, <1>4, <1>5, <1>6 DEF TxTx

LEMMA TransmitterTypes == FileIInv /\ Transmitter => TypeOK'
<1> SUFFICES ASSUME FileIInv, Transmitter PROVE TypeOK'
    OBVIOUS
<1>0. RxTypes /\ OpTypes /\ TxTypes /\ LinkTypes /\ TxCounters
  BY TypeParts DEF FileIInv
<1>1. UNCHANGED <<rVars, opVars>>
  BY DEF Transmitter, TxReceive, TxReceiveNothing, TxTx
<1>2. RxTypes'
  BY <1>0, <1>1 DEF RxTypes, rVars
<1>3. OpTypes'
  BY <1>0, <1>1, Zenon DEF OpTypes, opVars
<1>4. ASSUME TxReceive PROVE TxTypes' /\ LinkTypes'
  <2>1. Head(toTx) \in ToTx /\ toTx' \in Seq(ToTx) /\ toRx' = toRx
    BY <1>0, <1>4, ReadKeepsType DEF TxReceive, LinkTypes
  <2>2. TxTypes'
    BY <1>0, <1>4, <2>1, TxHearTypes DEF TxReceive
  <2> QED
    BY <1>0, <2>1, <2>2 DEF LinkTypes
<1>5. ASSUME TxReceiveNothing PROVE TxTypes' /\ LinkTypes'
  BY <1>0, <1>5 DEF TxReceiveNothing, TxTypes, LinkTypes
<1>6. ASSUME TxTx PROVE TxTypes' /\ LinkTypes'
  <2>1. toTx' = toTx
    BY <1>6 DEF TxTx
  <2> QED
    BY <1>0, <1>6, <2>1, TxTxTypes DEF LinkTypes
<1> QED
  BY <1>2, <1>3, <1>4, <1>5, <1>6, TypePartsNext DEF Transmitter

LEMMA OtherTypes == TypeOK /\ (NewImage \/ RxRestart \/ TxRestart \/ UNCHANGED vars) => TypeOK'
<1> SUFFICES ASSUME TypeOK, NewImage \/ RxRestart \/ TxRestart \/ UNCHANGED vars
             PROVE  TypeOK'
    OBVIOUS
<1>0. RxTypes /\ OpTypes /\ TxTypes /\ LinkTypes
  BY TypeParts
<1>1. OpTypes'
  <2>1. UNCHANGED opVars
    BY DEF NewImage, RxRestart, TxRestart, vars
  <2> QED
    BY <1>0, <2>1, Zenon DEF OpTypes, opVars
<1>2. RxTypes'
  BY <1>0, Sizes DEF RxTypes, NewImage, RxRestart, TxRestart, vars, rVars
<1>3. TxTypes'
  BY <1>0, Sizes DEF TxTypes, NewImage, RxRestart, TxRestart, vars, tVars
<1>4. LinkTypes'
  BY <1>0, EmptyIsSeq DEF LinkTypes, NewImage, RxRestart, TxRestart, vars
<1> QED
  BY <1>1, <1>2, <1>3, <1>4, TypePartsNext

\* Only the transmitter's own steps move its counters.
LEMMA CountersStay ==
  ASSUME TxCounters, UNCHANGED tVars PROVE TxCounters'
BY DEF TxCounters, StartsAtZero, ListEndsWithLast, tVars

LEMMA HearKeepsCounters ==
  ASSUME TxTypes, TxCounters, NEW m \in ToTx, TxHear(m) PROVE TxCounters'
<1> USE DEF TxCounters, StartsAtZero, ListEndsWithLast
<1>1. CASE m.type = "REQUEST" /\ TxHearRequest
  <2>1. CASE tState = "SLEEP"
    BY <1>1, <2>1, Sizes DEF TxHearRequest, Import, TxTypes
  <2> QED
    BY <1>1, <2>1 DEF TxHearRequest
<1>2. CASE m.type = "MISSING" /\ TxHearMissing(m)
  BY <1>2, ToTxFields DEF TxHearMissing
<1>3. CASE TxHearEnd
  BY <1>3 DEF TxHearEnd
<1> QED
  BY <1>1, <1>2, <1>3 DEF TxHear

\* A stream ends at lastPacketNbr, and so does a list of missing packets.
LEMMA AdvanceKeepsCounters ==
  ASSUME TxTypes, TxCounters, NEW n \in Number, IsNext(n), TxAdvance(n),
         UNCHANGED <<tImage, tTot, tLast>>
  PROVE  TxCounters'
<1> USE Sizes DEF TxCounters, StartsAtZero, ListEndsWithLast, TxTypes, Number
<1>1. CASE tState = "SENDING" /\ n = tNbr
  BY <1>1 DEF TxAdvance
<1>2. CASE tState = "SENDING_MISSING" /\ n \in tMissing /\ \A k \in tMissing : n <= k
  BY <1>2 DEF TxAdvance
<1> QED
  BY <1>1, <1>2 DEF IsNext

LEMMA NextCounters == FileIInv /\ [Next]_vars => TxCounters'
<1> SUFFICES ASSUME FileIInv, [Next]_vars PROVE TxCounters'
    OBVIOUS
<1>0. TxTypes /\ LinkTypes /\ TxCounters
  BY TypeParts DEF FileIInv
<1>1. ASSUME UNCHANGED tVars PROVE TxCounters'
  BY <1>0, <1>1, CountersStay
<1>2. CASE TxReceive
  <2>1. Head(toTx) \in ToTx
    BY <1>0, <1>2, ReadKeepsType DEF TxReceive, LinkTypes
  <2> QED
    BY <1>0, <1>2, <2>1, HearKeepsCounters DEF TxReceive
<1>3. CASE TxTx
  <2>1. UNCHANGED <<tImage, tTot, tLast>>
    BY <1>3 DEF TxTx
  <2>2. CASE TxSendPacket
    BY <1>0, <2>1, <2>2, AdvanceKeepsCounters DEF TxSendPacket
  <2>3. CASE TxOutside
    <3>1. PICK n \in Number :
            IsNext(n) /\ (UNCHANGED <<tState, tNbr, tMissing>> \/ TxAdvance(n))
      BY <2>3 DEF TxOutside
    <3> QED
      BY <1>0, <2>1, <3>1, AdvanceKeepsCounters
         DEF TxCounters, StartsAtZero, ListEndsWithLast
  <2>4. CASE TxSendInit
    BY <1>0, <2>1, <2>4, Sizes
       DEF TxSendInit, TxCounters, StartsAtZero, ListEndsWithLast, TxTypes
  <2>5. CASE TxSendAbort \/ TxSendNothing
    BY <1>0, <2>1, <2>5
       DEF TxSendAbort, TxSendNothing, TxCounters, StartsAtZero, ListEndsWithLast
  <2> QED
    BY <1>3, <2>2, <2>3, <2>4, <2>5 DEF TxTx
<1>4. CASE TxRestart
  BY <1>4 DEF TxRestart, TxCounters, StartsAtZero, ListEndsWithLast
<1>5. CASE TxReceiveNothing
  BY <1>0, <1>5 DEF TxReceiveNothing, TxCounters, StartsAtZero, ListEndsWithLast
<1>6. ASSUME ~TxReceive, ~TxReceiveNothing, ~TxTx, ~TxRestart PROVE UNCHANGED tVars
  BY <1>6 DEF Next, Operator, PressRequest, PressMissing, PressAbort, Receiver,
     RxReceive, RxReceiveNothing, RxTx, Transmitter, NewImage, RxRestart, vars
<1> QED
  BY <1>1, <1>2, <1>3, <1>4, <1>5, <1>6

LEMMA InitFileIInv == Init => FileIInv
BY InitTypes DEF FileIInv, Init, TxCounters, StartsAtZero, ListEndsWithLast

LEMMA NextFileIInv == FileIInv /\ [Next]_vars => FileIInv'
<1>1. FileIInv /\ [Next]_vars => TypeOK'
  BY OperatorTypes, ReceiverTypes, TransmitterTypes, OtherTypes DEF FileIInv, Next
<1> QED
  BY <1>1, NextCounters DEF FileIInv

\* Both sides of the image transmission, the operator's orders and the link
\* keep their types, whatever is lost, aborted or restarted.
THEOREM FileTypeCorrect == Spec => []TypeOK
<1>1. FileIInv => TypeOK
  BY DEF FileIInv
<1> QED
  BY InitFileIInv, NextFileIInv, <1>1, PTL DEF Spec

\* packetNbr never passes the end of the file while the file is streamed.
THEOREM StreamStaysInFile == Spec => []StreamInFile
<1>1. FileIInv => StreamInFile
  <2> SUFFICES ASSUME FileIInv, tState = "SENDING" PROVE StreamInFile
      BY DEF StreamInFile
  <2>1. TxTypes /\ TxCounters
    BY TypeParts DEF FileIInv
  <2> QED
    BY <2>1, Sizes DEF TxTypes, TxCounters, StreamInFile, InFile
<1> QED
  BY InitFileIInv, NextFileIInv, <1>1, PTL DEF Spec

\* A list of missing packets that is sent again ends with lastPacketNbr.
THEOREM MissingListEnds == Spec => []ListEndsWithLast
<1>1. FileIInv => ListEndsWithLast
  BY DEF FileIInv, TxCounters
<1> QED
  BY InitFileIInv, NextFileIInv, <1>1, PTL DEF Spec

\* Every transmission starts at packet 0.
THEOREM TransmissionStartsAtZero == Spec => []StartsAtZero
<1>1. FileIInv => StartsAtZero
  BY DEF FileIInv, TxCounters
<1> QED
  BY InitFileIInv, NextFileIInv, <1>1, PTL DEF Spec

-----------------------------------------------------------------------------
(* A transmission sends each of its packets once, and then ends: the       *)
(* argument behind TransmissionEnds, for every size.                       *)

\* The packets that a transmission has still to send.
Left == {n \in Number : \/ tState = "SENDING" /\ tNbr <= n /\ n <= tLast
                        \/ tState = "SENDING_MISSING" /\ n \in tMissing}

\* A set with a number that is the least and the greatest in it.
LEMMA OnlyOneLeft ==
  ASSUME NEW S, S \subseteq Nat, NEW n \in S, \A k \in S : n <= k, \A k \in S : k <= n
  PROVE  S = {n}
<1>1. ASSUME NEW k \in S PROVE k = n
  <2>1. n \in Nat /\ k \in Nat /\ n <= k /\ k <= n
    BY <1>1
  <2> QED
    BY ONLY <2>1
<1> QED
  BY <1>1

\* The numbers from n to m, and those after n.
LEMMA FirstOfRange ==
  ASSUME NEW S, S \subseteq Nat, NEW n \in S, NEW m \in Nat, n <= m
  PROVE  LET from(i) == {k \in S : i <= k /\ k <= m}
         IN  n \in from(n) /\ (\A k \in from(n) : n <= k) /\ from(n + 1) = from(n) \ {n}
<1>1. ASSUME NEW k \in S PROVE (n + 1 <= k <=> n <= k /\ k # n) /\ n <= n
  <2>1. n \in Nat /\ k \in Nat
    BY <1>1
  <2> QED
    BY ONLY <2>1
<1> QED
  BY <1>1

LEMMA AdvanceSendsFirst ==
  ASSUME TxTypes, TxCounters, NEW n \in Number, IsNext(n), TxAdvance(n), UNCHANGED tLast
  PROVE  /\ n \in Left /\ \A k \in Left : n <= k
         /\ Left' = Left \ {n}
         /\ Left' = {} <=> tState' = "WAITING_MISSING"
<1>0. n \in Nat /\ tNbr \in Nat /\ Number \subseteq Nat /\ tMissing \subseteq Number
  BY Sizes DEF TxTypes, Number
<1>1. CASE tState = "SENDING" /\ n = tNbr
  <2>1. n <= tLast /\ tLast \in Number
    BY <1>1, Sizes DEF TxCounters, TxTypes, Number
  <2>2. tNbr' = n + 1 /\ tState' = IF n = tLast THEN "WAITING_MISSING" ELSE "SENDING"
    BY <1>1 DEF TxAdvance
  <2>3. Left = {k \in Number : n <= k /\ k <= tLast}
    BY <1>1 DEF Left
  <2>4. CASE n = tLast
    <3>1. Left' = {} /\ tState' = "WAITING_MISSING"
      BY <2>2, <2>4 DEF Left
    <3>2. Left = {n}
      <4>1. n \in Left /\ Left \subseteq Nat /\ \A k \in Left : n <= k /\ k <= n
        BY <1>0, <2>1, <2>3, <2>4
      <4> QED
        BY ONLY <4>1, OnlyOneLeft
    <3> QED
      BY <1>0, <3>1, <3>2
  <2>5. CASE n # tLast
    <3>1. tState' = "SENDING"
      BY <2>2, <2>5
    <3>2. Left' = {k \in Number : n + 1 <= k /\ k <= tLast}
      BY <2>2, <3>1 DEF Left
    <3>3. n \in Left /\ (\A k \in Left : n <= k) /\ Left' = Left \ {n}
      BY <1>0, <2>1, <2>3, <3>2, FirstOfRange
    <3>4. tLast \in Left'
      BY <1>0, <2>1, <2>5, <3>2
    <3> QED
      BY <3>1, <3>3, <3>4
  <2> QED
    BY <2>4, <2>5
<1>2. CASE tState = "SENDING_MISSING" /\ n \in tMissing /\ \A k \in tMissing : n <= k
  <2>1. tLast \in tMissing /\ \A k \in tMissing : k <= tLast
    BY <1>2 DEF TxCounters, ListEndsWithLast
  <2>2. /\ tMissing' = tMissing \ {n}
        /\ tState' = IF n = tLast THEN "WAITING_MISSING" ELSE "SENDING_MISSING"
    BY <1>2 DEF TxAdvance
  <2>3. Left = tMissing
    BY <1>0, <1>2 DEF Left
  <2>4. CASE n = tLast
    <3>1. tMissing = {n}
      <4>1. n \in tMissing /\ tMissing \subseteq Nat /\ \A k \in tMissing : n <= k /\ k <= n
        BY <1>0, <1>2, <2>1, <2>4
      <4> QED
        BY ONLY <4>1, OnlyOneLeft
    <3>2. Left' = {} /\ tState' = "WAITING_MISSING"
      BY <2>2, <2>4 DEF Left
    <3> QED
      BY <1>0, <2>3, <3>1, <3>2
  <2>5. CASE n # tLast
    <3>1. tState' = "SENDING_MISSING"
      BY <2>2, <2>5
    <3>2. Left' = tMissing \ {n}
      BY <1>0, <2>2, <3>1 DEF Left
    <3> QED
      BY <1>2, <2>1, <2>3, <2>5, <3>1, <3>2
  <2> QED
    BY <2>4, <2>5
<1> QED
  BY <1>1, <1>2 DEF IsNext

\* Each iteration of the transmitter in a stream, or in an answer to a request
\* for missing packets, sends the first packet that is left and no other; the
\* transmission ends with the last one, and not before.  (Where a read outside
\* the file ends the program, tPc' is "crashed".)
THEOREM EachPacketIsSentOnce ==
  Spec => [][TxTx /\ tState \in {"SENDING", "SENDING_MISSING"} /\ tPc' = "rx"
             => \E n \in Left : /\ \A k \in Left : n <= k
                               /\ Left' = Left \ {n}
                               /\ Left' = {} <=> tState' = "WAITING_MISSING"]_vars
<1> DEFINE SendsFirst ==
      TxTx /\ tState \in {"SENDING", "SENDING_MISSING"} /\ tPc' = "rx"
        => \E n \in Left : /\ \A k \in Left : n <= k
                          /\ Left' = Left \ {n}
                          /\ Left' = {} <=> tState' = "WAITING_MISSING"
<1>1. FileIInv => SendsFirst
  <2> SUFFICES ASSUME FileIInv, TxTx, tState \in {"SENDING", "SENDING_MISSING"}, tPc' = "rx"
               PROVE  \E n \in Left : /\ \A k \in Left : n <= k
                                     /\ Left' = Left \ {n}
                                     /\ Left' = {} <=> tState' = "WAITING_MISSING"
      OBVIOUS
  <2>1. TxTypes /\ TxCounters /\ UNCHANGED tLast
    BY TypeParts DEF FileIInv, TxTx
  <2>2. TxSendPacket \/ TxOutside
    BY DEF TxTx, TxSendInit, TxSendAbort, TxSendNothing
  <2>3. PICK n \in Number : IsNext(n) /\ TxAdvance(n)
    BY <2>2 DEF TxSendPacket, TxOutside
  <2> QED
    BY <2>1, <2>3, AdvanceSendsFirst
<1> HIDE DEF SendsFirst
<1>2. Spec => [][SendsFirst]_vars
  BY InitFileIInv, NextFileIInv, <1>1, PTL DEF Spec
<1> QED
  BY <1>2 DEF SendsFirst
=============================================================================
