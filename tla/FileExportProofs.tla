-------------------------- MODULE FileExportProofs --------------------------
(***************************************************************************)
(* What the receiver exports is the image, and the transmitter stays inside*)
(* its file, whatever is lost, delayed or aborted, for every size of the   *)
(* image, of a request and of the link.  The first is for a clean run, one *)
(* in which the circumstances of the known counterexamples do not occur: a *)
(* second image, an image that goes, a request for missing packets before   *)
(* any INIT, a restart.                                                    *)
(***************************************************************************)
EXTENDS FileTransferProofs

CleanRun ==
  /\ \A v, w \in Image : v = w
  /\ ~Removable /\ ~EarlyMissing
  /\ Restarts = {}

\* What the transmitter sends was cut from its file, with the right form.
FromFile(m) ==
  \/ m.type = "ABORT"
  \/ m.type = "INIT" /\ tImage # NoImage /\ m.tot = Size[tImage]
  \/ /\ m.type = "SENDING" /\ InFile(m.nbr) /\ m.img = tImage
     /\ m.last = (m.nbr = Size[tImage] - 1)

Sent  == {m \in ToRx : FromFile(m)}
Asked == {m \in ToTx : m.type = "MISSING" => \A n \in m.list : InFile(n)}

LinkClean == toRx \in Seq(Sent) /\ toTx \in Seq(Asked)

TxClean ==
  /\ tPc # "crashed"
  /\ tImage # NoImage => disk # NoImage /\ tTot = Size[tImage]
  /\ tState = "SENDING_MISSING" => \A n \in tMissing : InFile(n)

RxClean ==
  /\ rTot # 0 => tImage # NoImage /\ rTot = Size[tImage]
  /\ \A n \in Number : rFile[n] \in {NoImage, tImage}
  /\ rState = "SEND_MISSING" => rTot # 0

OpClean == missing => rTot # 0

CleanInv == LinkClean /\ TxClean /\ RxClean /\ OpClean /\ ExportedIsImage

-----------------------------------------------------------------------------
(* The image in the transmitter's file, once there, stays.                 *)

LEMMA SeqGrows == ASSUME NEW S, NEW T, S \subseteq T PROVE Seq(S) \subseteq Seq(T)
OBVIOUS

LEMMA LinkSetsGrow ==
  ASSUME tImage' = tImage \/ tImage = NoImage
  PROVE  Sent \subseteq Sent' /\ Asked \subseteq Asked'
<1>1. CASE tImage' = tImage
  BY <1>1 DEF Sent, Asked, FromFile, InFile
<1>2. CASE tImage = NoImage
  <2>1. \A m \in Sent : m.type = "ABORT"
    BY <1>2 DEF Sent, FromFile, InFile
  <2>2. \A m \in Asked : m.type = "MISSING" => m.list = {}
    BY <1>2 DEF Asked, InFile, ToTx, Missing
  <2>3. Sent \subseteq Sent'
    BY <2>1 DEF Sent, FromFile
  <2>4. Asked \subseteq Asked'
    BY <2>2 DEF Asked
  <2> QED
    BY <2>3, <2>4
<1> QED
  BY <1>1, <1>2

LEMMA LinkGrows ==
  ASSUME tImage' = tImage \/ tImage = NoImage,
         toRx' \in Seq(Sent), toTx' \in Seq(Asked)
  PROVE  LinkClean'
BY LinkSetsGrow, SeqGrows DEF LinkClean

LEMMA HearKeepsImage ==
  ASSUME CleanRun, TxTypes, TxClean, NEW m \in ToTx, TxHear(m)
  PROVE  (tImage' = tImage \/ tImage = NoImage) /\ tImage' \in Image \cup {NoImage}
BY DEF CleanRun, TxTypes, TxClean, TxHear, TxHearRequest, Import, TxHearMissing, TxHearEnd

\* The receiver's side depends on the image only when it knows its size.
LEMMA RxCleanStays ==
  ASSUME RxClean, UNCHANGED <<rState, rTot, rFile>>,
         rTot \in Nat, tImage' = tImage \/ tImage = NoImage
  PROVE  RxClean'
BY DEF RxClean, Number

LEMMA ExportStays == ExportedIsImage /\ UNCHANGED exported => ExportedIsImage'
BY DEF ExportedIsImage

-----------------------------------------------------------------------------
(* The transmitter.                                                        *)

LEMMA HearKeepsTxClean ==
  ASSUME CleanRun, TxTypes, TxClean, NEW m \in Asked, TxHear(m), tPc' = "tx", UNCHANGED disk
  PROVE  TxClean'
<1> USE DEF TxClean, TxTypes, InFile
<1>0. m \in ToTx
  BY DEF Asked
<1>1. CASE m.type = "REQUEST" /\ TxHearRequest
  BY <1>1, FileAssumption DEF TxHearRequest, Import, CleanRun
<1>2. CASE m.type = "MISSING" /\ TxHearMissing(m)
  BY <1>2 DEF TxHearMissing, Asked
<1>3. CASE TxHearEnd
  BY <1>3 DEF TxHearEnd
<1> QED
  BY <1>1, <1>2, <1>3 DEF TxHear

\* What it has to send next is in its file.
LEMMA NextInFile ==
  ASSUME FileIInv, tState = "SENDING_MISSING" => \A k \in tMissing : InFile(k),
         NEW n, IsNext(n)
  PROVE  InFile(n)
<1>0. TxTypes /\ TxCounters
  BY TypeParts DEF FileIInv
<1>1. CASE tState = "SENDING" /\ n = tNbr
  BY <1>0, <1>1, Sizes DEF TxTypes, TxCounters, InFile
<1>2. CASE tState = "SENDING_MISSING" /\ n \in tMissing
  BY <1>2
<1> QED
  BY <1>1, <1>2 DEF IsNext

LEMMA TxTxClean ==
  ASSUME FileIInv, LinkClean, TxClean, TxTx
  PROVE  TxClean' /\ LinkClean'
<1>0. /\ TxTypes /\ TxCounters /\ LinkTypes
      /\ UNCHANGED <<tImage, tTot, tLast, disk, toTx>>
      /\ toRx \in Seq(Sent) /\ toTx' \in Seq(Asked)
  BY TypeParts DEF FileIInv, TxTx, LinkClean
<1>1. ASSUME toRx' \in Seq(Sent) PROVE LinkClean'
  BY <1>0, <1>1, LinkGrows
<1>2. CASE TxSendInit
  <2>1. tTot \in 1..MaxSize /\ tImage # NoImage /\ tTot = Size[tImage]
    BY <1>0, <1>2, Sizes DEF TxSendInit, TxCounters, TxTypes
  <2>2. [type |-> "INIT", tot |-> tTot] \in Sent
    BY <2>1 DEF Sent, ToRx, FromFile
  <2>3. toRx' \in Seq(Sent)
    BY <1>0, <1>2, <2>2, DeliverKeepsType DEF TxSendInit
  <2>4. TxClean'
    BY <1>0, <1>2 DEF TxSendInit, TxClean, InFile
  <2> QED
    BY <1>1, <2>3, <2>4
<1>3. CASE TxSendPacket
  <2>1. PICK n \in Number : /\ InFile(n) /\ toRx' \in Deliver(toRx, Chunk(n, tImage))
                            /\ TxAdvance(n)
    BY <1>3 DEF TxSendPacket
  <2>2. tImage \in Image /\ tTot = Size[tImage]
    BY <1>0, <2>1 DEF InFile, TxTypes, TxClean
  <2>3. Chunk(n, tImage) \in ToRx
    BY <2>2 DEF Chunk, ToRx
  <2>4. FromFile(Chunk(n, tImage))
    BY <2>1, <2>2 DEF Chunk, FromFile
  <2>5. toRx' \in Seq(Sent)
    BY <1>0, <2>1, <2>3, <2>4, DeliverKeepsType DEF Sent
  <2>6. TxClean'
    BY <1>0, <2>1 DEF TxAdvance, TxClean, InFile
  <2> QED
    BY <1>1, <2>5, <2>6
<1>4. ~TxOutside
  BY NextInFile DEF TxOutside, TxClean
<1>5. CASE TxSendAbort
  <2>1. [type |-> "ABORT"] \in Sent
    BY DEF Sent, ToRx, FromFile
  <2>2. toRx' \in Seq(Sent)
    BY <1>0, <1>5, <2>1, DeliverKeepsType DEF TxSendAbort
  <2>3. TxClean'
    BY <1>0, <1>5 DEF TxSendAbort, TxClean, InFile
  <2> QED
    BY <1>1, <2>2, <2>3
<1>6. CASE TxSendNothing
  BY <1>0, <1>1, <1>6 DEF TxSendNothing, TxClean, InFile
<1> QED
  BY <1>2, <1>3, <1>4, <1>5, <1>6 DEF TxTx

-----------------------------------------------------------------------------
(* The receiver.                                                           *)

LEMMA ReceiveKeepsRxClean ==
  ASSUME RxTypes, TxTypes, RxClean, NEW m \in Sent, UNCHANGED tImage,
         (m.type = "INIT" /\ RxInit(m)) \/ (m.type = "SENDING" /\ RxPacket(m)) \/ RxAborted
  PROVE  RxClean' /\ (rTot # 0 => rTot' # 0)
<1> USE Sizes DEF Number
<1>0. m \in ToRx /\ FromFile(m)
  BY DEF Sent
<1>1. CASE m.type = "INIT" /\ RxInit(m)
  <2>1. tImage # NoImage /\ rTot' = Size[tImage] /\ rTot' # 0 /\ rTot' \in Nat
    BY <1>0, <1>1 DEF FromFile, RxInit, TxTypes
  <2>2. \A n \in Number : rFile'[n] \in {NoImage, tImage}
    BY <1>1 DEF RxInit, Resize, RxClean
  <2>3. rTot # 0 => rTot' = rTot
    BY <2>1 DEF RxClean
  <2>4. rState' \in {"ABORT", rState}
    BY <1>1, Zenon DEF RxInit
  <2> QED
    BY <2>1, <2>2, <2>3, <2>4 DEF RxClean
<1>2. CASE m.type = "SENDING" /\ RxPacket(m)
  <2>1. InFile(m.nbr) /\ m.img = tImage /\ m.last = (m.nbr = Size[tImage] - 1)
    BY <1>0, <1>2 DEF FromFile
  <2>2. m.nbr < rTot => Contents(m) = tImage
    <3> SUFFICES ASSUME m.nbr < rTot PROVE Contents(m) = tImage
        OBVIOUS
    <3>1. m.nbr \in Number /\ rTot \in Nat
      BY <1>0, <1>2, ToRxFields DEF RxTypes
    <3>2. rTot = Size[tImage]
      BY <3>1 DEF RxClean
    <3> QED
      BY <2>1, <3>2, Zenon DEF Contents
  <2>3. \A n \in Number : rFile'[n] \in {NoImage, tImage}
    BY <1>2, <2>2 DEF RxPacket, RxClean, RxTypes
  <2>4. rTot' = rTot /\ (rState' = "SEND_MISSING" => rState = "SEND_MISSING" \/ m.nbr < rTot)
    BY <1>2, Zenon DEF RxPacket
  <2>5. m.nbr < rTot => rTot # 0
    BY <1>0, <1>2, ToRxFields DEF RxTypes
  <2> QED
    BY <2>3, <2>4, <2>5 DEF RxClean
<1>3. CASE RxAborted
  BY <1>3 DEF RxAborted, RxClean
<1> QED
  BY <1>1, <1>2, <1>3

\* In SEND_MISSING, however it came there, the receiver knows the size.
LEMMA CurrentKnowsSize ==
  ASSUME RxClean, OpClean, RxCurrent = "SEND_MISSING" PROVE rTot # 0
<1>1. rState = "SEND_MISSING" \/ missing
  BY Zenon DEF RxCurrent
<1> QED
  BY <1>1, Zenon DEF RxClean, OpClean

\* It asks for packets of the file only.
LEMMA RequestIsAsked ==
  ASSUME RxTypes, rTot # 0 => tImage # NoImage /\ rTot = Size[tImage],
         NEW last \in Absent
  PROVE  [type |-> "MISSING", list |-> UpTo(last), last |-> last] \in Asked
<1>1. [type |-> "MISSING", list |-> UpTo(last), last |-> last] \in ToTx
  BY MissingType DEF ToTx
<1>2. \A n \in UpTo(last) : InFile(n)
  BY Sizes DEF UpTo, Absent, RxTypes, Number, InFile
<1> QED
  BY <1>1, <1>2 DEF Asked

\* What it exports is the image.
LEMMA ExportIsImage ==
  ASSUME RxTypes, TxTypes, RxClean, rTot # 0, Absent = {}
  PROVE  \E v \in Image :
           [i \in 1..rTot |-> rFile[i - 1]] = [i \in 1..Size[v] |-> v]
<1>1. tImage \in Image /\ rTot = Size[tImage] /\ rTot \in 1..MaxSize
  BY Sizes DEF RxClean, TxTypes, RxTypes
<1>2. \A i \in 1..rTot : rFile[i - 1] = tImage
  BY <1>1, Sizes DEF RxClean, Absent, Number
<1> QED
  BY <1>1, <1>2

LEMMA RxTxClean ==
  ASSUME FileIInv, CleanInv, RxTx
  PROVE  RxClean' /\ LinkClean' /\ ExportedIsImage' /\ OpClean'
<1>0. /\ RxTypes /\ TxTypes /\ LinkTypes
      /\ UNCHANGED <<toRx, rTot, rFile, tImage>>
      /\ toRx \in Seq(Sent) /\ toTx \in Seq(Asked)
  BY TypeParts DEF FileIInv, CleanInv, LinkClean, RxTx, tVars
<1>1. OpClean'
  BY <1>0, Zenon DEF CleanInv, OpClean, RxTx
<1>2. ASSUME toTx' \in Seq(Asked) PROVE LinkClean'
  BY <1>0, <1>2, LinkGrows
<1>3. ASSUME rState' # "SEND_MISSING" \/ rState' = rState PROVE RxClean'
  BY <1>0, <1>3 DEF CleanInv, RxClean
<1>4. CASE RxSendAbort \/ RxSendRequest
  <2>1. [type |-> "ABORT"] \in Asked /\ [type |-> "REQUEST"] \in Asked
    BY DEF Asked, ToTx
  <2>2. toTx' \in Seq(Asked)
    BY <1>0, <1>4, <2>1, DeliverKeepsType DEF RxSendAbort, RxSendRequest
  <2>3. rState' # "SEND_MISSING" /\ exported' = exported
    BY <1>4 DEF RxSendAbort, RxSendRequest
  <2> QED
    BY <1>1, <1>2, <1>3, <2>2, <2>3, ExportStays DEF CleanInv
<1>5. CASE RxSendMissing
  <2>1. PICK last \in Absent :
          toTx' \in Deliver(toTx, [type |-> "MISSING", list |-> UpTo(last), last |-> last])
    BY <1>5 DEF RxSendMissing
  <2>2. toTx' \in Seq(Asked)
    BY <1>0, <2>1, RequestIsAsked, DeliverKeepsType DEF CleanInv, RxClean
  <2>3. rState' # "SEND_MISSING" /\ exported' = exported
    BY <1>5 DEF RxSendMissing
  <2> QED
    BY <1>1, <1>2, <1>3, <2>2, <2>3, ExportStays DEF CleanInv
<1>6. CASE RxSendAllReceived
  <2>1. [type |-> "ALL_RECEIVED"] \in Asked
    BY DEF Asked, ToTx
  <2>2. toTx' \in Seq(Asked)
    BY <1>0, <1>6, <2>1, DeliverKeepsType DEF RxSendAllReceived
  <2>3. rState' # "SEND_MISSING" /\ rTot # 0 /\ Absent = {}
    BY <1>6, CurrentKnowsSize DEF RxSendAllReceived, CleanInv
  <2>4. ExportedIsImage'
    BY <1>0, <1>6, <2>3, ExportIsImage DEF RxSendAllReceived, CleanInv, ExportedIsImage
  <2> QED
    BY <1>1, <1>2, <1>3, <2>2, <2>3, <2>4
<1>7. CASE RxSendNothing
  <2>1. toTx' = toTx /\ rState' = rState /\ exported' = exported
    BY <1>7 DEF RxSendNothing
  <2> QED
    BY <1>0, <1>1, <1>2, <1>3, <2>1, ExportStays DEF CleanInv
<1> QED
  BY <1>4, <1>5, <1>6, <1>7 DEF RxTx

-----------------------------------------------------------------------------
(* Every step of a clean run.                                              *)

\* Steps that read no packet and send none, and neither move the receiver's
\* knowledge of the file nor the transmitter's.
Idle ==
  /\ UNCHANGED <<rState, rTot, rFile, exported, tState, tImage, tTot, tMissing, toRx, toTx>>
  /\ tPc' = tPc \/ tPc' = "tx"
  /\ disk' = disk \/ disk' \in Image
  /\ missing' => missing \/ rTot # 0

LEMMA OtherIsIdle ==
  ASSUME CleanRun,
         Operator \/ RxReceiveNothing \/ NewImage \/ TxReceiveNothing \/ UNCHANGED vars
  PROVE  Idle
<1>1. CASE Operator
  <2>1. UNCHANGED <<rVars, tVars, disk, toRx, toTx>>
    BY <1>1, Zenon DEF Operator, PressRequest, PressMissing, PressAbort
  <2>2. missing' => missing \/ rTot # 0
    BY <1>1, Zenon DEF CleanRun, Operator, PressRequest, PressMissing, PressAbort
  <2>3. UNCHANGED <<rState, rTot, rFile, exported, tPc, tState, tImage, tTot, tMissing>>
    BY <2>1 DEF rVars, tVars
  <2> QED
    BY <2>1, <2>2, <2>3, Zenon DEF Idle
<1>2. CASE RxReceiveNothing
  BY <1>2, Zenon DEF Idle, RxReceiveNothing, tVars, opVars
<1>3. CASE NewImage
  <2>1. disk' \in Image
    BY <1>3 DEF NewImage, CleanRun
  <2> QED
    BY <1>3, <2>1, Zenon DEF Idle, NewImage, rVars, tVars, opVars
<1>4. CASE TxReceiveNothing
  BY <1>4, Zenon DEF Idle, TxReceiveNothing, rVars, opVars
<1>5. CASE UNCHANGED vars
  BY <1>5, Zenon DEF Idle, vars, rVars, tVars, opVars
<1> QED
  BY <1>1, <1>2, <1>3, <1>4, <1>5

LEMMA IdleKeepsCleanInv == FileIInv /\ CleanInv /\ Idle => CleanInv'
<1> SUFFICES ASSUME FileIInv, CleanInv, Idle PROVE CleanInv'
    OBVIOUS
<1>0. RxTypes /\ TxTypes
  BY TypeParts DEF FileIInv
<1>1. LinkClean'
  BY LinkGrows DEF CleanInv, LinkClean, Idle
<1>2. TxClean'
  BY FileAssumption DEF CleanInv, TxClean, Idle, InFile
<1>3. RxClean'
  BY <1>0, RxCleanStays DEF CleanInv, Idle, RxTypes
<1>4. OpClean'
  <2>1. rTot' = rTot /\ (missing' => missing \/ rTot # 0)
    BY DEF Idle
  <2> QED
    BY <2>1, Zenon DEF CleanInv, OpClean
<1>5. ExportedIsImage'
  BY ExportStays DEF CleanInv, Idle
<1> QED
  BY <1>1, <1>2, <1>3, <1>4, <1>5 DEF CleanInv

LEMMA NextCleanInv == CleanRun /\ FileIInv /\ CleanInv /\ [Next]_vars => CleanInv'
<1> SUFFICES ASSUME CleanRun, FileIInv, CleanInv, [Next]_vars PROVE CleanInv'
    OBVIOUS
<1>0. /\ RxTypes /\ TxTypes /\ LinkTypes
      /\ LinkClean /\ TxClean /\ RxClean /\ OpClean /\ ExportedIsImage
  BY TypeParts DEF FileIInv, CleanInv
<1>1. CASE RxReceive
  <2>1. Head(toRx) \in Sent /\ toRx' \in Seq(Sent) /\ UNCHANGED <<tVars, disk, exported, toTx, missing>>
    BY <1>0, <1>1, ReadKeepsType DEF RxReceive, LinkClean
  <2>2. RxClean' /\ (rTot # 0 => rTot' # 0)
    BY <1>0, <1>1, <2>1, ReceiveKeepsRxClean DEF RxReceive, tVars
  <2>3. LinkClean'
    BY <1>0, <2>1, LinkGrows DEF tVars, LinkClean
  <2>4. TxClean'
    BY <1>0, <2>1 DEF TxClean, tVars, InFile
  <2>5. OpClean'
    BY <1>0, <2>1, <2>2, Zenon DEF OpClean
  <2> QED
    BY <1>0, <2>1, <2>2, <2>3, <2>4, <2>5, ExportStays DEF CleanInv
<1>2. CASE RxTx
  <2>1. TxClean'
    BY <1>0, <1>2 DEF RxTx, TxClean, tVars, InFile
  <2> QED
    BY <1>2, <2>1, RxTxClean DEF CleanInv
<1>3. CASE TxReceive \/ TxTx
  <2>0. UNCHANGED <<rVars, opVars>> /\ UNCHANGED disk
    BY <1>3 DEF TxReceive, TxTx
  <2>1. TxClean' /\ LinkClean' /\ (tImage' = tImage \/ tImage = NoImage)
    <3>1. CASE TxReceive
      <4>1. Head(toTx) \in Asked /\ toTx' \in Seq(Asked) /\ toRx' \in Seq(Sent)
        BY <1>0, <3>1, ReadKeepsType DEF TxReceive, LinkClean
      <4>2. tImage' = tImage \/ tImage = NoImage
        BY <1>0, <3>1, <4>1, HearKeepsImage DEF TxReceive, Asked
      <4>3. TxClean'
        BY <1>0, <2>0, <3>1, <4>1, HearKeepsTxClean DEF TxReceive
      <4> QED
        BY <4>1, <4>2, <4>3, LinkGrows
    <3>2. CASE TxTx
      BY <1>0, <3>2, TxTxClean DEF TxTx
    <3> QED
      BY <1>3, <3>1, <3>2
  <2>2. RxClean'
    BY <1>0, <2>0, <2>1, RxCleanStays DEF rVars, RxTypes
  <2>3. OpClean' /\ ExportedIsImage'
    BY <1>0, <2>0, ExportStays, Zenon DEF OpClean, rVars, opVars
  <2> QED
    BY <2>1, <2>2, <2>3 DEF CleanInv
<1>4. ~RxRestart /\ ~TxRestart
  BY DEF RxRestart, TxRestart, CleanRun
<1>5. CASE Operator \/ RxReceiveNothing \/ NewImage \/ TxReceiveNothing \/ UNCHANGED vars
  BY <1>5, OtherIsIdle, IdleKeepsCleanInv
<1> QED
  BY <1>1, <1>2, <1>3, <1>4, <1>5 DEF Next, Receiver, Transmitter

LEMMA InitCleanInv == Init => CleanInv
<1> SUFFICES ASSUME Init PROVE CleanInv
    OBVIOUS
<1>1. LinkClean
  BY EmptyIsSeq DEF Init, LinkClean
<1>2. TxClean
  BY DEF Init, TxClean
<1>3. RxClean
  BY DEF Init, RxClean
<1>4. OpClean
  BY Zenon DEF Init, OpClean
<1>5. ExportedIsImage
  BY DEF Init, ExportedIsImage
<1> QED
  BY <1>1, <1>2, <1>3, <1>4, <1>5 DEF CleanInv

\* In a clean run, a file that is exported as completely received is the
\* image, from its first packet to its last.
THEOREM ExportIsTheImage == CleanRun => (Spec => []ExportedIsImage)
<1>1. CleanInv => ExportedIsImage
  BY DEF CleanInv
<1>2. CleanRun /\ FileIInv /\ CleanInv /\ [Next]_vars => (FileIInv /\ CleanInv)'
  BY NextFileIInv, NextCleanInv
<1>3. ASSUME CleanRun PROVE Spec => []ExportedIsImage
  <2>1. FileIInv /\ CleanInv /\ [Next]_vars => (FileIInv /\ CleanInv)'
    BY <1>2, <1>3
  <2> QED
    BY InitFileIInv, InitCleanInv, <1>1, <2>1, PTL DEF Spec
<1> QED
  BY <1>3

-----------------------------------------------------------------------------
(* The transmission implements FileDelivery.                               *)

\* A packet is stored only when the size is known, and below it.
HeldBelowSize == \A n \in Number : rFile[n] # NoImage => n < rTot

LEMMA InitHeld == Init => HeldBelowSize
BY DEF Init, HeldBelowSize

\* What reading a packet does to what has arrived.
LEMMA ReceiveDelivers ==
  ASSUME RxTypes, TxTypes, RxClean, HeldBelowSize, NEW m \in Sent,
         (m.type = "INIT" /\ RxInit(m)) \/ (m.type = "SENDING" /\ RxPacket(m)) \/ RxAborted
  PROVE  /\ HeldBelowSize'
         /\ \/ Have' = Have
            \/ /\ tImage # NoImage
               /\ \E n \in 0..(Size[tImage] - 1) : Have' = Have \cup {n}
<1> USE Sizes DEF Number
<1>0. m \in ToRx /\ FromFile(m) /\ rTot \in Nat
  BY DEF Sent, RxTypes
<1>1. CASE m.type = "INIT" /\ RxInit(m)
  <2>1. rTot' = Size[tImage] /\ rTot' \in Nat /\ (rTot # 0 => rTot' = rTot)
    BY <1>0, <1>1 DEF FromFile, RxInit, TxTypes, RxClean
  <2>2. \A n \in Number : rFile'[n] = IF n < rTot' THEN rFile[n] ELSE NoImage
    BY <1>1 DEF RxInit, Resize
  <2>3. \A n \in Number : rFile[n] # NoImage => rTot # 0
    BY <1>0 DEF HeldBelowSize
  <2>4. \A n \in Number : rFile'[n] = rFile[n]
    BY <2>1, <2>2, <2>3 DEF HeldBelowSize
  <2> QED
    BY <2>2, <2>4 DEF HeldBelowSize, Have
<1>2. CASE m.type = "SENDING" /\ RxPacket(m) /\ m.nbr < rTot
  <2>1. m.nbr \in Number /\ rTot # 0
    BY <1>0, <1>2, ToRxFields
  <2>2. tImage \in Image /\ rTot = Size[tImage] /\ m.img = tImage
    BY <1>0, <1>2, <2>1 DEF FromFile, RxClean, TxTypes
  <2>3. Contents(m) = tImage
    <3>1. m.last = (m.nbr = rTot - 1)
      BY <1>0, <1>2, <2>2 DEF FromFile
    <3> QED
      BY <2>2, <3>1, Zenon DEF Contents
  <2>4. rTot' = rTot /\ rFile' = [rFile EXCEPT ![m.nbr] = tImage]
    BY <1>2, <2>3 DEF RxPacket
  <2>5. tImage # NoImage /\ Have' = Have \cup {m.nbr}
    BY <2>1, <2>2, <2>4, FileAssumption DEF Have, RxTypes
  <2>6. HeldBelowSize'
    BY <1>2, <2>4 DEF HeldBelowSize, RxTypes
  <2>7. m.nbr \in 0..(Size[tImage] - 1)
    BY <1>2, <2>1, <2>2
  <2> QED
    BY <2>5, <2>6, <2>7
<1>3. CASE m.type = "SENDING" /\ RxPacket(m) /\ ~(m.nbr < rTot)
  BY <1>3 DEF RxPacket, HeldBelowSize, Have
<1>4. CASE RxAborted
  BY <1>4 DEF RxAborted, HeldBelowSize, Have
<1> QED
  BY <1>1, <1>2, <1>3, <1>4

\* An export is of the whole image.
LEMMA ExportDelivers ==
  ASSUME FileIInv, CleanInv, HeldBelowSize, RxTx
  PROVE  /\ UNCHANGED <<tImage, rTot, rFile>>
         /\ \/ exported' = exported
            \/ /\ tImage # NoImage /\ Have = 0..(Size[tImage] - 1)
               /\ exported' = {[i \in 1..Size[tImage] |-> tImage]}
<1>0. RxTypes /\ TxTypes /\ RxClean /\ OpClean /\ UNCHANGED <<tImage, rTot, rFile>>
  BY TypeParts DEF FileIInv, CleanInv, RxTx, tVars
<1>1. CASE RxSendAllReceived
  <2>1. rTot # 0 /\ Absent = {} /\ exported' = {[i \in 1..rTot |-> rFile[i - 1]]}
    BY <1>0, <1>1, CurrentKnowsSize DEF RxSendAllReceived
  <2>2. tImage \in Image /\ tImage # NoImage /\ rTot = Size[tImage] /\ rTot \in 1..MaxSize
    BY <1>0, <2>1, Sizes, FileAssumption DEF RxClean, RxTypes, TxTypes
  <2>3. \A n \in Number : n < rTot <=> rFile[n] # NoImage
    BY <2>1 DEF Absent, HeldBelowSize
  <2>4. Have = 0..(Size[tImage] - 1)
    BY <2>2, <2>3, Sizes DEF Have, Number
  <2>5. \A i \in 1..rTot : rFile[i - 1] = tImage
    BY <1>0, <2>2, <2>3, Sizes DEF RxClean, Number
  <2> QED
    BY <1>0, <2>1, <2>2, <2>4, <2>5
<1>2. CASE ~RxSendAllReceived
  BY <1>0, <1>2 DEF RxTx, RxSendAbort, RxSendRequest, RxSendMissing, RxSendNothing
<1> QED
  BY <1>1, <1>2

LEMMA NextDelivers ==
  ASSUME CleanRun, FileIInv, CleanInv, HeldBelowSize, [Next]_vars
  PROVE  /\ HeldBelowSize'
         /\ [Delivery!Take \/ Delivery!Arrive \/ Delivery!Export]_(Delivery!deliveryVars)
<1> USE DEF Delivery!Take, Delivery!Arrive, Delivery!Export, Delivery!Packets,
            Delivery!Whole, Delivery!deliveryVars
<1>0. RxTypes /\ TxTypes /\ LinkClean /\ TxClean /\ RxClean
  BY TypeParts DEF FileIInv, CleanInv
<1>1. CASE RxReceive
  <2>1. Head(toRx) \in Sent
    BY <1>0, <1>1, ReadKeepsType DEF RxReceive, LinkClean
  <2>2. UNCHANGED <<tImage, exported>>
    BY <1>1 DEF RxReceive, tVars
  <2>3. /\ HeldBelowSize'
        /\ \/ Have' = Have
           \/ /\ tImage # NoImage
              /\ \E n \in 0..(Size[tImage] - 1) : Have' = Have \cup {n}
    BY <1>0, <1>1, <2>1, ReceiveDelivers DEF RxReceive
  <2> QED
    BY <2>2, <2>3
<1>2. CASE RxTx
  <2>1. HeldBelowSize' /\ Have' = Have
    BY <1>2, ExportDelivers DEF HeldBelowSize, Have
  <2> QED
    BY <1>2, <2>1, ExportDelivers
<1>3. CASE TxReceive
  <2>1. Head(toTx) \in Asked
    BY <1>0, <1>3, ReadKeepsType DEF TxReceive, LinkClean
  <2>2. (tImage' = tImage \/ tImage = NoImage) /\ tImage' \in Image \cup {NoImage}
    BY <1>0, <1>3, <2>1, HearKeepsImage DEF TxReceive, Asked
  <2>3. UNCHANGED <<rTot, rFile, exported>>
    BY <1>3 DEF TxReceive, rVars
  <2>4. HeldBelowSize' /\ Have' = Have
    BY <2>3 DEF HeldBelowSize, Have
  <2> QED
    BY <2>2, <2>3, <2>4
<1>4. ~RxRestart /\ ~TxRestart
  BY DEF RxRestart, TxRestart, CleanRun
<1>5. CASE TxTx \/ Operator \/ RxReceiveNothing \/ NewImage \/ TxReceiveNothing \/ UNCHANGED vars
  <2>1. CASE TxTx
    BY <2>1 DEF TxTx, rVars, HeldBelowSize, Have
  <2>2. CASE Operator \/ RxReceiveNothing \/ NewImage \/ TxReceiveNothing \/ UNCHANGED vars
    BY <2>2, OtherIsIdle DEF Idle, HeldBelowSize, Have
  <2> QED
    BY <1>5, <2>1, <2>2
<1> QED
  BY <1>1, <1>2, <1>3, <1>4, <1>5 DEF Next, Receiver, Transmitter

\* In a clean run the image transmission delivers: what has arrived stays, and
\* nothing but the whole image is exported, for every size and whatever is
\* lost, repeated or aborted.
THEOREM TransmissionDelivers == ASSUME CleanRun PROVE Spec => ImplementsDelivery
<1>1. Init => FileIInv /\ CleanInv /\ HeldBelowSize /\ Delivery!Init
  <2>1. Init => Delivery!Init
    BY DEF Init, Delivery!Init, Have
  <2> QED
    BY <2>1, InitFileIInv, InitCleanInv, InitHeld
<1>2. (FileIInv /\ CleanInv /\ HeldBelowSize) /\ [Next]_vars
         => /\ (FileIInv /\ CleanInv /\ HeldBelowSize)'
            /\ [Delivery!Take \/ Delivery!Arrive \/ Delivery!Export]_(Delivery!deliveryVars)
  BY NextFileIInv, NextCleanInv, NextDelivers
<1> QED
  BY <1>1, <1>2, PTL DEF Spec, ImplementsDelivery, Delivery!Spec

-----------------------------------------------------------------------------
(* The transmitter stays inside its file, in more than the clean runs: the *)
(* receiver may restart and ask too early, and the image may be replaced   *)
(* by another of the same size.  (A transmitter that restarts forgets its  *)
(* file, a failing import empties it, and a smaller image makes requests   *)
(* for the earlier one too large.)                                         *)

SameSizes == \A v, w \in Image : Size[v] = Size[w]
KeepsFile == SameSizes /\ ~Removable /\ "tx" \notin Restarts

\* The size that the transmitter announces is the one of its file.
Announced == {m \in ToRx : m.type = "INIT" => tImage # NoImage /\ m.tot = Size[tImage]}

RangeInv ==
  /\ toRx \in Seq(Announced) /\ toTx \in Seq(Asked)
  /\ tPc # "crashed"
  /\ tImage # NoImage => disk # NoImage
  /\ tState = "SENDING_MISSING" => \A n \in tMissing : InFile(n)
  /\ rTot # 0 => tImage # NoImage /\ rTot = Size[tImage]

LEMMA InitRangeInv == Init => RangeInv
BY EmptyIsSeq DEF Init, RangeInv

\* Another image of the same size changes nothing.
LEMMA RangeGrows ==
  ASSUME SameSizes, TxTypes, tImage' \in Image \/ tImage' = tImage
  PROVE  /\ Announced \subseteq Announced' /\ Asked \subseteq Asked'
         /\ \A n : InFile(n) => InFile(n)'
         /\ (rTot # 0 => tImage # NoImage /\ rTot = Size[tImage])
              => (rTot # 0 => tImage' # NoImage /\ rTot = Size[tImage'])
<1>1. tImage # NoImage => tImage' # NoImage /\ Size[tImage'] = Size[tImage]
  BY FileAssumption DEF SameSizes, TxTypes
<1>2. \A n : InFile(n) => InFile(n)'
  BY <1>1 DEF InFile
<1>3. Announced \subseteq Announced'
  BY <1>1 DEF Announced
<1>4. Asked \subseteq Asked'
  BY <1>2 DEF Asked
<1> QED
  BY <1>1, <1>2, <1>3, <1>4

LEMMA RxRange ==
  ASSUME FileIInv, RangeInv, RxReceive \/ RxReceiveNothing \/ RxTx \/ RxRestart
  PROVE  RangeInv'
<1>0. /\ UNCHANGED <<tPc, tState, tImage, tMissing, disk>> /\ RxTypes
      /\ toRx \in Seq(Announced) /\ toTx \in Seq(Asked)
  BY TypeParts DEF FileIInv, RangeInv, RxReceive, RxReceiveNothing, RxTx, RxRestart, tVars
<1>1. Announced' = Announced /\ Asked' = Asked /\ \A n : InFile(n)' <=> InFile(n)
  BY <1>0 DEF Announced, Asked, InFile
<1>2. ASSUME toRx' \in Seq(Announced), toTx' \in Seq(Asked), rTot' \in {rTot, 0} \/
             (tImage # NoImage /\ rTot' = Size[tImage])
      PROVE  RangeInv'
  BY <1>0, <1>1, <1>2 DEF RangeInv
<1>3. CASE RxReceive
  <2>1. Head(toRx) \in Announced /\ toRx' \in Seq(Announced) /\ toTx' = toTx
    BY <1>0, <1>3, ReadKeepsType DEF RxReceive
  <2>2. rTot' = rTot \/ (tImage # NoImage /\ rTot' = Size[tImage])
    BY <1>3, <2>1 DEF RxReceive, RxInit, RxPacket, RxAborted, Announced
  <2> QED
    BY <1>0, <1>2, <2>1, <2>2
<1>4. CASE RxReceiveNothing
  BY <1>0, <1>2, <1>4 DEF RxReceiveNothing
<1>5. CASE RxTx
  <2>1. toRx' = toRx /\ rTot' = rTot
    BY <1>5 DEF RxTx
  <2>2. toTx' \in Seq(Asked)
    <3>1. /\ [type |-> "ABORT"] \in Asked /\ [type |-> "REQUEST"] \in Asked
          /\ [type |-> "ALL_RECEIVED"] \in Asked
      BY DEF Asked, ToTx
    <3>2. CASE RxSendMissing
      <4>1. PICK last \in Absent :
              toTx' \in Deliver(toTx, [type |-> "MISSING", list |-> UpTo(last), last |-> last])
        BY <3>2 DEF RxSendMissing
      <4> QED
        BY <1>0, <4>1, RequestIsAsked, DeliverKeepsType DEF RangeInv
    <3>3. CASE RxSendAbort \/ RxSendRequest \/ RxSendAllReceived \/ RxSendNothing
      BY <1>0, <3>1, <3>3, DeliverKeepsType
         DEF RxSendAbort, RxSendRequest, RxSendAllReceived, RxSendNothing
    <3> QED
      BY <1>5, <3>2, <3>3 DEF RxTx
  <2> QED
    BY <1>0, <1>2, <2>1, <2>2
<1>6. CASE RxRestart
  BY <1>0, <1>2, <1>6, EmptyIsSeq DEF RxRestart
<1> QED
  BY <1>3, <1>4, <1>5, <1>6

LEMMA TxReceiveRange ==
  ASSUME SameSizes, FileIInv, RangeInv, TxReceive PROVE RangeInv'
<1>0. /\ TxTypes /\ UNCHANGED <<rTot, disk, toRx>> /\ tPc' = "tx"
      /\ toRx \in Seq(Announced) /\ toTx \in Seq(Asked)
  BY TypeParts DEF FileIInv, RangeInv, TxReceive, rVars
<1>1. PICK m \in Asked : TxHear(m)
  BY <1>0, ReadKeepsType DEF TxReceive
<1>2. toTx' \in Seq(Asked)
  BY <1>0, ReadKeepsType DEF TxReceive
<1>3. /\ tImage' \in Image \/ tImage' = tImage
      /\ tImage' # NoImage => disk # NoImage
      /\ \/ tState' # "SENDING_MISSING"
         \/ tState' = tState /\ tMissing' = tMissing /\ tImage' = tImage
         \/ tMissing' = m.list /\ tImage' = tImage /\ m.type = "MISSING"
  <2>1. CASE m.type = "REQUEST" /\ TxHearRequest
    BY <1>0, <2>1, FileAssumption DEF TxHearRequest, Import, TxTypes, RangeInv
  <2>2. CASE m.type = "MISSING" /\ TxHearMissing(m)
    BY <2>2 DEF TxHearMissing, RangeInv
  <2>3. CASE TxHearEnd
    BY <2>3 DEF TxHearEnd, RangeInv
  <2> QED
    BY <1>1, <2>1, <2>2, <2>3 DEF TxHear
<1>4. tState' = "SENDING_MISSING" => \A n \in tMissing' : InFile(n)'
  BY <1>1, <1>3 DEF RangeInv, Asked, InFile
<1>5. /\ toRx' \in Seq(Announced') /\ toTx' \in Seq(Asked')
      /\ rTot' # 0 => tImage' # NoImage /\ rTot' = Size[tImage']
  BY <1>0, <1>2, <1>3, RangeGrows, SeqGrows DEF RangeInv
<1> QED
  BY <1>0, <1>3, <1>4, <1>5 DEF RangeInv

LEMMA TxTxRange ==
  ASSUME FileIInv, RangeInv, TxTx PROVE RangeInv'
<1>0. /\ TxTypes /\ TxCounters /\ UNCHANGED <<tImage, tTot, tLast, rTot, disk, toTx>>
      /\ toRx \in Seq(Announced) /\ toTx \in Seq(Asked)
  BY TypeParts DEF FileIInv, RangeInv, TxTx, rVars
<1>1. Announced' = Announced /\ Asked' = Asked /\ \A n : InFile(n)' <=> InFile(n)
  BY <1>0 DEF Announced, Asked, InFile
<1>2. ASSUME toRx' \in Seq(Announced), tPc' = "rx",
             tState' = "SENDING_MISSING" => tState = tState' /\ tMissing' \subseteq tMissing
      PROVE  RangeInv'
  BY <1>0, <1>1, <1>2 DEF RangeInv
<1>3. CASE TxSendInit
  <2>1. [type |-> "INIT", tot |-> tTot] \in Announced
    BY <1>0, <1>3, Sizes DEF TxSendInit, TxCounters, TxTypes, Announced, ToRx
  <2> QED
    BY <1>0, <1>2, <1>3, <2>1, DeliverKeepsType DEF TxSendInit
<1>4. CASE TxSendPacket
  <2>1. PICK n \in Number : /\ InFile(n) /\ toRx' \in Deliver(toRx, Chunk(n, tImage))
                            /\ TxAdvance(n)
    BY <1>4 DEF TxSendPacket
  <2>2. Chunk(n, tImage) \in Announced
    BY <1>0, <2>1 DEF Chunk, ToRx, Announced, InFile, TxTypes
  <2>3. toRx' \in Seq(Announced)
    BY <1>0, <2>1, <2>2, DeliverKeepsType
  <2>4. /\ tPc' = "rx"
        /\ tState' = "SENDING_MISSING" => tState = tState' /\ tMissing' \subseteq tMissing
    BY <2>1 DEF TxAdvance
  <2> QED
    BY <1>2, <2>3, <2>4
<1>5. ~TxOutside
  BY NextInFile DEF TxOutside, RangeInv
<1>6. CASE TxSendAbort
  <2>1. [type |-> "ABORT"] \in Announced
    BY DEF Announced, ToRx
  <2> QED
    BY <1>0, <1>2, <1>6, <2>1, DeliverKeepsType DEF TxSendAbort
<1>7. CASE TxSendNothing
  BY <1>0, <1>2, <1>7 DEF TxSendNothing
<1> QED
  BY <1>3, <1>4, <1>5, <1>6, <1>7 DEF TxTx

LEMMA NextRangeInv == KeepsFile /\ FileIInv /\ RangeInv /\ [Next]_vars => RangeInv'
<1> SUFFICES ASSUME KeepsFile, FileIInv, RangeInv, [Next]_vars PROVE RangeInv'
    OBVIOUS
<1>1. ~TxRestart
  BY DEF TxRestart, KeepsFile
<1>2. CASE Operator \/ NewImage \/ TxReceiveNothing \/ UNCHANGED vars
  <2>1. /\ UNCHANGED <<tState, tImage, tMissing, rTot, toRx, toTx>>
        /\ tPc' = tPc \/ tPc' = "tx"
        /\ disk' = disk \/ disk' \in Image
    BY <1>2 DEF Operator, PressRequest, PressMissing, PressAbort, NewImage,
                TxReceiveNothing, KeepsFile, rVars, tVars, vars
  <2>2. Announced' = Announced /\ Asked' = Asked /\ \A n : InFile(n)' <=> InFile(n)
    BY <2>1 DEF Announced, Asked, InFile
  <2> QED
    BY <2>1, <2>2, FileAssumption DEF RangeInv
<1> QED
  BY <1>1, <1>2, RxRange, TxReceiveRange, TxTxRange
     DEF KeepsFile, Next, Receiver, Transmitter

\* Unless it restarts, and as long as there are images of one size to import,
\* the transmitter never indexes outside its file, streaming or answering a
\* request for missing packets, whatever the receiver asks, and when.
THEOREM TransmitterStaysInFile == ASSUME KeepsFile PROVE Spec => []SendsWhatItHas
<1>1. FileIInv /\ RangeInv => SendsWhatItHas
  BY NextInFile DEF RangeInv, SendsWhatItHas
<1>2. FileIInv /\ RangeInv /\ [Next]_vars => (FileIInv /\ RangeInv)'
  BY NextFileIInv, NextRangeInv
<1> QED
  BY InitFileIInv, InitRangeInv, <1>1, <1>2, PTL DEF Spec
=============================================================================
