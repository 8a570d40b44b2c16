----------------------------- MODULE XstratoProofs -----------------------------
(***************************************************************************)
(* What the Xstrato window keeps for any number of images, of parts and of *)
(* seconds, whatever is lost and whichever files cannot be opened.         *)
(***************************************************************************)
EXTENDS Xstrato, TLAPS

\* A part the balloon has sent.
Sent(c) == c[1] < image \/ (c[1] = image /\ c[2] < part)

\* The ghost of losses and the files agree with what was sent.
OnlySent ==
  /\ \A c \in lost : Sent(c)
  /\ \A n \in Name : \A c \in disk[n] : Sent(c) /\ c \notin lost

\* The file that is open is the one named last, and each earlier image in it
\* has lost its end, which would have closed it.
OpenFile ==
  /\ out \subseteq {filename_time}
  /\ \A n \in out : \A c \in disk[n] : c[1] < image => <<c[1], Parts>> \in lost

\* Once the start of an image has come the open file is its own, and holds
\* what has come of it; if its file could not be opened none is open.
Started == image \in Image /\ part > 1 /\ <<image, 1>> \notin lost

Arrived == {c \in {image} \X (1 .. part - 1) : c \notin lost}

StartedFile ==
  Started =>
    IF image \in unopened THEN out = {}
    ELSE out = {filename_time} /\ disk[filename_time] = Arrived

\* The images that were not opened have begun.
UnopenedBegun == \A i \in unopened : i < image \/ (i = image /\ part > 1)

IInv ==
  /\ TypeOK /\ OnlySent /\ OpenFile /\ StartedFile /\ UnopenedBegun
  /\ MixtureNeedsTwoLosses


-----------------------------------------------------------------------------
(* Type correctness.                                                       *)

LEMMA PartsTwo == Images \in Nat /\ Parts \in Nat /\ Parts >= 2 /\ MaxNow \in Nat /\ MaxNow >= 1
BY XstratoAssumption

LEMMA InitType == Init => TypeOK
<1> SUFFICES ASSUME Init PROVE TypeOK
  OBVIOUS
<1> USE PartsTwo DEF Init
<1>1. image \in 1 .. Images + 1 /\ part \in 1 .. Parts /\ now \in 1 .. MaxNow
  OBVIOUS
<1>2. disk \in [Name -> SUBSET Chunk] /\ filename_time \in Name
  BY DEF Name
<1>3. lost \subseteq Chunk /\ unopened \subseteq Image /\ display \subseteq Chunk
  OBVIOUS
<1>4. out \in {{}} \cup {{n} : n \in Name \ {0}}
  OBVIOUS
<1> QED
  BY <1>1, <1>2, <1>3, <1>4 DEF TypeOK

\* The balloon goes on to a part there is.
LEMMA AdvanceType ==
  ASSUME TypeOK, Advance
  PROVE  /\ image' \in 1 .. Images + 1 /\ part' \in 1 .. Parts
         /\ <<image, part>> \in Chunk
BY PartsTwo DEF TypeOK, Advance, Image, Chunk

LEMMA WriteType ==
  ASSUME TypeOK, NEW c \in Chunk, Write(c)
  PROVE  disk' \in [Name -> SUBSET Chunk]
BY DEF TypeOK, Write

LEMMA NextType == TypeOK /\ [Next]_vars => TypeOK'
<1> SUFFICES ASSUME TypeOK, [Next]_vars PROVE TypeOK'
  OBVIOUS
<1> USE PartsTwo
<1>n. now \in Name \ {0} /\ filename_time \in Name
  BY DEF TypeOK, Name
<1>1. CASE ImageStart
  <2>1. image' \in 1 .. Images + 1 /\ part' \in 1 .. Parts /\ <<image, part>> \in Chunk
    BY <1>1, AdvanceType DEF ImageStart, Arrives
  <2>2. disk' \in [Name -> SUBSET Chunk]
    BY <1>1, <1>n, <2>1 DEF ImageStart, TypeOK
  <2> QED
    BY <1>1, <1>n, <2>1, <2>2 DEF ImageStart, Arrives, Packet, TypeOK, port
<1>2. CASE ImageStartUnopened
  <2>1. image' \in 1 .. Images + 1 /\ part' \in 1 .. Parts /\ image \in Image
    BY <1>2, AdvanceType DEF ImageStartUnopened, Arrives, Advance
  <2> QED
    BY <1>2, <1>n, <2>1 DEF ImageStartUnopened, Arrives, Packet, TypeOK, port
<1>3. CASE ImageMiddle
  <2>1. image' \in 1 .. Images + 1 /\ part' \in 1 .. Parts /\ <<image, part>> \in Chunk
    BY <1>3, AdvanceType DEF ImageMiddle, Arrives
  <2>2. disk' \in [Name -> SUBSET Chunk]
    BY <1>3, <2>1, WriteType DEF ImageMiddle
  <2> QED
    BY <1>3, <2>1, <2>2 DEF ImageMiddle, Arrives, Packet, TypeOK, port
<1>4. CASE ImageEnd
  <2>1. image' \in 1 .. Images + 1 /\ part' \in 1 .. Parts /\ <<image, part>> \in Chunk
    BY <1>4, AdvanceType DEF ImageEnd, Arrives
  <2>2. disk' \in [Name -> SUBSET Chunk]
    BY <1>4, <2>1, WriteType DEF ImageEnd
  <2>3. display' \subseteq Chunk
    BY <1>4, <1>n, <2>2 DEF ImageEnd
  <2> QED
    BY <1>4, <2>1, <2>2, <2>3 DEF ImageEnd, Arrives, Packet, TypeOK, port
<1>5. CASE Lose
  <2>1. image' \in 1 .. Images + 1 /\ part' \in 1 .. Parts /\ <<image, part>> \in Chunk
    BY <1>5, AdvanceType DEF Lose
  <2> QED
    BY <1>5, <2>1 DEF Lose, TypeOK, files, port, signals
<1>6. CASE Ack \/ OtherPacket \/ Quiet
  BY <1>6 DEF Ack, OtherPacket, Quiet, Packet, TypeOK, sender, files, port
<1>7. CASE PingLost \/ SerialError \/ OpenSerial \/ CloseSerial \/ PingCmd
  BY <1>7 DEF PingLost, SerialError, OpenSerial, CloseSerial, PingCmd, TypeOK,
              sender, files, port, signals
<1>8. CASE ClearImage \/ Second
  BY <1>8 DEF ClearImage, Second, TypeOK, sender, files, port, signals
<1>9. CASE UNCHANGED vars
  BY <1>9 DEF vars, TypeOK, sender, files, port, signals
<1> QED
  BY <1>1, <1>2, <1>3, <1>4, <1>5, <1>6, <1>7, <1>8, <1>9
     DEF Next, Receive, Operator

\* Type correctness of the window, for any number of images, parts and
\* seconds; there is one file open at most.
THEOREM XstratoTypeCorrect == Spec => []TypeOK
BY InitType, NextType, PTL DEF Spec
-----------------------------------------------------------------------------
(* The files.                                                              *)

\* The part that is being sent has not been sent.
LEMMA NotSent == TypeOK => ~Sent(<<image, part>>)
BY DEF TypeOK, Sent

\* After it, exactly one part more has been sent.
LEMMA AdvanceSent ==
  ASSUME TypeOK, Advance, NEW c \in Chunk
  PROVE  Sent(c)' <=> Sent(c) \/ c = <<image, part>>
<1>1. PICK i \in Image, p \in 1 .. Parts : c = <<i, p>>
  BY DEF Chunk
<1>2. i \in Nat /\ p \in Nat /\ 1 <= p /\ p <= Parts /\ image \in Nat /\ part \in Nat
  BY PartsTwo DEF Image, TypeOK
<1>3. c = <<image, part>> <=> i = image /\ p = part
  BY <1>1
<1>4. Sent(c) <=> i < image \/ (i = image /\ p < part)
  BY <1>1 DEF Sent
<1>5. Sent(c)' <=> i < image' \/ (i = image' /\ p < part')
  BY <1>1 DEF Sent
<1>6. CASE part = Parts
  BY <1>2, <1>3, <1>4, <1>5, <1>6, PartsTwo DEF Advance
<1>7. CASE part # Parts
  BY <1>2, <1>3, <1>4, <1>5, <1>7 DEF Advance
<1> QED
  BY <1>6, <1>7

\* What the other actions leave alone.
LEMMA OthersKeep ==
  ASSUME IInv, UNCHANGED <<sender, unopened, filename_time, out, disk>>
  PROVE  OnlySent' /\ OpenFile' /\ StartedFile' /\ UnopenedBegun' /\ MixtureNeedsTwoLosses'
<1> USE DEF IInv, sender
<1>1. OnlySent'
  BY DEF OnlySent, Sent
<1>2. OpenFile'
  BY DEF OpenFile
<1>3. StartedFile'
  BY DEF StartedFile, Started, Arrived
<1>4. UnopenedBegun'
  BY DEF UnopenedBegun
<1>5. MixtureNeedsTwoLosses'
  BY DEF MixtureNeedsTwoLosses, NotMixed
<1> QED
  BY <1>1, <1>2, <1>3, <1>4, <1>5

\* A lost part.
LEMMA LoseKeeps ==
  ASSUME IInv, Lose
  PROVE  OnlySent' /\ OpenFile' /\ StartedFile' /\ UnopenedBegun' /\ MixtureNeedsTwoLosses'
<1> USE PartsTwo
<1>0. TypeOK /\ Advance /\ lost' = lost \cup {<<image, part>>} /\ <<image, part>> \in Chunk
      /\ UNCHANGED <<unopened, filename_time, out, disk>>
  BY AdvanceType DEF IInv, Lose, files
<1>t. lost \subseteq Chunk /\ \A n \in Name : disk[n] \subseteq Chunk
  BY <1>0 DEF TypeOK
<1>1. OnlySent'
  <2>1. \A c \in lost' : Sent(c)'
    BY <1>0, <1>t, AdvanceSent DEF IInv, OnlySent
  <2>2. ASSUME NEW n \in Name, NEW c \in disk[n]
        PROVE  Sent(c)' /\ c \notin lost'
    <3>1. c \in Chunk /\ Sent(c) /\ c \notin lost
      BY <1>t DEF IInv, OnlySent
    <3> QED
      BY <3>1, <1>0, AdvanceSent, NotSent
  <2> QED
    BY <2>1, <2>2, <1>0 DEF OnlySent
<1>2. OpenFile'
  <2>1. ASSUME NEW n \in out, NEW c \in disk[n], c[1] < image'
        PROVE  <<c[1], Parts>> \in lost'
    <3>1. n \in Name
      BY <1>0 DEF TypeOK
    <3>2. CASE c[1] < image
      BY <3>2, <1>0 DEF IInv, OpenFile
    <3>3. CASE ~(c[1] < image)
      <4>1. c[1] = image /\ part = Parts
        BY <3>1, <3>3, <2>1, <1>0, <1>t DEF Advance, Chunk, Image, TypeOK
      <4> QED
        BY <4>1, <1>0
    <3> QED
      BY <3>2, <3>3
  <2> QED
    BY <2>1, <1>0 DEF OpenFile, IInv
<1>3. StartedFile'
  <2> SUFFICES ASSUME Started'
               PROVE  IF image \in unopened THEN image' = image /\ out = {}
                      ELSE /\ image' = image
                           /\ out = {filename_time} /\ disk[filename_time] = Arrived'
    BY <1>0 DEF StartedFile
  <2>1. image' = image /\ part' = part + 1 /\ part # Parts
    BY <1>0 DEF Started, Advance, TypeOK
  <2>2. Started
    BY <2>1, <1>0 DEF Started, Advance, TypeOK
  <2>3. Arrived' = Arrived
    BY <2>1, <1>0 DEF Arrived, TypeOK
  <2> QED
    BY <2>1, <2>2, <2>3 DEF StartedFile, IInv
<1>4. UnopenedBegun'
  <2>1. \A i \in unopened : i \in Nat
    BY <1>0 DEF TypeOK, Image
  <2>2. image \in Nat /\ part \in Nat
    BY <1>0 DEF TypeOK
  <2>3. ASSUME NEW i \in unopened
        PROVE  i < image' \/ (i = image' /\ part' > 1)
    <3>1. i < image \/ (i = image /\ part > 1)
      BY DEF UnopenedBegun, IInv
    <3> QED
      BY <3>1, <2>1, <2>2, <1>0 DEF Advance
  <2> QED
    BY <2>3, <1>0 DEF UnopenedBegun
<1>5. MixtureNeedsTwoLosses'
  BY <1>0 DEF MixtureNeedsTwoLosses, NotMixed, IInv
<1> QED
  BY <1>1, <1>2, <1>3, <1>4, <1>5

\* A first part: with a file of its own, or with none.
LEMMA StartKeeps ==
  ASSUME IInv, ImageStart \/ ImageStartUnopened
  PROVE  OnlySent' /\ OpenFile' /\ StartedFile' /\ UnopenedBegun' /\ MixtureNeedsTwoLosses'
<1> USE PartsTwo
<1>0. /\ TypeOK /\ Advance /\ part = 1 /\ lost' = lost
      /\ image' = image /\ part' = 2 /\ filename_time' = now
      /\ <<image, part>> \in Chunk
  BY AdvanceType DEF IInv, ImageStart, ImageStartUnopened, Arrives, Advance
<1>t. lost \subseteq Chunk /\ (\A n \in Name : disk[n] \subseteq Chunk) /\ now \in Name
  BY <1>0 DEF TypeOK, Name
<1>n. <<image, part>> \notin lost /\ \A c : c = <<image, part>> => Sent(c)'
  <2>1. ASSUME NEW c, c = <<image, part>> PROVE Sent(c)'
    BY <2>1, <1>0, AdvanceSent
  <2> QED
    BY <2>1, <1>0, NotSent DEF IInv, OnlySent
<1>d. /\ out' \subseteq {now}
      /\ \A n \in Name : IF n \in out' THEN disk'[n] = {<<image, part>>} ELSE disk'[n] = disk[n]
  BY <1>0, <1>t DEF ImageStart, ImageStartUnopened, TypeOK
<1>1. OnlySent'
  <2>1. \A c \in lost' : Sent(c)'
    BY <1>0, <1>t, AdvanceSent DEF IInv, OnlySent
  <2>2. ASSUME NEW n \in Name, NEW c \in disk'[n]
        PROVE  Sent(c)' /\ c \notin lost'
    <3>1. CASE n \in out'
      BY <3>1, <1>d, <1>n, <1>0
    <3>2. CASE n \notin out'
      <4>1. c \in Chunk /\ Sent(c) /\ c \notin lost
        BY <3>2, <1>d, <1>t DEF IInv, OnlySent
      <4> QED
        BY <4>1, <1>0, AdvanceSent
    <3> QED
      BY <3>1, <3>2
  <2> QED
    BY <2>1, <2>2 DEF OnlySent
<1>2. OpenFile'
  <2>1. ASSUME NEW n \in out', NEW c \in disk'[n], c[1] < image'
        PROVE  FALSE
    <3>1. c = <<image, part>>
      BY <1>d, <1>t
    <3> QED
      BY <3>1, <2>1, <1>0 DEF TypeOK
  <2> QED
    BY <2>1, <1>0, <1>d DEF OpenFile
<1>3. StartedFile'
  <2>1. CASE ImageStart
    <3>1. image \notin unopened'
      BY <2>1, <1>0 DEF ImageStart, IInv, UnopenedBegun, TypeOK
    <3>2. Arrived' = {<<image, part>>}
      BY <1>0, <1>n DEF Arrived, TypeOK
    <3>3. out' = {filename_time'} /\ disk'[filename_time'] = {<<image, part>>}
      BY <2>1, <1>0, <1>t DEF ImageStart, TypeOK
    <3> QED
      BY <3>1, <3>2, <3>3, <1>0 DEF StartedFile
  <2>2. CASE ImageStartUnopened
    BY <2>2, <1>0 DEF ImageStartUnopened, StartedFile
  <2> QED
    BY <2>1, <2>2
<1>4. UnopenedBegun'
  BY <1>0 DEF UnopenedBegun, IInv, ImageStart, ImageStartUnopened, TypeOK
<1>5. MixtureNeedsTwoLosses'
  <2>1. ASSUME NEW n \in Name, NEW a \in disk'[n], NEW b \in disk'[n], a[1] < b[1]
        PROVE  <<a[1], Parts>> \in lost' /\ <<b[1], 1>> \in lost'
    <3>1. CASE n \in out'
      <4>1. a = <<image, part>> /\ b = <<image, part>>
        BY <3>1, <1>d
      <4> QED
        BY <4>1, <2>1, <1>0 DEF TypeOK
    <3>2. CASE n \notin out'
      BY <3>2, <2>1, <1>d, <1>0 DEF MixtureNeedsTwoLosses, NotMixed, IInv
    <3> QED
      BY <3>1, <3>2
  <2> QED
    BY <2>1 DEF MixtureNeedsTwoLosses, NotMixed
<1> QED
  BY <1>1, <1>2, <1>3, <1>4, <1>5

\* A later part is written to the open file, if there is one; the last part
\* closes it.
LEMMA WriteKeeps ==
  ASSUME IInv, Advance, part > 1, lost' = lost,
         Write(<<image, part>>), UNCHANGED <<unopened, filename_time>>,
         out' = IF part = Parts THEN {} ELSE out
  PROVE  OnlySent' /\ OpenFile' /\ StartedFile' /\ UnopenedBegun' /\ MixtureNeedsTwoLosses'
<1> USE PartsTwo
<1> DEFINE c0 == <<image, part>>
<1>0. TypeOK /\ c0 \in Chunk /\ image \in Image /\ image \in Nat /\ part \in Nat
  BY AdvanceType DEF IInv, Advance, TypeOK
<1>t. lost \subseteq Chunk /\ (\A n \in Name : disk[n] \subseteq Chunk) /\ out \subseteq Name
  BY <1>0 DEF TypeOK
<1>n. c0 \notin lost /\ \A c : c = c0 => Sent(c)'
  <2>1. ASSUME NEW c, c = c0 PROVE Sent(c)'
    BY <2>1, <1>0, AdvanceSent
  <2> QED
    BY <2>1, <1>0, NotSent DEF IInv, OnlySent
<1>d. \A n \in Name : disk'[n] = disk[n] \cup (IF n \in out THEN {c0} ELSE {})
  BY DEF Write
\* In the open file all is of this image, or the start of this one was lost.
<1>o. ASSUME NEW n \in out, NEW c \in disk[n]
      PROVE  c[1] = image \/ (c[1] < image /\ <<image, 1>> \in lost)
  <2>1. c \in Chunk /\ (c[1] < image \/ c[1] = image)
    BY <1>t DEF IInv, OnlySent, Sent
  <2>2. CASE c[1] < image /\ <<image, 1>> \notin lost
    <3>1. disk[n] = Arrived
      BY <2>2, <1>0 DEF IInv, StartedFile, Started
    <3>2. c[1] = image
      BY <3>1 DEF Arrived
    <3> QED
      BY <3>2
  <2> QED
    BY <2>1, <2>2
<1>1. OnlySent'
  <2>1. \A c \in lost' : Sent(c)'
    BY <1>0, <1>t, AdvanceSent DEF IInv, OnlySent
  <2>2. ASSUME NEW n \in Name, NEW c \in disk'[n]
        PROVE  Sent(c)' /\ c \notin lost'
    <3>1. CASE c = c0
      BY <3>1, <1>n
    <3>2. CASE c # c0
      <4>1. c \in Chunk /\ Sent(c) /\ c \notin lost
        BY <3>2, <1>d, <1>t DEF IInv, OnlySent
      <4> QED
        BY <4>1, <1>0, AdvanceSent
    <3> QED
      BY <3>1, <3>2
  <2> QED
    BY <2>1, <2>2 DEF OnlySent
<1>2. OpenFile'
  <2>1. CASE part = Parts
    BY <2>1 DEF OpenFile
  <2>2. CASE part # Parts
    <3>1. ASSUME NEW n \in out, NEW c \in disk'[n], c[1] < image
          PROVE  <<c[1], Parts>> \in lost
      <4>1. c \in disk[n]
        BY <3>1, <1>d, <1>t, <1>0
      <4> QED
        BY <4>1, <3>1 DEF IInv, OpenFile
    <3> QED
      BY <3>1, <2>2 DEF OpenFile, IInv, Advance
  <2> QED
    BY <2>1, <2>2
<1>3. StartedFile'
  <2> SUFFICES ASSUME Started' PROVE StartedFile'
    BY DEF StartedFile
  <2>1. image' = image /\ part' = part + 1 /\ part # Parts /\ out' = out
    BY DEF Started, Advance
  <2>2. Started
    BY <2>1, <1>0 DEF Started
  <2>3. CASE image \in unopened
    BY <2>1, <2>2, <2>3 DEF StartedFile, IInv
  <2>4. CASE image \notin unopened
    <3>1. out = {filename_time} /\ disk[filename_time] = Arrived
      BY <2>2, <2>4 DEF StartedFile, IInv
    <3>2. Arrived' = Arrived \cup {c0}
      <4>1. Arrived' = {c \in {image} \X (1 .. part) : c \notin lost}
        BY <2>1, <1>0 DEF Arrived
      <4>2. \A c \in {image} \X (1 .. part) : c \in {image} \X (1 .. part - 1) \/ c = c0
        BY <1>0
      <4>3. c0 \in {image} \X (1 .. part)
        BY <1>0
      <4>4. {image} \X (1 .. part - 1) \subseteq {image} \X (1 .. part)
        BY <1>0
      <4> QED
        BY <4>1, <4>2, <4>3, <4>4, <1>n DEF Arrived
    <3>3. disk'[filename_time] = disk[filename_time] \cup {c0}
      BY <3>1, <1>d, <1>t
    <3> QED
      BY <2>1, <2>4, <3>1, <3>2, <3>3 DEF StartedFile
  <2> QED
    BY <2>3, <2>4
<1>4. UnopenedBegun'
  <2>1. \A i \in unopened : i \in Nat
    BY <1>0 DEF TypeOK, Image
  <2>2. ASSUME NEW i \in unopened
        PROVE  i < image' \/ (i = image' /\ part' > 1)
    <3>1. i < image \/ (i = image /\ part > 1)
      BY DEF UnopenedBegun, IInv
    <3> QED
      BY <3>1, <2>1, <1>0 DEF Advance
  <2> QED
    BY <2>2 DEF UnopenedBegun
<1>5. MixtureNeedsTwoLosses'
  <2>1. ASSUME NEW n \in Name, NEW a \in disk'[n], NEW b \in disk'[n], a[1] < b[1]
        PROVE  <<a[1], Parts>> \in lost /\ <<b[1], 1>> \in lost
    <3>1. CASE a \in disk[n] /\ b \in disk[n]
      BY <3>1, <2>1 DEF MixtureNeedsTwoLosses, NotMixed, IInv
    <3>2. CASE n \in out /\ b = c0
      <4>1. a \in disk[n]
        BY <3>2, <2>1, <1>d, <1>0
      <4>2. a[1] < image
        BY <3>2, <2>1
      <4>3. <<a[1], Parts>> \in lost
        BY <4>1, <4>2, <3>2 DEF IInv, OpenFile
      <4>4. <<image, 1>> \in lost
        BY <4>1, <4>2, <3>2, <1>o, <1>0
      <4> QED
        BY <4>3, <4>4, <3>2
    <3>3. CASE n \in out /\ a = c0 /\ b \in disk[n]
      <4>1. b[1] = image \/ b[1] < image
        BY <3>3, <1>o
      <4>2. b[1] \in Nat
        BY <3>3, <1>t DEF Chunk, Image
      <4> QED
        BY <4>1, <4>2, <3>3, <2>1, <1>0
    <3> QED
      BY <3>1, <3>2, <3>3, <1>d
  <2> QED
    BY <2>1 DEF MixtureNeedsTwoLosses, NotMixed
<1> QED
  BY <1>1, <1>2, <1>3, <1>4, <1>5

-----------------------------------------------------------------------------
(* The invariant.                                                          *)

LEMMA InitIInv == Init => IInv
<1> SUFFICES ASSUME Init PROVE IInv
  OBVIOUS
<1> USE PartsTwo DEF Init
<1>1. \A n \in Name : disk[n] = {}
  OBVIOUS
<1> QED
  BY <1>1, InitType DEF IInv, OnlySent, OpenFile, StartedFile, Started, UnopenedBegun,
                        MixtureNeedsTwoLosses, NotMixed

LEMMA NextIInv == IInv /\ [Next]_vars => IInv'
<1> SUFFICES ASSUME IInv, [Next]_vars PROVE IInv'
  OBVIOUS
<1>0. TypeOK /\ TypeOK'
  BY NextType DEF IInv
<1> SUFFICES OnlySent' /\ OpenFile' /\ StartedFile' /\ UnopenedBegun' /\ MixtureNeedsTwoLosses'
  BY <1>0 DEF IInv
<1>1. CASE ImageStart \/ ImageStartUnopened
  BY <1>1, StartKeeps
<1>2. CASE ImageMiddle
  <2>1. /\ Advance /\ part > 1 /\ lost' = lost /\ Write(<<image, part>>)
        /\ out' = (IF part = Parts THEN {} ELSE out)
        /\ UNCHANGED <<unopened, filename_time>>
    BY <1>2, <1>0, PartsTwo DEF ImageMiddle, Arrives, TypeOK
  <2> QED
    BY <2>1, WriteKeeps
<1>3. CASE ImageEnd
  <2>1. /\ Advance /\ part > 1 /\ lost' = lost /\ Write(<<image, part>>)
        /\ out' = (IF part = Parts THEN {} ELSE out)
        /\ UNCHANGED <<unopened, filename_time>>
    BY <1>3, <1>0, PartsTwo DEF ImageEnd, Arrives, TypeOK
  <2> QED
    BY <2>1, WriteKeeps
<1>4. CASE Lose
  BY <1>4, LoseKeeps
<1>5. CASE Ack \/ OtherPacket \/ Quiet \/ PingLost \/ SerialError \/ OpenSerial
           \/ CloseSerial \/ PingCmd \/ ClearImage \/ Second \/ UNCHANGED vars
  <2>1. UNCHANGED <<sender, unopened, filename_time, out, disk>>
    BY <1>5 DEF Ack, OtherPacket, Quiet, PingLost, SerialError, OpenSerial, CloseSerial,
                PingCmd, ClearImage, Second, vars, files
  <2> QED
    BY <2>1, OthersKeep
<1> QED
  BY <1>1, <1>2, <1>3, <1>4, <1>5 DEF Next, Receive, Operator

\* Parts of two images get into one file only when the end of the one and the
\* start of the other are both lost, however many images there are.
THEOREM FilesMixOnlyAtLosses == Spec => []MixtureNeedsTwoLosses
<1>1. Spec => []IInv
  BY InitIInv, NextIInv, PTL DEF Spec
<1>2. IInv => MixtureNeedsTwoLosses
  BY DEF IInv
<1> QED
  BY <1>1, <1>2, PTL

\* An image of which nothing is lost, and whose file can be opened, is on
\* display and whole in its file as soon as its last part has come.
THEOREM WholeImagesAreShown == Spec => WholeImageShown
<1>1. Spec => []IInv
  BY InitIInv, NextIInv, PTL DEF Spec
<1>2. IInv /\ [Next]_vars
        => [\A i \in Image : Completed(i) =>
              display' = Whole(i) /\ disk'[filename_time'] = Whole(i)]_vars
  <2> SUFFICES ASSUME IInv, Next, NEW i \in Image, Completed(i)
               PROVE  display' = Whole(i) /\ disk'[filename_time'] = Whole(i)
    OBVIOUS
  <2> USE PartsTwo
  <2>0. /\ TypeOK /\ image = i /\ image' = i + 1 /\ i \in Nat
        /\ lost' \cap Whole(i) = {} /\ i \notin unopened
    BY DEF IInv, Completed, Image
  <2>1. Advance /\ part = Parts
    BY <2>0 DEF Next, Receive, Operator, Arrives, Advance, ImageStart, ImageStartUnopened,
                ImageMiddle, ImageEnd, Lose, Ack, OtherPacket, Quiet, PingLost, SerialError,
                OpenSerial, CloseSerial, PingCmd, ClearImage, Second, sender
  <2>2. ~Lose
    <3>1. <<i, Parts>> \in Whole(i)
      BY DEF Whole
    <3> QED
      BY <3>1, <2>0, <2>1 DEF Lose
  <2>3. ImageEnd
    BY <2>0, <2>1, <2>2 DEF Next, Receive, Operator, ImageStart, ImageStartUnopened,
                ImageMiddle, Ack, OtherPacket, Quiet, PingLost, SerialError,
                OpenSerial, CloseSerial, PingCmd, ClearImage, Second, sender
  <2>4. lost' = lost /\ filename_time' = filename_time /\ display' = disk'[filename_time]
    BY <2>3 DEF ImageEnd, Arrives
  <2>5. out = {filename_time} /\ disk[filename_time] = Arrived
    <3>1. <<i, 1>> \in Whole(i)
      BY DEF Whole
    <3> QED
      BY <3>1, <2>0, <2>1, <2>4 DEF IInv, StartedFile, Started
  <2>6. disk'[filename_time] = Arrived \cup {<<i, Parts>>}
    BY <2>0, <2>3, <2>5 DEF ImageEnd, Write, TypeOK, Name
  <2>7. Arrived \cup {<<i, Parts>>} = Whole(i)
    <3>1. \A p \in 1 .. Parts : p \in 1 .. Parts - 1 \/ p = Parts
      OBVIOUS
    <3>2. 1 .. Parts - 1 \subseteq 1 .. Parts /\ Parts \in 1 .. Parts
      OBVIOUS
    <3> QED
      BY <3>1, <3>2, <2>0, <2>1, <2>4 DEF Arrived, Whole
  <2> QED
    BY <2>4, <2>6, <2>7
<1> QED
  BY <1>1, <1>2, PTL DEF Spec, WholeImageShown

\* A whole image that was saved is not touched again, but by an image that
\* starts in the second after which it is named.
THEOREM SavedImagesAreSafe == Spec => SavedImageSafe
<1>1. Spec => []IInv
  BY InitIInv, NextIInv, PTL DEF Spec
<1>2. IInv /\ [Next]_vars
        => [\A i \in Image, n \in Name :
              disk[n] = Whole(i) /\ disk'[n] # disk[n] => n = now /\ part = 1]_vars
  <2> SUFFICES ASSUME IInv, Next, NEW i \in Image, NEW n \in Name,
                      disk[n] = Whole(i), disk'[n] # disk[n]
               PROVE  n = now /\ part = 1
    OBVIOUS
  <2> USE PartsTwo
  <2>0. TypeOK
    BY DEF IInv
  <2>1. CASE ImageStart
    BY <2>0, <2>1 DEF ImageStart, TypeOK
  <2>2. CASE ImageMiddle \/ ImageEnd
    <3>1. part > 1 /\ n \in out
      <4>1. disk'[n] = disk[n] \cup (IF n \in out THEN {<<image, part>>} ELSE {})
        BY <2>2 DEF ImageMiddle, ImageEnd, Write
      <4>2. part > 1
        BY <2>0, <2>2 DEF ImageMiddle, ImageEnd, TypeOK
      <4> QED
        BY <4>1, <4>2
    <3>2. <<i, Parts>> \in disk[n]
      BY DEF Whole
    <3>3. <<i, Parts>> \notin lost /\ Sent(<<i, Parts>>)
      BY <3>2 DEF IInv, OnlySent
    <3>4. i < image
      BY <3>3, <2>0 DEF Sent, TypeOK
    <3>5. <<i, Parts>> \in lost
      BY <3>1, <3>2, <3>4 DEF IInv, OpenFile
    <3> QED
      BY <3>3, <3>5
  <2>3. CASE disk' = disk
    BY <2>3
  <2> QED
    BY <2>1, <2>2, <2>3 DEF Next, Receive, Operator, ImageStartUnopened, Lose, Ack,
                OtherPacket, Quiet, PingLost, SerialError, OpenSerial, CloseSerial,
                PingCmd, ClearImage, Second, files
<1> QED
  BY <1>1, <1>2, PTL DEF Spec, SavedImageSafe
=============================================================================
