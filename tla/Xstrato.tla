------------------------------- MODULE Xstrato -------------------------------
(***************************************************************************)
(* The window of the Xstrato balloon: it receives images over a serial     *)
(* port, part by part, saves each in a file named after the second in      *)
(* which it began, and shows it.  Parts carry no number: START, MIDDLE and *)
(* END are all that tells one image from the next, and each of them may be *)
(* lost on the way, or while the port is closed.                           *)
(* One thread (Qt's) runs all handlers.                                    *)
(***************************************************************************)
EXTENDS Naturals

CONSTANTS
  Images,     \* bound: images sent
  Parts,      \* parts of an image: START is the first, END the last
  MaxNow      \* bound: the clock, in seconds

ASSUME XstratoAssumption ==
  Images \in Nat /\ Parts \in Nat \ {0, 1} /\ MaxNow \in Nat \ {0}

VARIABLES
  image, part,    \* what the balloon sends next
  lost,           \* ghost: the parts that did not reach the handler
  unopened,       \* ghost: the images whose file could not be opened
  now,            \* std::time
  filename_time,  \* the name of the last file: a second, or 0 before the first
  out,            \* fileOutImg: the file it has open, if any
  disk,           \* what was written to each file since it was truncated
  display,        \* image_display: what it shows, of the file it was loaded from
  open, icon,     \* the serial port, and serialport_status
  ping,           \* a ping or its answer is on its way
  light, ack,     \* send_cmd_available and ping_pong_ack
  timer           \* qtimer_rximg is armed

sender  == <<image, part, lost>>
files   == <<unopened, filename_time, out, disk, display>>
port    == <<open, icon>>
signals == <<light, ack, timer>>
vars    == <<sender, files, now, port, ping, signals>>

Image == 1 .. Images
Chunk == Image \X (1 .. Parts)
Name  == 0 .. MaxNow
Whole(i) == {i} \X (1 .. Parts)

TypeOK ==
  /\ image \in 1 .. Images + 1 /\ part \in 1 .. Parts
  /\ lost \subseteq Chunk /\ unopened \subseteq Image
  /\ now \in 1 .. MaxNow /\ filename_time \in Name
  /\ out \in {{}} \cup {{n} : n \in Name \ {0}}
  /\ disk \in [Name -> SUBSET Chunk] /\ display \subseteq Chunk
  /\ open \in BOOLEAN /\ icon \in {"refresh", "correct", "redCross"}
  /\ ping \in BOOLEAN /\ ack \in BOOLEAN /\ timer \in BOOLEAN
  /\ light \in {"none", "red", "green"}

\* The constructor tries to open the port.
Init ==
  /\ image = 1 /\ part = 1 /\ lost = {} /\ unopened = {}
  /\ now = 1 /\ filename_time = 0 /\ out = {}
  /\ disk = [n \in Name |-> {}] /\ display = {}
  /\ \/ open = TRUE  /\ icon = "correct"
     \/ open = FALSE /\ icon = "redCross"
  /\ ping = FALSE /\ light = "none" /\ ack = FALSE /\ timer = FALSE

-----------------------------------------------------------------------------
(* The balloon: it never sends a part again.                               *)

Advance ==
  /\ image \in Image
  /\ IF part = Parts THEN image' = image + 1 /\ part' = 1
                     ELSE image' = image /\ part' = part + 1

Lose ==
  /\ Advance /\ lost' = lost \cup {<<image, part>>}
  /\ UNCHANGED <<files, now, port, ping, signals>>

Arrives == open /\ Advance /\ UNCHANGED lost

-----------------------------------------------------------------------------
(* handleSerialRxPacket.                                                   *)

\* What every packet does, before and after its case.
Packet == light' = "red" /\ timer' = TRUE

\* fileOutImg.write: nothing is written when no file is open.
Write(c) == disk' = [n \in Name |-> disk[n] \cup (IF n \in out THEN {c} ELSE {})]

\* Mutant of ImageStart: the file that is still open is kept.
ImageStartAppends ==
  /\ part = 1 /\ Arrives /\ Packet
  /\ out' = IF out = {} THEN {now} ELSE out
  /\ filename_time' = IF out = {} THEN now ELSE filename_time
  /\ disk' = [n \in Name |->
       IF n \in out THEN disk[n] \cup {<<image, part>>}
       ELSE IF n \in out' THEN {<<image, part>>} ELSE disk[n]]
  /\ UNCHANGED <<unopened, display, now, port, ping, ack>>

\* Mutant of ImageStart: the old file is not closed by the new one.
ImageStartLeaks ==
  /\ part = 1 /\ Arrives /\ Packet
  /\ filename_time' = now /\ out' = out \cup {now}
  /\ disk' = [disk EXCEPT ![now] = {<<image, part>>}]
  /\ UNCHANGED <<unopened, display, now, port, ping, ack>>

ImageStart ==
  /\ part = 1 /\ Arrives /\ Packet
  /\ filename_time' = now /\ out' = {now}
  /\ disk' = [disk EXCEPT ![now] = {<<image, part>>}]
  /\ UNCHANGED <<unopened, display, now, port, ping, ack>>

\* Mutant of ImageStartUnopened: the handler returns at the error.
ImageStartReturns ==
  /\ part = 1 /\ Arrives /\ light' = "red"
  /\ filename_time' = now /\ out' = {} /\ unopened' = unopened \cup {image}
  /\ UNCHANGED <<disk, display, now, port, ping, ack, timer>>

\* The new stream replaces the old one even if it has no file.
ImageStartUnopened ==
  /\ part = 1 /\ Arrives /\ Packet
  /\ filename_time' = now /\ out' = {} /\ unopened' = unopened \cup {image}
  /\ UNCHANGED <<disk, display, now, port, ping, ack>>

ImageMiddle ==
  /\ part \in 2 .. Parts - 1 /\ Arrives /\ Packet
  /\ Write(<<image, part>>)
  /\ UNCHANGED <<unopened, filename_time, out, display, now, port, ping, ack>>

\* Mutant of ImageEnd: the file stays open.
ImageEndKeepsFile ==
  /\ part = Parts /\ Arrives /\ Packet
  /\ Write(<<image, part>>)
  /\ display' = disk'[filename_time]
  /\ UNCHANGED <<unopened, filename_time, out, now, port, ping, ack>>

\* The last file is shown, whether or not this image is in it.
ImageEnd ==
  /\ part = Parts /\ Arrives /\ Packet
  /\ Write(<<image, part>>) /\ out' = {}
  /\ display' = disk'[filename_time]
  /\ UNCHANGED <<unopened, filename_time, now, port, ping, ack>>

Ack ==
  /\ open /\ ping /\ ping' = FALSE /\ Packet /\ ack' = TRUE
  /\ UNCHANGED <<sender, files, now, port>>

\* IMAGE_DATA, TELEMETRY and unknown packets: only labels change.
OtherPacket ==
  /\ open /\ Packet
  /\ UNCHANGED <<sender, files, now, port, ping, ack>>

Receive ==
  \/ ImageStart \/ ImageStartUnopened \/ ImageMiddle \/ ImageEnd
  \/ Ack \/ OtherPacket

-----------------------------------------------------------------------------
(* The other callbacks, and the operator.                                  *)

\* qtimer_rximg_callback: a second without a packet.
Quiet ==
  /\ timer /\ timer' = FALSE
  /\ light' = "green" /\ ack' = FALSE
  /\ UNCHANGED <<sender, files, now, port, ping>>

SerialError ==
  /\ open' = FALSE /\ icon' = "redCross"
  /\ UNCHANGED <<sender, files, now, ping, signals>>

OpenSerial ==
  /\ ~open
  /\ \/ open' = TRUE  /\ icon' = "correct"
     \/ open' = FALSE /\ icon' = "redCross"
  /\ UNCHANGED <<sender, files, now, ping, signals>>

CloseSerial ==
  /\ open' = FALSE /\ icon' = "refresh"
  /\ UNCHANGED <<sender, files, now, ping, signals>>

\* A command goes to the port whatever the light says, and nowhere when the
\* port is closed.
PingCmd ==
  /\ open /\ ping' = TRUE
  /\ UNCHANGED <<sender, files, now, port, signals>>

PingLost ==
  /\ ping /\ ping' = FALSE
  /\ UNCHANGED <<sender, files, now, port, signals>>

ClearImage ==
  /\ display' = {}
  /\ UNCHANGED <<sender, unopened, filename_time, out, disk, now, port, ping, signals>>

Second ==
  /\ now < MaxNow /\ now' = now + 1
  /\ UNCHANGED <<sender, files, port, ping, signals>>

Operator == OpenSerial \/ CloseSerial \/ PingCmd \/ ClearImage

Next ==
  \/ Receive \/ Lose \/ PingLost \/ SerialError
  \/ Quiet \/ Second \/ Operator

\* Qt fires the timer that is armed; everything else may stop.
Spec == Init /\ [][Next]_vars /\ WF_vars(Quiet)

-----------------------------------------------------------------------------
(* Properties.                                                             *)

\* Parts of two images are in one file only if the end of the one and the
\* start of the other were both lost; a file that cannot be opened does not
\* send the parts of its image to the file before.
NotMixed(content) ==
  \A a, b \in content :
    a[1] < b[1] => <<a[1], Parts>> \in lost /\ <<b[1], 1>> \in lost

MixtureNeedsTwoLosses == \A n \in Name : NotMixed(disk[n])

\* Whatever happened to the images before it: when the last part of an image
\* of which nothing was lost arrives, it is whole in its file and on display.
Completed(i) ==
  /\ image = i /\ image' = i + 1
  /\ lost' \cap Whole(i) = {} /\ i \notin unopened

WholeImageShown ==
  [][\A i \in Image : Completed(i) =>
       display' = Whole(i) /\ disk'[filename_time'] = Whole(i)]_vars

\* Whatever parts arrive or get lost later, a whole image that was saved is
\* never touched again, but by an image that starts in the same second.
SavedImageSafe ==
  [][\A i \in Image, n \in Name :
       disk[n] = Whole(i) /\ disk'[n] # disk[n] => n = now /\ part = 1]_vars

\* When packets stop, a command is said to be possible again, and the answer
\* to the last ping does not stay on display.
QuietTurnsGreen == <>[][~Receive]_vars => <>[](light # "red" /\ ~ack)
=============================================================================
