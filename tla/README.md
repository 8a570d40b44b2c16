# TLA+ models of the ERT 2023 ground segment

This directory holds TLA+ models of the EPFL Rocket Team's ground-segment
software (ground station windows, ground support equipment and payload programs,
and the radio protocol between them), TLC configurations that check them on small
instances, and TLAPS proofs of what holds for every instance.

Contents: [inventory](#inventory), [the models](#the-models),
[the runs](#the-runs-and-what-they-show), [the proofs](#the-proofs),
[disagreements with the code's own words](#where-the-code-disagrees-with-its-own-words),
[what is not modelled](#what-is-not-modelled), [plan](#plan).

## Inventory

The programs (`src/src/*.cpp`) are variants of two shapes:

* **GUI programs** (GST): the Qt GUI thread shows a
  window with timers; a `Worker` thread runs the RF loop. They share a
  `Connector`, an array of atomics (`RF-UI-Interface`). The window that
  `UI/CMakeLists.txt` builds is `SecondWindow`; `GuiWindow` and `propgsgui` are left-overs.
* **Serial windows** (`Nordend`, `XSTRATO`): one Qt thread, which owns the port too.
* **Headless programs** (`GSE_PLsimu.cpp`): the same RF loop in `main`, ended by
  SIGINT. With `RUNNING_ON_RPI` it drives the igniter pin.

| component (source) | state | operations | talks to | correct when |
|---|---|---|---|---|
| **Remote ignition** (`Telecom/DataStructures/GSE/IgnitionCode.cpp`) | `myState`, `receivedState`, `code`, `ignitionTime`, GPIO pin | `updateTx`, `write`, `parse`, `updateRx`, the constructor | radio; Connector flags `IGNITION_CLICKED`, `IGNITION_STATUS`; GPIO | the igniter fires only after two different orders, arming before ignition; the pin and the state agree; it is switched off again |
| **Image transmission** (`Telecom/DataStructures/File`, `Picture`) | two state machines in one class: `myState`, `receivedState`, `nbrTotPacket`, `lastPacketNbr`, `packetNbr`, `missingPacketNbr`, `file` | as above, `importFile`, `exportFile` | radio; Connector flags of the buttons; disk | what is exported is the image; the transmitter stays inside its file; it ends |
| **Logger** (`Logger/`) | two buffers with `ready_`, `position_`; detached threads; one `ofstream` | `add`, `log_buffer`, destructor | disk | the log is what was added |
| **Worker life cycle** (`Telecom/Worker/Worker.cpp`, window's XBee button) | `RUNNING`, `ACTIVE_XBEE`, serial port status, the `DataHandler` | click, close, `mainRoutine` | Connector; serial port | the Worker follows the button, and ends when the window closes |
| **Connector** (`RF-UI-Interface/connector.cpp`) | one atomic cell per value, and a file name | `setData`, `getData`, `eatData`, `incrementData` | all of the above and below | an order set once is eaten once, a packet is counted once, the window ends by showing what is there |
| **Datagram dispatch** (`DataHandler`, `Datagram`) | table of datagrams, `lastRxID` | `updateTx`, `updateRx`, `parse`, `write` | framing below, data above | a packet is logged under a datagram that exists |
| **Packet framing** (`Packet`, `Header`, `CRC`, `XbeeOptions`, `Xbee`) | the bytes in the port, the place in them | `write`, `parse`, `send`, `receive` | serial port | the reader is in step with the frames, and finds it again |
| **Telemetry data** (`GPS`, `Telemetry`, `StatusAV`, sensors) | last values, maxima, flight phase | `parse`, `updateRx` | Connector | the maximum covers the heights, in spite of reset |
| **Nordend window** (`UI/NordendGUI.cpp`) | shown valve states, serial port, capsule decoder | buttons with a confirmation dialogue, telemetry handler | serial port (second protocol) | a valve gets the order the operator confirmed |
| **Xstrato window** (`UI/XstratoWindow.cpp`) | the image being received | START, data, END packets | serial port | an image shown is one image |
| Propulsion window, labels, themes, sounds, simulators, `LoRa`, vendored libraries | - | - | - | presentation, tests, third party |

What is hard here: both sides of the radio run independent loops over a link that
loses packets and holds old ones; orders are sent five times; the GUI thread
and the Worker share flags that are read, negated and written in separate steps;
programs are stopped and restarted on one side only; the modem is switched off and
on while a protocol is running; the logger's threads are detached. `PROJECT.json`
lists each such point at its line, with the property that covers it or the reason
why none does yet.

## The models

Names are the code's names where possible. Every module starts with what it models
and what it abstracts from. `PROJECT.json` maps each definition to source lines.

### The radio link

In both protocols the link is a pair of FIFO sequences of at most `ChanCap`
packets. A packet that is sent is appended or lost; a packet that finds the link
full is lost. The serial port keeps the order and does not duplicate; the
duplicates that exist are made by the sender (the burst of orders). A loop that
finds nothing, though a packet waits, models both latency and delay.
Packets are records, not bytes; what becomes of the bytes is `Framing` and `Station`.

### Ignition, IgnitionHistory, TwoStepIgnition

`Ignition` models `IgnitionCode` on both sides. An iteration of `RFroutine` (and of
the GSE's `main`) is receive-at-most-one, then `updateTx` and `send`; so each side
has a program counter `rx`/`tx` (`burst` while the station sends the five copies
during which neither receive nor `updateTx` runs). The GUI thread's
`ignite_clicked` takes two steps, since it reads and writes the flag separately
and the Worker may eat it in between. The operator turns the keys and the code switches whenever he
likes, and may press the valve button, a left-over of a test whose slot `valve_control` stores a counter as
`IGNITION_STATUS` (`ValveStates` are the values it may come to). `GstRestart` is the XBee button (a new `DataHandler`, the same Connector),
`GseStop`/`GseStart` the other side's SIGINT and restart. `burn` abstracts
`clock() - ignitionTime`.

`IgnitionHistory` adds history variables: it numbers the operator's orders, tags the
packets in flight with the order they copy, and remembers which order armed and
which fired last. `untold` says that the last answers do not tell the station of the GSE's
state: an answer was lost, or is gone with the old port, the GSE has shut down or restarted and no order has
reached it since, or the valve button has replaced the answer. It constrains nothing but the number of presses (`MaxOrders`, a
bound for TLC only; `HistoryStepIsStep` proves that its steps are steps of
`Ignition`).

`TwoStepIgnition` is the abstract promise: orders are numbered; arming takes an
order later than the last firing, firing takes an order later than the arming.
`ImplementsTwoStep` states that the protocol implements it, through
`phase <- GsePhase` and `issued <- Len(log)`.
`StatusIsCurrent` says that these are the only ways in which what the station shows may be stale: unless `untold`, and unless the GSE
is between an order and its answer, `IGNITION_STATUS`, with the answers on their way, is the GSE's state.

### FileTransfer

Both ends of `File`. Contents of a packet are the image it was cut from;
`Garbage` stands for bytes that are not part of an image. Lists of missing
packet numbers are increasing and are modelled as sets consumed from the smallest.
`write` changes the state whether or not the packet is sent (`sendingData`): the
states in which the code sends and those in which these actions send coincide.
A read outside `file` on the transmitter (undefined behaviour) either sends garbage
or ends the program (`TxOutside`). `FTX_SAVE_FILE` writes a copy of what has arrived
and changes nothing else; it is left out. `NewImage` is external: who puts a picture on the payload's disk is
not in the build (`DataHandler.cpp:84` reads a file of a fixed name, the line with `Picture` is commented out).
With `Removable` it may go again, and then an import fails after it has emptied `file` (`File.cpp:258`).

The three buttons set flags which the receiver eats in different states and at
different places (the abort in `updateRx` and in `updateTx`, the request in `SLEEP` only,
missing in `WAITING_PACKET` only): the modules keep these places.

`FileDelivery` is what the operator is promised: packets come in any order and any number of times,
what has come stays (a transfer that was aborted is continued, not begun anew), and the whole image is
exported or nothing. `FileTransfer` implements it through `source <- tImage` and `have <- Have`, the
packets in the receiver's file, as long as there is one image, which stays on the disk, nothing restarts and missing packets are
asked for after an INIT only.

### DoubleBuffer

`Double_buffer::add` and `Logger_buffer::add` at the grain of the two atomics, with
the detached `log_buffer` threads as a set of records with a program counter.
`make_ready_to_fill` is two stores. `Timely` is the environment assumption that the file keeps up
with the data; without it the owner may store behind the end of a buffer
(`overrun`), which ends the behaviour since anything may follow.

`EventLog` is what the logger promises: an entry is refused at once or stays `pending`
until it is written, once. `DoubleBuffer` implements it through `given <- added`,
`log <- file` and the entries in the buffers as `pending` (`Taken`).

### Nordend

Everything in this window runs in the Qt thread; what makes it concurrent is
that a `QMessageBox` runs an event loop of its own, in which telemetry and port
errors are handled while the slot that asked is suspended. So a slot with a
question is two actions, with `dialog` in between; buttons are disabled while one is
open (the box is modal). The two stored packets start arbitrary, as no constructor
initialises them, and the icons, the state table and "SAFE config" start as
`GS2023.ui` draws them. The vehicle and the ground equipment are external: they take
valve orders and otherwise move as they like, which includes what they make of
ARM, IGNITION and the like. A report takes no time, an order any time, so reports
from before an order's execution arrive after it was given. The ground equipment reports a valve
by a byte; one that is neither ACTIVE nor INACTIVE is shown as "Unknown", and a click then asks for ACTIVE (`GseReport`). Capsule (a git
submodule) is taken to deliver a packet whole or not at all.

### ModemSwitch

The START/STOP button, closing the window, and `Worker::mainRoutine` with its three
nested loops, one action per test of a flag. The RF loop itself is one step here.

### Framing and Station

`Framing` models how the Worker takes packets from the port: `Xbee::receive` with its two reads,
`DataHandler::updateRx` and the log. Bytes are counted, not spelled: `head` is the place in its
frame of the next byte to be read, `avail` how many are there. A `read` returns what is
there (the port is opened without a timeout), so `ReadInfo` and `ReadBody` take fewer bytes than they ask for,
and a length that is not one (or was not read at all, or came damaged: `Xbee.cpp:46` takes it as it is) is any length. `torn`, a ghost, says
that a frame was cut, or its length damaged, since the port was last found empty between two frames. It excuses each such
frame, so what shows that a cut does no lasting harm is `SilenceHeals`, not `InStep`. A packet is
`Handled`, `Refused`, of a `WrongID` or `NotForUs`, whatever its bytes: the checksum is never compared.

`Station` composes `ModemSwitch` and `Framing`: `Routine` is taken apart into the
steps of `Receive` and the transmission, the port is opened at any place of a frame, a new `DataHandler` is
built for each turn of the outer loop, and bytes arrive while the window clicks.

### Board

The Connector between the Worker and `SecondWindow`, one step for each access to a cell: a packet
increments the counters of `Header`, then stores what its datagram says (a height and
then its maximum; the flight state), and an image that is complete stores its name and then
its announcement. The window's refresh reads the cells in its own order, eats the counters of
the rates and the announcement; reset clears the cells of `dataToReset` one by one. The cells that are
followed stand for their kind: one subsystem's rate for the four, `STATUS_AV_STATE` for the
values that are stored and shown without more. `eaten` and `overtaken` are ghosts.

### Xstrato

The window of the balloon: START, MIDDLE and END parts of images, which carry no number. A
part may be lost on the way, or because the port is closed. `out` is the file that
`fileOutImg` has open (a set of at most one; START may fail to open it), `disk` what was written
since the file was truncated, named by the second (`now`) in which its image began;
`display` what the window shows. The light, the acknowledgement and their timer are there too.

## The runs and what they show

| run | instance | shows |
|---|---|---|
| `ignition` | 2 codes (one of them 0000), 1 interlock, burst 2, link 2, 3 orders, both restarts | types; the pin agrees with the state; a press never gives two orders; refinement of `TwoStepIgnition`; the status shown is current but for lost answers, unasked shutdowns and restarts, and the valve button (which stores ARMED) |
| `ignition_live` | GSE code not 0000, no interlock, burst 1, link 1, unbounded presses | the igniter goes off again; a persistent operator fires although the sides can be out of step |
| `file` | 1 image of 2 packets, request of 1 number, link 1, no restarts, missing asked after an INIT only | the transmission implements `FileDelivery`; the transmitter stays inside its file; the image arrives; the exchange ends |
| `file_harsh` | the same with both restarts, early requests and an image that may go from the disk | the transmitter's counters agree in every state |
| `file_stale` | as `file`, with two images | violation, see below |
| `logger` | buffers of 2, 9 entries, file keeps up, may fail to open | the logger implements `EventLog`; if the file can be opened, the log is exactly what was added and full buffers come back |
| `logger_race` | the same, file does not keep up | violation, see below |
| `station` | 2 ports, frames of 5 bytes (body of 1), a port of 6, 2 datagrams | the Worker follows the button and the closing of the window, also in the middle of a packet; it is out of step with the frames only after a cut or a damaged length, and in step again after a silence; the log's index is a datagram's |
| `board` | 2 heights, 1 state, 2 packets, 1 image, 1 reset | no packet is missing in a rate or counted twice; the maximum covers the heights; the window ends by showing what is on the board |
| `xstrato` | 3 images of 3 parts, 2 seconds | a file mixes two images only after two losses at their border; a whole image is saved, shown and safe; the light turns green |
| `nordend` | 1 valve of the vehicle, 1 of the ground equipment, 4 modes (2 with a line in the table), reports of two values, 1 order under way | icons agree with the stored packets, one state says NOW, and the panel shows the truth again once things calm down |
| `nordend_ignition` | the same, with reports of a third value | violation, see below |

**Bounds.** Three orders suffice for an arming, an ignition and a left-over or
repeated one; a burst of two has a first and a late copy (five copies add no new
order of events: a copy is late or not). Link capacity 2 lets an old packet stand
before a new one. ARMED is the worst that the valve button can store, as the window then calls for an ignition. Two packets with a request of one number give a file with a first
and a last packet and a request that does not cover all that is absent;
the safety properties of `file` were
also checked with link 2 (1.2 million states) and on 3 packets with requests of two
numbers (13 million), and are proved for all sizes. The properties of `nordend` were also checked with a third value in the
reports of the ground equipment (1.7 million states), and its safety properties are proved with it. Nine entries fill
buffers of two more than four times, so each buffer is reused twice.
A port of six holds a frame and the beginning of the next, and lengths up to six make the Worker stop inside a
frame, at its end and behind it. Two packets and one reset let a reset fall anywhere into a packet and
be overtaken by the next, and let the second packet's height be lower or higher than the
first's. Three images give a file one before and one after the image in question, and two seconds let images share a second or not.
All safety properties of these three are proved without bounds.

**Deadlock** is checked except where behaviours end: the logger's when the bound
on entries is reached or the object is destroyed, the station's when the Worker has ended and the port is
closed. In `board` and `xstrato` the bounds on packets, images and seconds are reached.

**Fairness.** The two RF loops run for ever (`WF`), the code's
schedulers being threads without priorities; a waiting packet is read some
time (`SF`, since a loop may find the port empty any number of times before the
bytes are there). The operator owes nothing: properties about a persistent operator state
it as a hypothesis (`Persistent`, `PersistentOperatorFires`), as they do
for the radio (`RadioDelivers`: what is sent again and again arrives again and
again). In the logger the detached threads run, and a call of `add` returns; in
`ModemSwitch` and `Station` the Worker runs and a slot that has begun returns; that the sender falls silent after a whole frame
is a hypothesis of `SilenceHeals`, that the port can be opened one of `StartOpensModem`. In `Board` both threads run and the refresh timer fires, in `Xstrato`
an armed timer fires; that packets stop is a hypothesis of `WindowCatchesUp` and `QuietTurnsGreen`. In `Nordend` both sides
report again and again (`WF` of the two telemetry actions); that the port stays open and that the
vehicle and the operator leave the panel alone is a hypothesis of the properties
(`Quiet`), not a fairness of the specification.

**Mutants.** Next to a definition stand mutants of it (`...Late`, `...Keeps...`), each a
plausible bug in that handler; `PROJECT.json` names for each property one that
violates it.

## The proofs

TLAPS checks them for every value of the constants that the named `ASSUME`s allow
(any set of codes, burst, capacity, number and size of images ...).

* `IgnitionProofs`: `TypeCorrect`, `IgniterFollowsState`, from the inductive invariant
  `IInv == TypeOK /\ BurstCarriesOrder /\ IgniterIffOn`. `BurstCarriesOrder` is needed
  since a copy leaves the station only while there are copies left, and then the
  station's state is one a packet may carry. `PressGivesOneOrder` needs only that the flag is 0 or 1:
  each interleaving of the GUI's two steps with the Worker's eat keeps
  `Len(log) + clicked <= presses`. `OrdersStayInSequence` is the inductive heart:
  packets in flight are copies of logged orders with non-decreasing numbers, and the
  orders which armed and fired last are not newer than anything in flight
  (`OrdersInSequence`, `UsedOrders`). From it follow `IgnitionIsTwoStep` (every step maps to a step of
  `TwoStepIgnition` or a stutter: an order that fires is of another kind than the one
  that armed, so it is a different one, so it is later). `StatusShowsThePad` needs that an order is answered in the iteration that received it or
never (`AnswersAtOnce`): only then is an accepted order either about to be answered or recorded in `untold`.
* `FileTransferProofs`: `FileTypeCorrect`, `StreamStaysInFile`, `MissingListEnds`,
  `TransmissionStartsAtZero`, with and without restarts. Types alone are not
  inductive (an INIT packet carries a number of packets only because the import set
  it), so the invariant is `TypeOK /\ TxCounters`: in INIT and SENDING the file
  is there and `nbrTotPacket`, `lastPacketNbr` are its; `packetNbr` has not passed
  `lastPacketNbr`; a list ends with it; and `packetNbr` is 0 in the states from
  which a stream can start. `EachPacketIsSentOnce`, an action property from the same invariant:
  a stream or an answer sends the least packet of those `Left`, takes it from them and ends exactly when none is left.
* `FileExportProofs`: `ExportIsTheImage` and `TransmissionDelivers`, for
  `CleanRun`: one image, which stays on the disk, no request for missing packets before an INIT,
  no restart: without one of them come the counterexample `file_stale`, a list of missing packets answered from an emptied file, the empty export
  described below and, after a restart of the transmitter, packets of garbage. Losses, aborts,
  delays and the sizes are arbitrary. `CleanInv` says what every packet in
  flight is: packets to the receiver were cut from the transmitter's file, with the
  right form for their place, requests ask for packets of the file, the
  receiver's size is the file's as soon as it has one, its packets are the image's, and it asks
  for missing packets only when it knows the size. The image may be imported while old
  requests are on their way; the lemma `LinkSetsGrow` shows that this invalidates nothing.
  For the refinement of `FileDelivery` one part is added, which holds in any run: what is stored is below
  `nbrTotPacket` (`HeldBelowSize`), so that a second `resize` takes nothing away.
  `TransmitterStaysInFile` supposes less (`KeepsFile`): images of one size, one of them on the disk from the first on, and a transmitter that does not restart; the
  receiver may. `RangeInv` keeps of `CleanInv` what is about sizes and places. All three are
  needed: TLC violates `SendsWhatItHas` with images of 2 and 1 packets, with `Removable = TRUE`, and with
  `Restarts = {"tx"}`. TLC confirmed both invariants before they were proved, `RangeInv` with two images of
  2 packets, early requests and a restarting receiver.
* `DoubleBufferProofs`: `LoggerTypeCorrect` holds whether or not the file keeps up. Types are not inductive, since a
  number in the file is an entry's only if its place was stored to: `TypeInv` adds that a place below a
  position has been, even when a thread takes the position back between the owner's store and its increment.
  The other three assume `Timely`, without which `logger_race` refutes what they rest on.
  `OneWriterPerBuffer` proves that the two atomics then do keep the threads apart: `Ownership` says where the owner,
  the thread and each buffer's `ready_` and `position_` stand to each other, and that a buffer about to be handed over finds no
  thread (`HandOver`). `BufferImplementsLog`, the refinement of `EventLog`, adds `Entries`: an entry is in one
  place only, and is in the file exactly when the thread of its buffer has come past its place. `open` may fail.
  `LogKeepsTheOrder` adds `OrderInv`: the file, then what the thread has left, then the current
  buffer number the entries without a gap. That no `open` fails is a hypothesis of each step
  there, as `LogIsFaithful` supposes it for ever.

* `NordendProofs`: `NordendTypeCorrect`; `StateTableHasOneNow`, which is inductive by itself:
  every writer of the labels goes through `last_state` or only takes labels away (the
  reset, which does not know of `last_state`, is of the second kind); and
  `IconsFollowReports`, an action property: an icon turns to "Unknown" or to what the packet just stored
  says, so that once it agrees with the stored packets it does so for ever, whatever third value a report may have.
* `StationProofs`: `StationTypeCorrect`, `WorkerIsInStep`, `LoggedDatagramExists` and
  `PortClosedOutsideLoop`. The invariant adds where the two modules meet: outside its inner loop the Worker
  holds no port (so that the one it opens is the only one), and outside `RFroutine` it is at
  `receive` (so that opening a port cannot fall between the two reads of a packet). The arithmetic of
  places is the lemma `Places`: three bytes of head and `Body + 1` more are a frame.
* `BoardProofs`: `BoardTypeCorrect`, `PacketsAreCountedOnce`, `MaximumCoversHeights`. Types are not
  inductive, for a counter is bounded only by the packets there were: `CountsAgree` adds to
  `CountedOnce` that a packet is counted as one or as corrupted. `Comparing` carries the maximum
  over the Worker's three steps: the height on the board is the packet's or was cleared meanwhile,
  and a maximum about to be raised is still below it.
* `XstratoProofs`: `XstratoTypeCorrect`, `FilesMixOnlyAtLosses`, `WholeImagesAreShown` and
  `SavedImagesAreSafe`. `OnlySent` says that what is in a file was sent and not lost, `OpenFile` that
  each earlier image in the open file has lost its end, and `StartedFile` that once an image's start has come the
  open file holds exactly what has come of it, or none is open. The last two action properties
  follow from them at the step they speak of.

Only model-checked: all liveness (`AutoShutdown`, `PersistentOperatorFires`,
`ImageArrives`, `TransmissionEnds`, `FullIsWritten`, the three of `ModemSwitch`, `SilenceHeals`, `WindowCatchesUp`, `QuietTurnsGreen`, `PanelCatchesUp`, `SafeLabelCatchesUp`), which is out of
the provers' reach.

## Where the code disagrees with its own words

* `file_stale`: `file` is not cleared between transfers (`resize` keeps what is there),
  so packets of an earlier image complete a later one.
* `logger_race`: `make_ready_to_fill` announces a buffer before its position is reset. An
  owner that comes back to it in between stores at index `size`.

* `nordend_ignition`: `on_ignition_cmd_pressed` tests the flight mode before its question
  and not after it; telemetry that arrives while the question is open may report
  another mode, and Yes sends the order all the same.

Others met while modelling, not kept as runs:

When the INIT packet is lost, `nbrTotPacket` is 0 and asking for missing packets finds none; "Every
Packet have been received correctly" is printed (`File.cpp:91`) and an empty file exported:
`MCFileTransfer.cfg` with `EarlyMissing = TRUE` violates `ImplementsDelivery`. An abort that both sides
have heard does not end the transmission if the last packet is still on its way: it takes the
receiver from SLEEP to SEND_MISSING_PACKET_REQUEST (`File.cpp:204`), whose request wakes the transmitter, while `print`
says of an abort "Transmission stop - SLEEP mode" (`File.cpp:39`). When the image has gone from the disk, the second request's import fails
after it has emptied `file` (`File.cpp:258`), while the receiver still knows the first one's size: its request for missing packets
makes the transmitter read outside (`MCFileTransfer.cfg` with `Removable = TRUE` violates `SendsWhatItHas`).

The slot `valve_control` of the valve button is a left-over of a test: it stores the next number in
`IGNITION_STATUS` (`SecondWindow.cpp:128`), so that the window shows "GSE confirmation : Code is
correct - ARMED" (`SecondWindow.cpp:302`) of an igniter that is not. `StatusIsCurrent` has to except it; the next answer
puts the status right.
A reset takes away the announcement of an image that was just exported, and a packet that
is being stored overtakes it: `MaxCovers` and `WindowCatchesUp` say so. Xstrato's commands go nowhere, silently, when
the port is closed (`XstratoWindow.cpp:196`), and the red light does not keep them from being sent. When the modem is
unplugged, `SERIALPORT_STATUS` stays 1 (`Xbee.cpp:51`). `calculate_misses_in_last_2` divides
after the modulus (`SecondWindow.cpp:222`), so its slots are not those of two seconds. The Nordend window's packets
are uninitialised before the first telemetry (`NordendGUI.cpp:614`; `Init` leaves them
arbitrary). `updateTx` and `updateRx` of `IgnitionCode` return nothing when `RUNNING_ON_RPI` is not defined
(`IgnitionCode.cpp:119`); the models are of the build where it is.

`ignite_clicked` toggles
`IGNITION_CLICKED` (`SecondWindow.cpp:180`) where `ProtocolDefine.h:26` says it "is set to
true"; and the Worker clears `ACTIVE_XBEE` after a port that cannot be opened
(`Worker.cpp:44`) without the window's `xbee_acvite_` knowing, so that the next click
only brings START back. `NordendGUI.cpp:133` compares `gnss_alt` with the maximum it
has just been copied to, so the reserve maximum stays 0. The Nordend panel says
"SAFE config" before any telemetry (`GS2023.ui` leaves the label visible).
`on_reset_valves_pressed` has no line for `st_ready_steady`, harmless since the next telemetry
clears it. `CORRUPTED_PACKET_CTR` (`ProtocolDefine.h:55`) does not count packets with a
wrong checksum, as `CRC` is never compared.

## What is not modelled

* Real time: `clock()` counts CPU time, so the shutdown after `SHUTDOWN_TIME` is late by a
  factor that depends on load. The models say that it happens, not when.
* The contents of bytes (`Packet`'s and `CRC`'s arithmetic, capsules), the display of values, sounds, themes, printing.
* What the serial library does when a modem is unplugged: `Xbee::receive` catches its exceptions,
  `Xbee::send` does not, and the program ends.
* `FTX_SAVE_FILE`, which writes a copy of what has arrived and changes nothing else, and the names of exported files.
* The data race on `imgPLfilename`, a `std::string`: `Board` takes its store and its copy as
  atomic. So are all cells; `setData` reads eight bytes whatever its argument's type, and the models write
  and read a cell with one width.
* Nordend's measurements, tare, trajectory and log files, Xstrato's labels and settings: values shown or sent, of which no
  other state depends.
* The logger's destructor while a detached thread still runs: undefined
  behaviour at once.
* Propulsion window, simulators and test programs, LoRa, vendored libraries:
  presentation, tests or third-party code (see `PROJECT.json`).

## Plan

Done: all the modules, their runs, and the proofs of every safety property and refinement that a passing
run checks.

Left, in this order:

1. **Transmission half of `RFroutine`**: the order in which the datagrams are asked for, with
   `Station`, so that a stop falls between the copies of a burst.
2. **`FTX_SAVE_FILE`**, the copy of what has arrived, in `FileTransfer` and `FileDelivery`.
3. **More of the arguments behind liveness**, as `EachPacketIsSentOnce` is one of `TransmissionEnds`: what a step brings
   nearer, for every size.
