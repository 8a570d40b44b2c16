----------------------------- MODULE ModemSwitch -----------------------------
(***************************************************************************)
(* The life of the modem in the GUI programs: the XBee button of the       *)
(* window, the two flags of the Connector it shares with the Worker thread *)
(* (ACTIVE_XBEE and RUNNING), and mainRoutine, which opens the serial port,*)
(* runs the RF loop on it and closes it again.                             *)
(***************************************************************************)
EXTENDS Naturals

CONSTANT Port   \* serial ports the selector offers

ASSUME PortAssumption == Port # {}

VARIABLES
  xbee_acvite,  \* the window's idea of it: its button says STOP, not START
  gui,          \* the GUI thread: "idle", "start" (in xbee_clicked) or "closed"
  active,       \* ACTIVE_XBEE
  running,      \* RUNNING
  index,        \* SERIALPORT_INDEX
  status,       \* SERIALPORT_STATUS: 0 closed, 1 open, 2 cannot be opened
  pc,           \* the Worker's place in mainRoutine
  modem         \* the ports that Xbee objects hold open: one at most

guiVars == <<xbee_acvite, gui>>
vars    == <<guiVars, active, running, index, status, pc, modem>>

TypeOK ==
  /\ xbee_acvite \in BOOLEAN /\ gui \in {"idle", "start", "closed"}
  /\ active \in BOOLEAN /\ running \in BOOLEAN
  /\ index \in Port /\ status \in {0, 1, 2}
  /\ pc \in {"top", "wait", "asleep", "open", "loop", "routine", "failed", "delete", "done"}
  /\ modem \in {{}} \cup {{p} : p \in Port}

Init ==
  /\ xbee_acvite = FALSE /\ gui = "idle"
  /\ active = FALSE /\ running = TRUE /\ index \in Port /\ status = 0
  /\ pc = "top" /\ modem = {}

-----------------------------------------------------------------------------
(* The window.                                                             *)

\* START: first the port, then the flag.
ClickStart ==
  /\ gui = "idle" /\ ~xbee_acvite
  /\ gui' = "start" /\ index' \in Port
  /\ UNCHANGED <<xbee_acvite, active, running, status, pc, modem>>

ClickStarted ==
  /\ gui = "start" /\ gui' = "idle"
  /\ active' = TRUE /\ xbee_acvite' = TRUE
  /\ UNCHANGED <<running, index, status, pc, modem>>

\* The window trusts its own flag: after a port that could not be opened,
\* this is the click that only brings the START button back.
ClickStop ==
  /\ gui = "idle" /\ xbee_acvite
  /\ active' = FALSE /\ xbee_acvite' = FALSE
  /\ UNCHANGED <<gui, running, index, status, pc, modem>>

CloseWindow ==
  /\ gui = "idle" /\ gui' = "closed"
  /\ running' = FALSE
  /\ UNCHANGED <<xbee_acvite, active, index, status, pc, modem>>

-----------------------------------------------------------------------------
(* The Worker.                                                             *)

\* A new DataHandler is built for every turn of the outer loop.
Top ==
  /\ pc = "top" /\ pc' = IF running THEN "wait" ELSE "done"
  /\ UNCHANGED <<guiVars, active, running, index, status, modem>>

Wait ==
  /\ pc = "wait" /\ pc' = IF active THEN "open" ELSE "asleep"
  /\ UNCHANGED <<guiVars, active, running, index, status, modem>>

\* Mutant of WakeUp: the waiting loop does not look at RUNNING.
WakeUpIgnoresRunning ==
  /\ pc = "asleep" /\ pc' = "wait"
  /\ UNCHANGED <<guiVars, active, running, index, status, modem>>

WakeUp ==
  /\ pc = "asleep" /\ pc' = IF running THEN "wait" ELSE "done"
  /\ UNCHANGED <<guiVars, active, running, index, status, modem>>

Open ==
  /\ pc = "open" /\ pc' = "loop"
  /\ modem' = modem \cup {index} /\ status' = 1
  /\ UNCHANGED <<guiVars, active, running, index>>

OpenFails ==
  /\ pc = "open" /\ pc' = "failed"
  /\ status' = 2
  /\ UNCHANGED <<guiVars, active, running, index, modem>>

\* The port could not be opened: the flag is cleared, and the error stays on
\* the screen for three seconds.
Failed ==
  /\ pc = "failed" /\ pc' = "delete"
  /\ active' = FALSE
  /\ UNCHANGED <<guiVars, running, index, status, modem>>

\* Mutant of Loop: only RUNNING is looked at.
LoopIgnoresActive ==
  /\ pc = "loop" /\ pc' = IF running THEN "routine" ELSE "delete"
  /\ UNCHANGED <<guiVars, active, running, index, status, modem>>

Loop ==
  /\ pc = "loop" /\ pc' = IF active /\ running THEN "routine" ELSE "delete"
  /\ UNCHANGED <<guiVars, active, running, index, status, modem>>

\* RFroutine (Ignition and FileTransfer model what it does).
Routine ==
  /\ pc = "routine" /\ pc' = "loop"
  /\ UNCHANGED <<guiVars, active, running, index, status, modem>>

\* Mutant of Delete: the flag is cleared with the modem.
DeleteClearsFlag ==
  /\ pc = "delete" /\ pc' = "top"
  /\ modem' = {} /\ status' = 0 /\ active' = FALSE
  /\ UNCHANGED <<guiVars, running, index>>

\* Mutant of Delete: the port stays open.
DeleteLeaks ==
  /\ pc = "delete" /\ pc' = "top"
  /\ status' = 0
  /\ UNCHANGED <<guiVars, active, running, index, modem>>

Delete ==
  /\ pc = "delete" /\ pc' = "top"
  /\ modem' = {} /\ status' = 0
  /\ UNCHANGED <<guiVars, active, running, index>>

-----------------------------------------------------------------------------
Window == ClickStart \/ ClickStarted \/ ClickStop \/ CloseWindow
Worker == Top \/ Wait \/ WakeUp \/ Open \/ OpenFails \/ Failed \/ Loop \/ Routine \/ Delete

Next == Window \/ Worker

\* The Worker runs, and xbee_clicked returns; nobody has to click.
Fairness == WF_vars(Worker) /\ WF_vars(ClickStarted)

Spec == Init /\ [][Next]_vars /\ Fairness

-----------------------------------------------------------------------------
(* Properties.                                                             *)

\* "Every thread listens this boolean and stop executing when it is false":
\* from wherever mainRoutine is, closing the window ends the thread (main
\* joins it), with the port closed.
ClosingEndsWorker == ~running ~> (pc = "done" /\ modem = {})

\* With the button on START, the modem is off, or will be: a Worker in the
\* middle of opening the port does not miss the stop.
StopClosesModem == <>[]~xbee_acvite => <>[](modem = {} /\ status = 0)

\* With the button on STOP, the modem is on, or will be, if the port can be
\* opened: a stop and a start in quick succession do not leave it off.
StartOpensModem ==
  <>[](xbee_acvite /\ running) /\ [](status # 2) => <>[](modem # {})
=============================================================================
