------------------------------- MODULE Station -------------------------------
(***************************************************************************)
(* The Worker with its modem: ModemSwitch, whose Routine is taken apart    *)
(* into the steps of Framing.  The window may stop the modem, the operator *)
(* may start it again on another port, and the sender pays no attention.   *)
(***************************************************************************)
EXTENDS ModemSwitch, Framing

switchVars  == vars
stationVars == <<vars, frameVars>>

StationTypeOK == TypeOK /\ FrameTypeOK

StationInit == Init /\ FrameInit

-----------------------------------------------------------------------------
\* Bytes arrive when they like, as long as the port is open.
BytesArrive ==
  /\ modem # {}
  /\ \E n \in 1 .. PortCap : Arrive(n)
  /\ UNCHANGED switchVars

StationWindow == Window /\ UNCHANGED frameVars

\* A new DataHandler is built, and its lastRxID with it.
StationTop == Top /\ NewHandler

StationOpen == Open /\ PortOpens

StationReceive ==
  /\ pc = "routine" /\ Receive
  /\ UNCHANGED switchVars

StationRoutine == Routine /\ Transmitted

StationDelete == Delete /\ PortCloses

StationIdle ==
  /\ Wait \/ WakeUp \/ OpenFails \/ Failed \/ Loop
  /\ UNCHANGED frameVars

StationWorker ==
  \/ StationTop \/ StationOpen \/ StationReceive \/ StationRoutine
  \/ StationDelete \/ StationIdle

StationNext == BytesArrive \/ StationWindow \/ StationWorker

\* The Worker runs, and xbee_clicked returns; nobody has to click or to send.
StationFairness ==
  /\ WF_stationVars(StationWorker)
  /\ WF_stationVars(ClickStarted /\ UNCHANGED frameVars)

StationSpec == StationInit /\ [][StationNext]_stationVars /\ StationFairness

-----------------------------------------------------------------------------
(* Properties.                                                             *)

\* Whatever was cut and whatever lengths were read out of it: if the modem
\* stays on, and the sender falls silent after a whole frame, the Worker ends
\* at the start of a frame with nothing left in the port.
SilenceHeals ==
  (/\ <>[](modem # {})
   /\ <>[](Tail = 0)
   /\ <>[][~BytesArrive]_stationVars)
    => <>[](head = 0 /\ avail = 0 /\ ~torn)
=============================================================================
