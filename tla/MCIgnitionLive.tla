--------------------------- MODULE MCIgnitionLive ---------------------------
(* Bounds for the liveness of the ignition: no numbering of the orders, so  *)
(* the operator may press for ever.  A GSE with all switches down never     *)
(* fires; it is left out here (MCIgnition has it).                          *)
EXTENDS Ignition

CONSTANTS zero, a, key

LiveInit == Init /\ gseCode = a

LiveSpec == LiveInit /\ [][Next]_vars /\ Fairness
=============================================================================
