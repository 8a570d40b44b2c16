--------------------------- MODULE TwoStepIgnition ---------------------------
(***************************************************************************)
(* What the remote ignition promises, without stations, packets or codes:  *)
(* orders are numbered as the operator gives them, an igniter is armed by  *)
(* one order and fired by a strictly later one, and no order takes part    *)
(* twice: after a firing only an order given later than it can arm again.  *)
(***************************************************************************)
EXTENDS Naturals

VARIABLES
  issued,     \* orders given so far, numbered from 1
  phase,      \* "safe", "armed" or "firing"
  armOrder,   \* the order that armed last, 0 before the first
  fireOrder   \* the order that fired last, 0 before the first

vars == <<issued, phase, armOrder, fireOrder>>

Init == issued = 0 /\ phase = "safe" /\ armOrder = 0 /\ fireOrder = 0

Issue ==
  /\ issued' = issued + 1
  /\ UNCHANGED <<phase, armOrder, fireOrder>>

Arm ==
  /\ phase = "safe" /\ phase' = "armed"
  /\ armOrder' \in (fireOrder + 1)..issued
  /\ UNCHANGED <<issued, fireOrder>>

Fire ==
  /\ phase = "armed" /\ phase' = "firing"
  /\ fireOrder' \in (armOrder + 1)..issued
  /\ UNCHANGED <<issued, armOrder>>

MakeSafe ==
  /\ phase' = "safe"
  /\ UNCHANGED <<issued, armOrder, fireOrder>>

Next == Issue \/ Arm \/ Fire \/ MakeSafe

Spec == Init /\ [][Next]_vars
=============================================================================
