----------------------------- MODULE MCIgnition -----------------------------
(* Bounds for model checking the ignition.                                 *)
EXTENDS IgnitionHistory

CONSTANTS zero, a, key

=============================================================================
