------------------------------- MODULE EventLog -------------------------------
(***************************************************************************)
(* What the logger promises to the program: an entry that is given to it   *)
(* is taken or refused at once; what is taken stays there until it is      *)
(* written, and is written at most once.  DoubleBuffer implements it.      *)
(***************************************************************************)
EXTENDS Naturals, Sequences, SequencesExt

VARIABLES
  given,    \* entries given so far: they are numbered from 1
  pending,  \* those that were taken and are not written
  log       \* those that are written

logVars == <<given, pending, log>>

Init == given = 0 /\ pending = {} /\ log = <<>>

Give ==
  /\ given' = given + 1
  /\ pending' = pending \cup {given'} \/ pending' = pending
  /\ UNCHANGED log

\* Several at once, in some order.
Write ==
  \E S \in (SUBSET pending) \ {{}} : \E s \in SetToSeqs(S) :
    /\ log' = log \o s /\ pending' = pending \ S
    /\ UNCHANGED given

Spec == Init /\ [][Give \/ Write]_logVars
=============================================================================
