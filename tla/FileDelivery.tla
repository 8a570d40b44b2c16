----------------------------- MODULE FileDelivery -----------------------------
(***************************************************************************)
(* What the image transmission promises to the operator: the payload takes *)
(* one image, its packets come one by one, in any order and any number of  *)
(* times, what has come stays, and what is exported is the whole image.    *)
(* FileTransfer implements it when nothing restarts and the payload has    *)
(* one image.                                                              *)
(***************************************************************************)
EXTENDS Naturals

CONSTANTS
  Image,   \* the images
  Size,    \* their number of packets
  NoImage  \* the payload has not taken one

VARIABLES
  source,   \* the image that the payload transmits
  have,     \* the packets that have come
  exported  \* {the last export}, {} before

deliveryVars == <<source, have, exported>>

Packets == 0..(Size[source] - 1)
Whole   == [i \in 1..Size[source] |-> source]

Init == source = NoImage /\ have = {} /\ exported = {}

Take ==
  /\ source = NoImage /\ source' \in Image
  /\ UNCHANGED <<have, exported>>

Arrive ==
  /\ source # NoImage
  /\ \E n \in Packets : have' = have \cup {n}
  /\ UNCHANGED <<source, exported>>

Export ==
  /\ source # NoImage /\ have = Packets
  /\ exported' = {Whole}
  /\ UNCHANGED <<source, have>>

Spec == Init /\ [][Take \/ Arrive \/ Export]_deliveryVars
=============================================================================
