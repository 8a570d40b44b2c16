--------------------------- MODULE MCFileTransfer ---------------------------
(* Images of given numbers of packets, for the runs of FileTransfer.        *)
EXTENDS FileTransfer

CONSTANTS a, b

OneSize == [v \in Image |-> 2]
=============================================================================
