--------------------------- MODULE MCEarlierProducer ---------------------------
(* The three calls of client.c, the second record shorter than the first. *)
EXTENDS EarlierProducer

MCLengths == <<3, 1, 2>>
=============================================================================
