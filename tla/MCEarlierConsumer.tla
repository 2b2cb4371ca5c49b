--------------------------- MODULE MCEarlierConsumer ---------------------------
(* Two threads, and records of three and two cells in base three. *)
EXTENDS EarlierConsumer

CONSTANTS t1, t2

MCThreads == {t1, t2}
MCLengths == <<3, 2>>
=============================================================================
