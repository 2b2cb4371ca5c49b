--------------------------- MODULE MCConsumerClient ---------------------------
(* Four records: a key and no value, both, neither, and one that is too long. *)
(* With two binary digits a header holds lengths up to 3; the header of 3, cut *)
(* after its first digit, reads as 1, and that of 6, after its second, as 3.   *)
EXTENDS ConsumerClient

MCSizes == <<2, 3, 1, 6>>
=============================================================================
