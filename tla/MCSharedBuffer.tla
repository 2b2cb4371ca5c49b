----------------------------- MODULE MCSharedBuffer -----------------------------
(* Three connections: two that overlap, and one that comes after both. *)
EXTENDS SharedBuffer

CONSTANTS c1, c2, c3

MCConns == {c1, c2, c3}
=============================================================================
