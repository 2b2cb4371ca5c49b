----------------------------- MODULE MCFileTransfer -----------------------------
(* Three files, of two chunks, of one, and an empty one; two may share a name. *)
EXTENDS FileTransfer, TLC

CONSTANTS c1, c2, c3, n1, n2, n3

MCClients == {c1, c2, c3}
MCChunks == (c1 :> 2) @@ (c2 :> 1) @@ (c3 :> 0)
MCNamings == {(c1 :> n1) @@ (c2 :> n2) @@ (c3 :> n3),
              (c1 :> n1) @@ (c2 :> n1) @@ (c3 :> n3)}
=============================================================================
