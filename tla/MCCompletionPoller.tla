--------------------------- MODULE MCCompletionPoller ---------------------------
(* Two connections of one device and one of another. *)
EXTENDS CompletionPoller, TLC

CONSTANTS c1, c2, c3

MCConns == {c1, c2, c3}
MCDevice == (c1 :> "mlx0") @@ (c2 :> "mlx0") @@ (c3 :> "mlx1")
=============================================================================
