-------------------------------- MODULE MCBroker --------------------------------
(* Two producers of one and two records. *)
EXTENDS Broker, TLC

CONSTANTS p1, p2

MCProducers == {p1, p2}
MCQuota == (p1 :> 2) @@ (p2 :> 1)
=============================================================================
