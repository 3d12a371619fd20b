------------------------------ MODULE MCDelivery ------------------------------
(* An instance of Delivery for TLC: a sink with no room to begin with that *)
(* takes everything, and a larger one that takes WARN and above and may    *)
(* fail; a list with both, one with a sink twice, and an empty one.        *)
EXTENDS Delivery, TLC

CONSTANTS ring, audit, g1, g2, g3

RingSizes == (ring :> 0) @@ (audit :> 2)
Thresholds == (ring :> 1) @@ (audit :> 13)
SinkLists == {<<audit, ring>>, <<audit, audit>>, <<>>}

RecordRoles == (g1 :> {"emit"}) @@ (g2 :> {"emit", "set"}) @@ (g3 :> {"clear"})
CloseRoles == (g1 :> {"emit"}) @@ (g2 :> {"close", "set"}) @@ (g3 :> {"flush", "close"})
=============================================================================
