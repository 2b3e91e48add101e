---------------------------- MODULE MCLayerGraph ----------------------------
(* LayerGraph on two layers of three expert tensors, and on one.           *)
EXTENDS LayerGraph, TLC

CONSTANTS g1, u1, d1, g2, u2, d2, L1, L2, e1, e2,
          a1, a2, a3, a4, a5, a6

TwoLayers   == <<g1, u1, d1, g2, u2, d2>>
TwoLayersOf == (g1 :> L1 @@ u1 :> L1 @@ d1 :> L1
                @@ g2 :> L2 @@ u2 :> L2 @@ d2 :> L2)
OneLayer    == <<g1, u1, d1>>
OneLayerOf  == (g1 :> L1 @@ u1 :> L1 @@ d1 :> L1)
UnitBytes   == [s \in Source |-> 1]
Singles     == {<<e1>>, <<e2>>}
=============================================================================
