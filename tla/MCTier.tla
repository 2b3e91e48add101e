------------------------------- MODULE MCTier -------------------------------
(* Tier on small instances: two expert tensors, called in any order.       *)
EXTENDS Tier, TLC

CONSTANTS s1, s2, L1, e1, e2, x1, a1, a2, a3, a4

OneLayer   == (s1 :> L1 @@ s2 :> L1)
Singles    == {<<e1>>, <<e2>>}
Lists      == {<<e1>>, <<e2>>, <<e1, e2>>}
OneBadList == Lists \cup {<<e1, x1>>}
UnitBytes  == (s1 :> 1 @@ s2 :> 1)
MixedBytes == (s1 :> 1 @@ s2 :> 2)
=============================================================================
