------------------------- MODULE MCShopConnections -------------------------
(* One instance of ShopConnections: a shop with two rows and another shop  *)
(* that wants the same vendor.                                             *)
EXTENDS ShopConnections, TLC

CONSTANTS s1, s2, mine, other, i1, i2, j1, v1, h1

MCShopOf == [i \in Integration |-> IF i = j1 THEN other ELSE mine]
Symmetric ==
    Permutations({s1, s2}) \cup Permutations(Integration \ {j1})
=============================================================================
