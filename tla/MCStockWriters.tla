--------------------------- MODULE MCStockWriters ---------------------------
(* An instance for TLC: two items of different size, two
   sessions of the orders and two of the absolute writers. *)
EXTENDS StockWriters, TLC

CONSTANTS c1, c2, s1, s2, i1, i2

MCQty == (i1 :> 1) @@ (i2 :> 2)
MCSymmetry == Permutations({c1, c2}) \cup Permutations({s1, s2})
MCLevel == {0, 2, 4}
MCDelta == {-1, 1}
=============================================================================
