----------------------------- MODULE MCOrderSync -----------------------------
(* An instance for TLC: two shops; the page of one has room for one of its *)
(* two orders, the order of the other can be refused.                      *)
EXTENDS OrderSync, TLC

CONSTANTS r1, r2, a, b, o1, o2, o3

MCShopOf == (o1 :> a) @@ (o2 :> a) @@ (o3 :> b)
=============================================================================
