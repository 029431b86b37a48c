-------------------------- MODULE MCOrderInventory --------------------------
(* Small instances of OrderInventory.                                      *)
EXTENDS OrderInventory, TLC

CONSTANTS s1, s2, o1, o2, a, b, v1

(* Two orders of one unit, of which there is one or there are two.         *)
TwoOrders == (a :> o1) @@ (b :> o2)
OneVariant == (a :> v1) @@ (b :> v1)
UnitQty == (a :> 1) @@ (b :> 1)
OneUnit == v1 :> 1
TwoUnits == v1 :> 2

(* One order for two units of one variant: enough for its sessions to wait *)
(* for one another.                                                        *)
OneOrder == (a :> o1) @@ (b :> o1)

Sessions == Permutations({s1, s2})

(* The two orders of one unit are alike, with their items.                 *)
Alike == Sessions \cup {(o1 :> o2) @@ (o2 :> o1) @@ (a :> b) @@ (b :> a)}

(* Once requests have overlapped on every order, most properties are about *)
(* none: such states are checked and not gone on from.                     *)
SomeUndisturbed == contested # Order
=============================================================================
