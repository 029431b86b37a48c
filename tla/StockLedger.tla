----------------------------- MODULE StockLedger -----------------------------
(***************************************************************************)
(* What orders promise to do with the stock: a ledger of units, changed by *)
(* one transaction at a time.  An order is promised every unit it asks for *)
(* or none; a promise is released, sold, or written off by an              *)
(* administrator, who leaves its units in the counter.                     *)
(*                                                                         *)
(* Of the sessions that do it only their overlaps are left: the orders     *)
(* that two of them have worked on at once are `contested`, the variants   *)
(* that two new orders have asked for at once are `raced`.  Each           *)
(* transaction says what it keeps to, and which of these excuses it.       *)
(***************************************************************************)
EXTENDS Integers, FiniteSets

CONSTANTS Order, Item, Variant, OrderOf, VariantOf, Qty, MaxQty, Stock

VARIABLES
    inventory,    \* units of each variant in the warehouse
    reserved,     \* units of each variant counted as promised
    reservation,  \* what has become of each item
    taken,        \* items sold
    leaked,       \* items written off
    contested, raced

counters == <<inventory, reserved>>
overlaps == <<contested, raced>>
ledger == <<counters, reservation, taken, leaked, overlaps>>

(* How many units of variant v the items of S ask for.                     *)
Units(S, v) ==
    Cardinality(UNION {{i} \X {n \in 1..MaxQty : n <= Qty[i]} :
                          i \in {j \in Item : j \in S /\ VariantOf[j] = v}})

Lines(o) == {i \in Item : OrderOf[i] = o}
Held(o) == {i \in Lines(o) : reservation[i] = "reserved"}

Mark(S, what) ==
    reservation' = [i \in Item |-> IF i \in S THEN what ELSE reservation[i]]

(* The items of S are reserved, but where sessions have overlapped.        *)
InHand(S) == \A i \in S : reservation[i] = "reserved" \/ OrderOf[i] \in contested

Init ==
    /\ inventory = Stock
    /\ reserved = [v \in Variant |-> 0]
    /\ reservation = [i \in Item |-> "none"]
    /\ taken = {} /\ leaked = {}
    /\ contested = {} /\ raced = {}

(* An order is promised everything it asks for, out of what is not         *)
(* promised to others.                                                     *)
Promise(o) ==
    /\ \A i \in Lines(o) : reservation[i] = "none"
    /\ Mark(Lines(o), "reserved")
    /\ reserved' = [v \in Variant |-> reserved[v] + Units(Lines(o), v)]
    /\ \A v \in Variant \ raced : reserved'[v] <= inventory[v]
    /\ UNCHANGED <<inventory, taken, leaked, overlaps>>

(* Items, of any orders, are given back.                                   *)
GiveBack(S) ==
    /\ InHand(S)
    /\ Mark(S, "released")
    /\ reserved' = [v \in Variant |-> reserved[v] - Units(S, v)]
    /\ UNCHANGED <<inventory, taken, leaked, overlaps>>

(* An order is sold: everything that it still holds, and nothing twice.    *)
Sell(o, S) ==
    /\ Held(o) \subseteq S /\ InHand(S)
    /\ S \cap taken = {}
    /\ Mark(S, "consumed")
    /\ reserved' = [v \in Variant |-> reserved[v] - Units(S, v)]
    /\ inventory' = [v \in Variant |-> inventory[v] - Units(S, v)]
    /\ taken' = taken \cup S
    /\ UNCHANGED <<leaked, overlaps>>

(* What an order holds is marked released, and stays in the counter.       *)
WriteOff(o) ==
    /\ Mark(Held(o), "released")
    /\ leaked' = leaked \cup Held(o)
    /\ UNCHANGED <<counters, taken, overlaps>>

(* Sessions overlap; the stock does not move.                              *)
Overlap ==
    /\ UNCHANGED <<counters, reservation, taken, leaked>>
    /\ contested \subseteq contested' /\ contested' \subseteq Order
    /\ raced \subseteq raced' /\ raced' \subseteq Variant

Next ==
    \/ Overlap
    \/ \E o \in Order : Promise(o) \/ WriteOff(o)
    \/ \E o \in Order : \E S \in SUBSET Lines(o) : Sell(o, S)
    \/ \E S \in SUBSET Item : GiveBack(S)

Spec == Init /\ [][Next]_ledger
=============================================================================
