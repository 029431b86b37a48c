CONSTANTS
    s1 = s1  s2 = s2  o1 = o1  o2 = o2
    a = a  b = b  v1 = v1
    Session = {s1, s2}
    Order = {o1}
    Item = {a, b}
    Variant = {v1}
    OrderOf <- OneOrder
    VariantOf <- OneVariant
    Qty <- UnitQty
    MaxQty = 1
    Stock <- TwoUnits
    Ops = {"create", "cancel", "transition", "cleanup", "wallet", "report"}
    Target = {"confirmed", "paid", "cancelled"}
    Reported = {"paid"}
    Mortal = {}
SPECIFICATION FairSpec
INVARIANT PaidIsSettled
PROPERTIES RequestsEnd ExpiredIsFreed
CHECK_DEADLOCK FALSE
