CONSTANTS
    s1 = s1  s2 = s2  o1 = o1  o2 = o2
    a = a  b = b  v1 = v1
    Session = {s1}
    Order = {o1, o2}
    Item = {a, b}
    Variant = {v1}
    OrderOf <- TwoOrders
    VariantOf <- OneVariant
    Qty <- UnitQty
    MaxQty = 1
    Stock <- TwoUnits
    Ops = {"create", "cancel", "transition", "cleanup", "wallet"}
    Target = {"confirmed", "paid", "cancelled"}
    Reported = {}
    Mortal = {}
SPECIFICATION Spec
PROPERTY PaidKeepsItsStock
CHECK_DEADLOCK FALSE
