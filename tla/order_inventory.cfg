CONSTANTS
    s1 = s1  s2 = s2  o1 = o1  o2 = o2
    a = a  b = b  v1 = v1
    Session = {s1, s2}
    Order = {o1, o2}
    Item = {a, b}
    Variant = {v1}
    OrderOf <- TwoOrders
    VariantOf <- OneVariant
    Qty <- UnitQty
    MaxQty = 1
    Stock <- OneUnit
    Ops = {"create", "cancel", "transition", "cleanup", "force", "report"}
    Target = {"confirmed", "paid"}
    Reported = {"confirmed"}
    Mortal = {"create", "cancel", "cleanup"}
SPECIFICATION Spec
SYMMETRY Alike
INVARIANTS NoReservationLeak ReservedExact PromisesKept
PROPERTIES FollowsLifecycle KeepsLedger
CONSTRAINT SomeUndisturbed
CHECK_DEADLOCK FALSE
